----------------------------- MODULE InfoLogDump -----------------------------
(* eth/info_log_dump_subsystem.sv: the DDR1-to-Ethernet dump of the recorded *)
(* instructions, with the blocks it instantiates: the read DMA and its       *)
(* elastic queue, the two-slot frame FIFO, the completion-frame formatter    *)
(* and the crossings between the UI clock and the transmit clock.            *)
(*                                                                           *)
(* All the UI registers take one step per UI edge and all the TX registers   *)
(* one step per TX edge.  The clocks are free running: between two TX edges  *)
(* there are at least MinUiEdges and at most MaxUiEdges UI edges: one at     *)
(* least, the UI clock (266.5 MHz) being faster than the other (125 MHz).    *)
EXTENDS ClockCrossing, Sequences, SequencesExt

CONSTANTS Beats, PageBeats,   \* geometry of a frame and of a page
          Totals,             \* record counts a hart can have written
          MaxDumps,           \* bound: dumps requested
          MinUiEdges, MaxUiEdges

ASSUME DumpAssumption ==
    /\ Beats \in Nat \ {0} /\ PageBeats \in Nat \ {0}
    /\ Totals \subseteq Nat
    /\ MaxDumps \in Nat
    /\ MinUiEdges \in Nat \ {0} /\ MaxUiEdges \in Nat
    /\ MinUiEdges <= MaxUiEdges

Harts == Bit
RecordsPerFrame == 2 * Beats

VARIABLES
    seqState, hart, frameNumber, recordsRemaining, activeTotal, activeRecords,
    readStart, buildStart, buildNumber, framesOutstanding, releaseError,
    allDone, doneStart, doneHart, doneTotal

seqVars == <<seqState, hart, frameNumber, recordsRemaining, activeTotal,
             activeRecords, readStart, buildStart, buildNumber,
             framesOutstanding, releaseError, allDone, doneStart, doneHart,
             doneTotal>>

VARIABLES
    dmaState, dmaHart, address, beatsRemaining, burstBeats, burstIndex,
    dataIndex, dmaBusy, dmaDone, dmaAxiError, dmaProtocolError, elastic

dmaVars == <<dmaState, dmaHart, address, beatsRemaining, burstBeats, burstIndex,
             dataIndex, dmaBusy, dmaDone, dmaAxiError, dmaProtocolError, elastic>>
Dma == INSTANCE InfoReadDma

VARIABLES
    occupied, dirty, publish, releaseSync, releaseSeen, writeSlot, buildActive,
    expectedIndex, frameReleased, protocolError, slotHeader, slotPayload,
    txState, readSlot, release, publishSync, wordIndex, hold, activeHeader,
    shifted, sentFrame

fifoUiVars == <<occupied, dirty, publish, releaseSync, releaseSeen, writeSlot,
                buildActive, expectedIndex, frameReleased, protocolError,
                slotHeader, slotPayload>>
fifoTxVars == <<txState, readSlot, release, publishSync, wordIndex, hold,
                activeHeader, shifted, sentFrame>>
Fifo == INSTANCE InfoTxFrameFifo WITH
            Records <- Harts \X Nat, FrameNumbers <- Nat

VARIABLES
    startSource, doneSync,             \* UI side of the two event crossings
    startSync, metaSync, doneSource,   \* TX side, and the bundle of metadata
    fmtState, fmtHart, fmtTotal, fmtBusy, fmtDone

cdcUiVars == <<startSource, doneSync>>
fmtVars == <<startSync, metaSync, doneSource, fmtState, fmtHart, fmtTotal,
             fmtBusy, fmtDone>>

VARIABLES
    written,     \* records of each hart in DDR1 when the dump starts
    dumps,       \* dumps requested so far
    sent,        \* the frames of the current dump, as the MAC took them
    uiEdges      \* UI edges since the last TX edge

vars == <<seqVars, dmaVars, fifoUiVars, fifoTxVars, cdcUiVars, fmtVars,
          written, dumps, sent, uiEdges>>

(* ------------------------ UI clock: the sequencer ------------------------ *)

(* Slip: the level of the toggle is taken for the event.                     *)
DoneDoneLevel == SyncOut(doneSync) = 1
DoneDoneUi == Pulse(doneSync)

(* Reservations are counted when the FIFO accepts them, releases when the    *)
(* toggle has come back.  One of each in a cycle leaves the count alone.     *)
Reserved == buildStart /\ Fifo!BuildReady
(* Slip: a flag in place of the counter.                                     *)
OutstandingFlag ==
    IF Reserved THEN 1 ELSE IF frameReleased THEN 0 ELSE framesOutstanding
Outstanding ==
    IF Reserved /\ ~frameReleased THEN framesOutstanding + 1
    ELSE IF ~Reserved /\ frameReleased /\ framesOutstanding # 0
         THEN framesOutstanding - 1
         ELSE framesOutstanding
CountError == ~Reserved /\ frameReleased /\ framesOutstanding = 0

NoRequest == readStart' = FALSE /\ buildStart' = FALSE /\ doneStart' = FALSE

(* From ST_IDLE, or from ST_DONE for a retransmission: the same ordered      *)
(* hart 0 then hart 1 read, from the first record.                           *)
SeqBegin(start) ==
    /\ seqState \in {"IDLE", "DONE"} /\ start
    /\ allDone' = FALSE
    /\ hart' = 0
    /\ frameNumber' = 0 /\ buildNumber' = 0
    /\ recordsRemaining' = written[0]
    /\ activeTotal' = written[0]
    /\ activeRecords' = IF seqState = "DONE" THEN 0 ELSE activeRecords
    /\ framesOutstanding' = 0
    /\ seqState' = IF written[0] = 0 THEN "DRAIN" ELSE "DATA"
    /\ dumps' = dumps + 1
    /\ sent' = <<>>
    /\ NoRequest
    /\ UNCHANGED <<doneHart, doneTotal>>

SeqRest(start) ==
    /\ seqState \in {"IDLE", "DONE"} /\ ~start
    /\ allDone' = (allDone \/ seqState = "DONE")
    /\ framesOutstanding' = Outstanding
    /\ NoRequest
    /\ UNCHANGED <<seqState, hart, frameNumber, recordsRemaining, activeTotal,
                   activeRecords, buildNumber, doneHart, doneTotal, dumps, sent>>

(* Slip: the request just made is not waited for.                            *)
CanPlanAgain == /\ ~dmaDone /\ ~dmaBusy /\ Fifo!BuildReady /\ ~Fifo!FullUi
                /\ recordsRemaining # 0
CanPlan == /\ ~dmaDone /\ ~dmaBusy /\ ~readStart /\ ~buildStart
           /\ Fifo!BuildReady /\ ~Fifo!FullUi
           /\ recordsRemaining # 0

(* Reserve a slot and start the DMA for the same frame in the same cycle.    *)
SeqPlan ==
    /\ seqState = "DATA" /\ CanPlan
    /\ activeRecords' = IF recordsRemaining >= RecordsPerFrame
                        THEN RecordsPerFrame ELSE recordsRemaining
    /\ buildNumber' = frameNumber
    /\ readStart' = TRUE /\ buildStart' = TRUE /\ doneStart' = FALSE
    /\ framesOutstanding' = Outstanding
    /\ UNCHANGED <<seqState, hart, frameNumber, recordsRemaining, activeTotal,
                   allDone, doneHart, doneTotal, dumps, sent>>

SeqReadDone ==
    /\ seqState = "DATA" /\ dmaDone
    /\ frameNumber' = frameNumber + 1
    /\ recordsRemaining' = IF recordsRemaining <= activeRecords THEN 0
                           ELSE recordsRemaining - activeRecords
    /\ seqState' = IF recordsRemaining <= activeRecords THEN "DRAIN" ELSE "DATA"
    /\ NoRequest
    /\ framesOutstanding' = Outstanding
    /\ UNCHANGED <<hart, activeTotal, activeRecords, buildNumber, allDone,
                   doneHart, doneTotal, dumps, sent>>

SeqHold ==
    /\ \/ seqState = "DATA" /\ ~CanPlan /\ ~dmaDone
       \/ seqState = "DRAIN" /\ (framesOutstanding # 0 \/ dmaBusy)
       \/ seqState = "DONE_WAIT" /\ ~DoneDoneUi
    /\ NoRequest
    /\ framesOutstanding' = Outstanding
    /\ UNCHANGED <<seqState, hart, frameNumber, recordsRemaining, activeTotal,
                   activeRecords, buildNumber, allDone, doneHart, doneTotal,
                   dumps, sent>>

(* The completion frame waits for every data slot of the hart to come back.  *)
SeqDrained ==
    /\ seqState = "DRAIN" /\ framesOutstanding = 0 /\ ~dmaBusy
    /\ doneHart' = hart /\ doneTotal' = activeTotal
    /\ seqState' = "DONE_START"
    /\ NoRequest
    /\ framesOutstanding' = Outstanding
    /\ UNCHANGED <<hart, frameNumber, recordsRemaining, activeTotal,
                   activeRecords, buildNumber, allDone, dumps, sent>>

SeqDoneStart ==
    /\ seqState = "DONE_START"
    /\ readStart' = FALSE /\ buildStart' = FALSE /\ doneStart' = TRUE
    /\ seqState' = "DONE_WAIT"
    /\ framesOutstanding' = Outstanding
    /\ UNCHANGED <<hart, frameNumber, recordsRemaining, activeTotal,
                   activeRecords, buildNumber, allDone, doneHart, doneTotal,
                   dumps, sent>>

SeqHart0Done ==
    /\ seqState = "DONE_WAIT" /\ DoneDoneUi /\ hart = 0
    /\ hart' = 1
    /\ frameNumber' = 0 /\ buildNumber' = 0
    /\ recordsRemaining' = written[1]
    /\ activeTotal' = written[1]
    /\ seqState' = IF written[1] = 0 THEN "DRAIN" ELSE "DATA"
    /\ NoRequest
    /\ framesOutstanding' = Outstanding
    /\ UNCHANGED <<activeRecords, allDone, doneHart, doneTotal, dumps, sent>>

SeqHart1Done ==
    /\ seqState = "DONE_WAIT" /\ DoneDoneUi /\ hart = 1
    /\ seqState' = "DONE"
    /\ NoRequest
    /\ framesOutstanding' = Outstanding
    /\ UNCHANGED <<hart, frameNumber, recordsRemaining, activeTotal,
                   activeRecords, buildNumber, allDone, doneHart, doneTotal,
                   dumps, sent>>

SeqStep(start) ==
    /\ releaseError' = (releaseError \/ CountError)
    /\ \/ SeqBegin(start) \/ SeqRest(start) \/ SeqPlan \/ SeqReadDone
       \/ SeqHold \/ SeqDrained \/ SeqDoneStart
       \/ SeqHart0Done \/ SeqHart1Done

(* --------------------- UI clock: everything at an edge -------------------- *)

ReadRequest == [valid |-> readStart, hart |-> hart, number |-> frameNumber,
                records |-> activeRecords]
BuildRequest == [start |-> buildStart,
                 header |-> [hart |-> hart, number |-> buildNumber,
                             valid |-> activeRecords]]
(* What the elastic queue shows the frame FIFO.                              *)
DataOffer == IF elastic = <<>>
             THEN [valid |-> FALSE, index |-> 0, last |-> FALSE,
                   beat |-> Dma!ZeroBeat]
             ELSE [valid |-> TRUE, index |-> Dma!Offer.index,
                   last |-> Dma!Offer.last, beat |-> Dma!Offer.beat]

UiRegisters(axi, start) ==
    /\ SeqStep(start)
    /\ Dma!DmaStep(ReadRequest, axi, buildActive)
    /\ Fifo!UiStep(BuildRequest, DataOffer)
    /\ startSource' = SourceStep(startSource, doneStart)
    /\ doneSync' = Shift(doneSync, doneSource.toggle)

(* The memory answers reads correctly and in its own time.                   *)
AxiAnswers == [arready : BOOLEAN, rvalid : BOOLEAN, rlast : {Dma!LastOfBurst},
               bad : {FALSE}]

(* The controller asks again only once it has seen the dump complete.        *)
MayStart == dumps < MaxDumps /\ (seqState = "IDLE" \/ allDone)

UiEdge ==
    /\ uiEdges < MaxUiEdges
    /\ \E axi \in AxiAnswers, start \in BOOLEAN :
          (start => MayStart) /\ UiRegisters(axi, start)
    /\ uiEdges' = uiEdges + 1
    /\ UNCHANGED <<fifoTxVars, fmtVars, written>>

(* ------------------ TX clock: formatter and output mux ------------------- *)

(* The frame the formatter builds from the metadata it latched.              *)
DoneFrame(h, total) ==
    [kind |-> "DONE", hart |-> h, total |-> total,
     frames |-> (total + RecordsPerFrame - 1) \div RecordsPerFrame]
DataFrame(frame) ==
    [kind |-> "DATA", hart |-> frame.hart, number |-> frame.number,
     words |-> frame.words]

FmtStart ==
    /\ fmtState = "IDLE" /\ Pulse(startSync)
    /\ fmtHart' = SyncOut(metaSync).hart /\ fmtTotal' = SyncOut(metaSync).total
    /\ fmtBusy' = TRUE /\ fmtDone' = FALSE
    /\ fmtState' = "HEADER"

FmtWait(ready) ==
    /\ \/ fmtState = "IDLE" /\ ~Pulse(startSync)
       \/ fmtState # "IDLE" /\ ~ready
    /\ fmtDone' = FALSE
    /\ UNCHANGED <<fmtState, fmtHart, fmtTotal, fmtBusy>>

FmtHeader(ready) ==
    /\ fmtState = "HEADER" /\ ready
    /\ fmtDone' = FALSE
    /\ fmtState' = "PAYLOAD"
    /\ UNCHANGED <<fmtHart, fmtTotal, fmtBusy>>

FmtPayload(ready) ==
    /\ fmtState = "PAYLOAD" /\ ready
    /\ fmtBusy' = FALSE /\ fmtDone' = TRUE
    /\ fmtState' = "IDLE"
    /\ UNCHANGED <<fmtHart, fmtTotal>>

(* The formatter has the port whenever it is busy; otherwise the data slots. *)
FormatterSelected == fmtBusy \/ fmtState # "IDLE"
FormatterReady(ready) == FormatterSelected /\ ready
SlotReady(ready) == ~FormatterSelected /\ ready

DoneFrameLeaves(ready) == fmtState = "PAYLOAD" /\ FormatterReady(ready)
DataFrameLeaves(ready) == Fifo!TxLast /\ SlotReady(ready)

TxRegisters(ready) ==
    /\ Fifo!TxStep(SlotReady(ready))
    /\ startSync' = Shift(startSync, startSource.toggle)
    /\ metaSync' = Shift(metaSync, [hart |-> doneHart, total |-> doneTotal])
    /\ doneSource' = SourceStep(doneSource, fmtDone)
    /\ \/ FmtStart \/ FmtWait(FormatterReady(ready))
       \/ FmtHeader(FormatterReady(ready)) \/ FmtPayload(FormatterReady(ready))
    /\ sent' = IF DoneFrameLeaves(ready) THEN Append(sent, DoneFrame(fmtHart, fmtTotal))
               ELSE IF DataFrameLeaves(ready) THEN Append(sent, DataFrame(Fifo!FrameOut))
               ELSE sent

TxEdge ==
    /\ uiEdges >= MinUiEdges
    /\ \E ready \in BOOLEAN : TxRegisters(ready)
    /\ uiEdges' = 0
    /\ UNCHANGED <<seqVars, dmaVars, fifoUiVars, cdcUiVars, written, dumps>>

(* -------------------------------- system --------------------------------- *)

Init ==
    /\ seqState = "IDLE" /\ hart = 0 /\ frameNumber = 0
    /\ recordsRemaining = 0 /\ activeTotal = 0 /\ activeRecords = 0
    /\ readStart = FALSE /\ buildStart = FALSE /\ buildNumber = 0
    /\ framesOutstanding = 0 /\ releaseError = FALSE
    /\ allDone = FALSE /\ doneStart = FALSE /\ doneHart = 0 /\ doneTotal = 0
    /\ Dma!DmaInit
    /\ Fifo!FifoInit
    /\ startSource = QuietSource /\ doneSource = QuietSource
    /\ startSync = ChainOf(0) /\ doneSync = ChainOf(0)
    /\ metaSync = ChainOf([hart |-> 0, total |-> 0])
    /\ fmtState = "IDLE" /\ fmtHart = 0 /\ fmtTotal = 0
    /\ fmtBusy = FALSE /\ fmtDone = FALSE
    /\ written \in [Harts -> Totals]
    /\ dumps = 0 /\ sent = <<>> /\ uiEdges = 0

Next == UiEdge \/ TxEdge

(* The clocks run, the memory answers and the MAC drains: each side, offered *)
(* its step again and again, takes it with the other party responsive.       *)
ResponsiveAxi == [arready |-> TRUE, rvalid |-> TRUE, rlast |-> Dma!LastOfBurst,
                  bad |-> FALSE]
UiResponsive == UiEdge /\ \E start \in BOOLEAN :
                   (start => MayStart) /\ UiRegisters(ResponsiveAxi, start)
TxResponsive == TxEdge /\ TxRegisters(TRUE)
Fairness == SF_vars(UiResponsive) /\ SF_vars(TxResponsive)

Spec == Init /\ [][Next]_vars
FairSpec == Spec /\ Fairness
=============================================================================
