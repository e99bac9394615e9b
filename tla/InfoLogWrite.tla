---------------------------- MODULE InfoLogWrite ----------------------------
(* The log path of a run, from the records the capture block produces to the *)
(* regions of the two harts in DDR1: per hart a queue on the core clock, the *)
(* ring of banks, a beat queue on the UI clock, and one write DMA for both   *)
(* (eh2logcomp_system_top.sv, g_info_write_elastic to info_write_dma_i).     *)
(*                                                                           *)
(* All core registers take one step per core edge and all UI registers one   *)
(* per UI edge, with MinUiEdges to MaxUiEdges UI edges between core edges.   *)
(* A bit that has changed since the last UI edge may be caught by the first  *)
(* stage of its synchronizer or missed until the next edge, independently of *)
(* the others.                                                               *)
EXTENDS ClockCrossing, InfoFifoPingpong, SequencesExt

CONSTANTS PageBeats, RegionBeats,
          QueueDepth,              \* records of the core-clock queue: 16
          CountLag,                \* UI edges a bank's count may still move
          MaxRecords,              \* bound: records produced per hart
          Failures,                \* bound: responses that carry an error
          MinUiEdges, MaxUiEdges

ASSUME LogWriteAssumption ==
    /\ PageBeats \in Nat \ {0} /\ RegionBeats \in Nat
    /\ QueueDepth \in Nat /\ 2 * WritePorts <= QueueDepth
    /\ CountLag \in Nat /\ CountLag <= StableCycles
    /\ MaxRecords \in [{0, 1} -> Nat] /\ Failures \in Nat
    /\ MinUiEdges \in Nat \ {0} /\ MaxUiEdges \in Nat
    /\ MinUiEdges <= MaxUiEdges

Harts == {0, 1}

VARIABLES
    produced,      \* records the capture block has produced, per hart
    captureDone,   \* capture_done: both harts stopped, nothing pending
    queue,         \* info_record_elastic_4w4r
    pipelineDone,  \* info_pipeline_done_core
    side,          \* the core-clock registers of the two FIFOs
    releaseSync    \* release toggles on their way to the core clock
coreVars == <<produced, captureDone, queue, pipelineDone, side, releaseSync>>

VARIABLES
    lanes,         \* records in the asynchronous FIFO of every bank
    uiEdges        \* UI edges since the last core edge
sharedVars == <<lanes, uiEdges>>

VARIABLES
    ui,            \* the UI-clock registers of the two FIFOs
    readySync, ackSync, doneSync, releaseSource,
    lag,           \* UI edges since the active bank was picked
    child, popped, \* output register of the claimed bank, its pop cadence
    output,        \* the two-entry queue behind the bank multiplexer
    elastic,       \* info_fifo_read_elastic
    memory,        \* the records in DDR1
    failures       \* error responses so far
uiVars == <<ui, readySync, ackSync, doneSync, releaseSource, lag, child, popped,
            output, elastic, memory, failures>>

VARIABLES
    state, activeHart, address, planAddress, remaining, burstBeats, beatIndex,
    sent, total, batchDone, writtenRecords, axiError, regionOverflow
dmaVars == <<state, activeHart, address, planAddress, remaining, burstBeats,
             beatIndex, sent, total, batchDone, writtenRecords, axiError,
             regionOverflow>>
Dma == INSTANCE InfoWriteDma

vars == <<coreVars, sharedVars, uiVars, dmaVars>>

(* ------------------------------ core clock ------------------------------ *)

(* The queue takes a whole bundle of the source or nothing.                  *)
QueueReady(h) == Len(queue[h]) <= QueueDepth - WritePorts
Bundles(h) == {n \in 0 .. WritePorts :
                  n # 0 => /\ ~captureDone /\ QueueReady(h)
                           /\ produced[h] + n <= MaxRecords[h]}
Numbered(from, n) == [i \in 1 .. n |-> from + i]

Offered(h) == IF Len(queue[h]) < WritePorts THEN Len(queue[h]) ELSE WritePorts
Taken(h) == Accepted(side[h], Offered(h))
(* Slip: the level of the toggle is taken for the event.                     *)
ReleasedLevel(h) == {b \in Banks : SyncOut(releaseSync[h][b]) = 1}
Released(h) == {b \in Banks : Pulse(releaseSync[h][b])}

(* The records taken, the part that each bank receives.                      *)
Portion(h, b) ==
    IF b = side[h].bank
    THEN SubSeq(queue[h], 1, Here(side[h], Offered(h)))
    ELSE IF WrittenTo(side[h], Offered(h))[b] # 0
         THEN SubSeq(queue[h], Here(side[h], Offered(h)) + 1, Taken(h))
         ELSE <<>>

(* The end of capture is passed on when both queues have emptied.            *)
Drained == captureDone /\ \A h \in Harts : queue[h] = <<>>

CoreEdge ==
    /\ uiEdges >= MinUiEdges
    /\ uiEdges' = 0
    /\ captureDone' \in {captureDone, TRUE}
    /\ \E new \in [Harts -> 0 .. WritePorts] :
          /\ \A h \in Harts : new[h] \in Bundles(h)
          /\ produced' = [h \in Harts |-> produced[h] + new[h]]
          /\ queue' = [h \in Harts |->
                SubSeq(queue[h], Taken(h) + 1, Len(queue[h]))
                    \o Numbered(produced[h], new[h])]
    /\ pipelineDone' = Drained
    /\ lanes' = [h \in Harts |-> [b \in Banks |-> lanes[h][b] \o Portion(h, b)]]
    /\ side' = [h \in Harts |->
                   CoreStep(side[h], Offered(h), Released(h), pipelineDone)]
    /\ releaseSync' = [h \in Harts |-> [b \in Banks |->
                   Shift(releaseSync[h][b], releaseSource[h][b].toggle)]]
    /\ UNCHANGED <<uiVars, dmaVars>>

(* ------------------------------- UI clock ------------------------------- *)

ReadyUi(h) == {b \in Banks : SyncOut(readySync[h][b])}

(* The bits that changed with the last core edge: the first stage may miss   *)
(* any of them on this edge.                                                 *)
Levels == ({"ready"} \X Harts \X Banks) \union ({"ack"} \X Harts \X {0})
              \union {<<"done", 0, 0>>}
Source(l) == CASE l[1] = "ready" -> l[3] \in side[l[2]].ready
               [] l[1] = "ack"   -> side[l[2]].flushAck
               [] OTHER          -> pipelineDone
FirstStage(l) == CASE l[1] = "ready" -> readySync[l[2]][l[3]][1]
                   [] l[1] = "ack"   -> ackSync[l[2]][1]
                   [] OTHER          -> doneSync[1]
Moving == IF uiEdges # 0 THEN {}
          ELSE {l \in Levels : Source(l) # FirstStage(l)}
Seen(l, missed) == IF l \in missed THEN FirstStage(l) ELSE Source(l)

(* The count of the active bank as the UI side reads it.                     *)
Counts(h) ==
    LET all == Len(lanes[h][ui[h].bank])
    IN  IF ui[h].active /\ ~ui[h].claimed /\ lag[h] < CountLag
        THEN ui[h].sample .. all ELSE {all}
BankCounts == {occ \in [Harts -> 0 .. BankRecords] :
                  \A h \in Harts : occ[h] \in Counts(h)}

(* The claimed bank, its output register, the output queue and the elastic   *)
(* queue in front of the DMA: each looks only at the space of the next.      *)
BankReads(h) == ui[h].active /\ ui[h].claimed /\ Len(output[h]) # 2
Captures(h) == IF BankReads(h) /\ ~popped[h]
               THEN HeadRecords(lanes[h][ui[h].bank], SyncOut(doneSync)) ELSE 0
Pushes(h) == BankReads(h) /\ child[h] # <<>>
Passes(h) == output[h] # <<>> /\ Len(elastic[h]) # 2

Stream(axi) ==
    /\ lanes' = [h \in Harts |-> [b \in Banks |->
            IF b = ui[h].bank
            THEN SubSeq(lanes[h][b], Captures(h) + 1, Len(lanes[h][b]))
            ELSE lanes[h][b]]]
    /\ popped' = [h \in Harts |-> Captures(h) # 0]
    /\ child' = [h \in Harts |->
            IF Captures(h) # 0
            THEN <<SubSeq(lanes[h][ui[h].bank], 1, Captures(h))>>
            ELSE IF Pushes(h) THEN <<>> ELSE child[h]]
    /\ output' = [h \in Harts |->
            (IF Passes(h) THEN Tail(output[h]) ELSE output[h])
                \o (IF Pushes(h) THEN child[h] ELSE <<>>)]
    /\ LET takes(h) == activeHart = h /\ Dma!Takes(axi, elastic[h])
       IN  /\ elastic' = [h \in Harts |->
                  (IF takes(h) THEN Tail(elastic[h]) ELSE elastic[h])
                      \o (IF Passes(h) THEN <<Head(output[h])>> ELSE <<>>)]
           /\ memory' = [h \in Harts |->
                  IF takes(h) THEN memory[h] \o Head(elastic[h])
                  ELSE memory[h]]

Offering == {h \in Harts : BatchValid(ui[h])}
HartEmpty(h) == /\ AllEmpty(ui[h], ReadyUi(h), Len(output[h]))
                /\ elastic[h] = <<>>

(* What the memory port may answer; an error only as a response.             *)
Answers == {a \in [ready : BOOLEAN, bad : BOOLEAN] :
               /\ state \notin {"AW", "W", "B"} => a.ready
               /\ a.bad => a.ready /\ state = "B" /\ failures < Failures}

UiEdgeWith(axi) ==
    /\ uiEdges < MaxUiEdges
    /\ uiEdges' = uiEdges + 1
    /\ failures' = IF axi.bad THEN failures + 1 ELSE failures
    /\ \E missed \in SUBSET Moving :
          /\ readySync' = [h \in Harts |-> [b \in Banks |->
                 Shift(readySync[h][b], Seen(<<"ready", h, b>>, missed))]]
          /\ ackSync' = [h \in Harts |->
                 Shift(ackSync[h], Seen(<<"ack", h, 0>>, missed))]
          /\ doneSync' = Shift(doneSync, Seen(<<"done", 0, 0>>, missed))
    /\ \E occupancy \in BankCounts :
          ui' = [h \in Harts |->
                    UiStep(ui[h], ReadyUi(h), SyncOut(ackSync[h]),
                           occupancy[h], Dma!Selects(h, Offering),
                           batchDone[h])]
    /\ lag' = [h \in Harts |-> IF ~ui[h].active THEN 0
                               ELSE IF lag[h] < CountLag THEN lag[h] + 1
                               ELSE lag[h]]
    /\ releaseSource' = [h \in Harts |-> [b \in Banks |->
                 SourceStep(releaseSource[h][b], b \in ui[h].release)]]
    /\ Stream(axi)
    /\ Dma!DmaStep(Offering, [h \in Harts |-> ui[h].sample], axi, elastic)
    /\ UNCHANGED coreVars

UiEdge == \E axi \in Answers : UiEdgeWith(axi)

(* The DMA's copy of the end of capture crosses in two stages, that of the   *)
(* banks in three.                                                           *)
AllWritesDone == /\ doneSync[2] /\ state = "IDLE"
                 /\ \A h \in Harts : HartEmpty(h)

Init ==
    /\ produced = [h \in Harts |-> 0] /\ captureDone = FALSE
    /\ queue = [h \in Harts |-> <<>>] /\ pipelineDone = FALSE
    /\ side = [h \in Harts |-> CoreReset]
    /\ releaseSync = [h \in Harts |-> [b \in Banks |-> ChainOf(0)]]
    /\ lanes = [h \in Harts |-> [b \in Banks |-> <<>>]]
    /\ uiEdges = 0
    /\ ui = [h \in Harts |-> UiReset]
    /\ readySync = [h \in Harts |-> [b \in Banks |-> ChainOf(FALSE)]]
    /\ ackSync = [h \in Harts |-> ChainOf(FALSE)]
    /\ doneSync = ChainOf(FALSE)
    /\ releaseSource = [h \in Harts |-> [b \in Banks |->
                                            [last |-> FALSE, toggle |-> 0]]]
    /\ lag = [h \in Harts |-> 0]
    /\ child = [h \in Harts |-> <<>>] /\ popped = [h \in Harts |-> FALSE]
    /\ output = [h \in Harts |-> <<>>] /\ elastic = [h \in Harts |-> <<>>]
    /\ memory = [h \in Harts |-> <<>>] /\ failures = 0
    /\ Dma!DmaInit

Next == CoreEdge \/ UiEdge
Spec == Init /\ [][Next]_vars

(* The clocks run and the memory port does not refuse for ever. Nothing says *)
(* that the harts stop.                                                      *)
Answered == \E axi \in Answers : axi.ready /\ UiEdgeWith(axi)
FairSpec == /\ Spec
            /\ WF_vars(CoreEdge) /\ WF_vars(UiEdge) /\ SF_vars(Answered)
=============================================================================
