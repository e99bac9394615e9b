----------------------- MODULE InfoLogDumpProperties -----------------------
(* What the dump of the instruction records must do.                         *)
EXTENDS InfoLogDump

(* The frames of a hart: sixty records each, the last one padded with zero   *)
(* records, then the completion frame (info_log_done_formatter.sv).          *)
FrameCount(total) == (total + RecordsPerFrame - 1) \div RecordsPerFrame
RecordAt(h, i) == IF i < written[h] THEN <<h, i>> ELSE <<>>
FullFrame(h, n) ==
    [kind |-> "DATA", hart |-> h, number |-> n,
     words |-> [b \in 1 .. Beats |->
                   << RecordAt(h, n * RecordsPerFrame + 2 * (b - 1)),
                      RecordAt(h, n * RecordsPerFrame + 2 * b - 1) >>]]
FramesOf(h) ==
    [n \in 1 .. FrameCount(written[h]) |-> FullFrame(h, n - 1)]
        \o <<DoneFrame(h, written[h])>>
Expected == FramesOf(0) \o FramesOf(1)

(* The host reads the stream in order and closes a hart on its completion    *)
(* frame, so each data frame must come complete, once and in its place       *)
(* (completion frames are only told from data frames here).                  *)
SameFrame(f, g) == f.kind = g.kind /\ (f.kind = "DATA" => f = g)
DataFramesInOrder ==
    /\ Len(sent) <= Len(Expected)
    /\ \A i \in 1 .. Len(sent) : SameFrame(sent[i], Expected[i])

(* info_log_dump_subsystem.sv:127: the completion metadata is registered     *)
(* before the start event crosses and held until the completion event        *)
(* returns - so the completion frame carries the hart and total of its hart. *)
CompletionFramesTrue ==
    \A i \in 1 .. Len(sent) :
        sent[i].kind = "DONE" =>
            sent[i] \in {DoneFrame(h, written[h]) : h \in Harts}
            /\ sent[i].hart = Cardinality({j \in 1 .. i - 1 : sent[j].kind = "DONE"})

(* The error latches of the dump (read length, frame protocol, release       *)
(* count) flag a broken invariant of the dump itself; with a memory that     *)
(* answers correctly none of them ever sets, so C4 is never sent.            *)
NoSpuriousError ==
    ~protocolError /\ ~releaseError /\ ~dmaProtocolError /\ ~dmaAxiError

(* frames_outstanding is the number of reserved slots, plus a release that   *)
(* is being reported: zero means that nothing is left inside the FIFO, which *)
(* is what the completion frame waits for.  So "data slots and the           *)
(* completion formatter never overlap" (info_log_dump_subsystem.sv:152): the *)
(* output mux never takes the port from a frame that has started.            *)
ReleasePending == IF frameReleased THEN 1 ELSE 0
DrainIsReal ==
    /\ framesOutstanding = Cardinality({s \in Bit : occupied[s]}) + ReleasePending
    /\ FormatterSelected => txState = "IDLE"

(* info_ddr_read_dma.sv:5: a burst stays inside a 4 KiB page, and only beats *)
(* that hold a record are read (an unwritten line has no valid ECC).         *)
BurstsLegal ==
    dmaState \in {"AR", "R"} =>
        LET first == address - (IF dmaState = "R" THEN burstIndex ELSE 0)
        IN  /\ burstBeats # 0
            /\ first \div PageBeats = (first + burstBeats - 1) \div PageBeats
            /\ 2 * (first + burstBeats - 1) < written[dmaHart]

(* What may stand in each place.  The request for a completion frame needs   *)
(* two UI edges more than its metadata to reach the TX clock.  With at most  *)
(* two UI edges in a transmit period the frame is that of its hart; with     *)
(* three, both may be first seen at one TX edge, and the frame may carry the *)
(* metadata of the completion frame before it, or zeros if it is the first.  *)
Overtaken(h) == {DoneFrame(1 - h, written[1 - h])} \cup {f \in {DoneFrame(0, 0)} : h = 0}
Completion(h) == {DoneFrame(h, written[h])} \cup {f \in Overtaken(h) : MaxUiEdges > 2}
Acceptable ==
    [i \in 1 .. Len(Expected) |->
        IF Expected[i].kind = "DATA" THEN {Expected[i]} ELSE Completion(Expected[i].hart)]

(* The dump implements its service.                                          *)
Service == INSTANCE InfoDumpService WITH
    plan <- Acceptable,
    phase <- IF dumps = 0 THEN "idle" ELSE IF allDone THEN "complete" ELSE "sending"
ImplementsDumpService == Service!Spec

(* A builder that waits for its slot gets it: the slot it needs next is      *)
(* never reserved for ever, although a release may fall into the very edge   *)
(* of a build or of a beat (info_tx_frame_fifo_2slot.sv:102).                *)
SlotComesBack == (~buildActive /\ occupied[writeSlot]) ~> Fifo!BuildReady

(* Every request is answered by a complete dump.                             *)
DumpCompletes == seqState # "IDLE" ~> allDone
=============================================================================
