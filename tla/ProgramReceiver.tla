-------------------------- MODULE ProgramReceiver --------------------------
(* The receive side of the board: eth_rx_frame_classifier.sv routes each      *)
(* frame of the MAC by its destination, program_rx_dma_ctrl.v writes a        *)
(* program frame to DDR0 through the DataMover, system_info_rx_decoder.sv     *)
(* turns a control frame into a pulse.                                        *)
(*                                                                            *)
(* Words are abstracted: a frame is taken in one step, which stands for the   *)
(* moment its route and its sequence number are decided.  The engines run on  *)
(* the controller clock, each at its own pace; a pulse one of them raises is  *)
(* seen at the next edge and, where the code clears it, gone after it.        *)
EXTENDS Integers, Sequences

VARIABLE rx

Test(seq) == [kind |-> "PROGRAM", image |-> "TEST", number |-> seq]
Program(seq) == [kind |-> "PROGRAM", image |-> "PROGRAM", number |-> seq]
End(total) == [kind |-> "END", image |-> "NONE", number |-> total]
Control(kind) == [kind |-> kind, image |-> "NONE", number |-> 0]
NoFrame == Control("NONE")

RxInitial ==
    [inbox |-> <<>>,                    \* the MAC receive FIFO
     dma |-> "IDLE", frame |-> NoFrame, \* the frame being written
     wrote |-> FALSE,                   \* its first write address was accepted
     frames |-> 0,                      \* frame_count: the next sequence number
     doneCount |-> 0,                   \* program_dma_done_count
     errors |-> {},                     \* sticky: SEQUENCE, WRITE
     ddr0 |-> <<>>,                     \* what DDR0 holds, frame by frame
     firstWrite |-> FALSE, done |-> FALSE,
     end |-> FALSE, total |-> 0, reset |-> FALSE, retransmit |-> FALSE]

DmaBusy == rx.dma \in {"MOVE", "STATUS"}
Waiting(kinds) == rx.inbox # <<>> /\ Head(rx.inbox).kind \in kinds

(* A program frame while DDR0 belongs to someone else is swallowed.           *)
SwallowProgram(open) ==
    /\ Waiting({"PROGRAM"}) /\ ~open
    /\ rx' = [rx EXCEPT !.inbox = Tail(@)]

(* A frame out of sequence is dropped and reported; the expected one is       *)
(* handed to the DataMover, and the next frame waits for its status.          *)
TakeProgram(open) ==
    LET f == Head(rx.inbox)
    IN  /\ Waiting({"PROGRAM"}) /\ open /\ ~DmaBusy
        /\ rx' = IF f.number = rx.frames
                 THEN [rx EXCEPT !.inbox = Tail(@), !.dma = "MOVE", !.frame = f,
                                 !.wrote = FALSE]
                 ELSE [rx EXCEPT !.inbox = Tail(@), !.errors = @ \cup {"SEQUENCE"}]

AcceptWrite ==
    /\ DmaBusy /\ ~rx.wrote /\ ~rx.firstWrite
    /\ rx' = [rx EXCEPT !.wrote = TRUE, !.firstWrite = TRUE]

MovePayload ==
    /\ rx.dma = "MOVE"
    /\ rx' = [rx EXCEPT !.dma = "STATUS", !.frames = @ + 1]

Stored(ddr0, f) ==
    [i \in 1 .. (IF Len(ddr0) > f.number THEN Len(ddr0) ELSE f.number + 1) |->
        IF i = f.number + 1 THEN f.image
        ELSE IF i <= Len(ddr0) THEN ddr0[i] ELSE "NONE"]

TakeStatus(ok) ==
    /\ rx.dma = "STATUS" /\ rx.wrote /\ ~rx.done
    /\ rx' = [rx EXCEPT !.dma = "IDLE", !.frame = NoFrame, !.done = TRUE,
                        !.ddr0 = IF ok THEN Stored(@, rx.frame) ELSE @,
                        !.errors = IF ok THEN @ ELSE @ \cup {"WRITE"}]

(* A control frame follows the payload of the program frame before it, not    *)
(* that frame's DataMover status.  The decoder takes one frame at a time.     *)
TakeControl ==
    LET f == Head(rx.inbox)
    IN  /\ Waiting({"END", "RESET", "RETRANSMIT"}) /\ rx.dma # "MOVE"
        /\ ~rx.end /\ ~rx.reset
        /\ rx' = [rx EXCEPT !.inbox = Tail(@),
                            !.end = f.kind = "END",
                            !.total = f.number,
                            !.reset = f.kind = "RESET",
                            !.retransmit = @ \/ f.kind = "RETRANSMIT"]

(* Slip: the count of completed writes survives the session clear.            *)
RxEdgeKeepsCount(clear) ==
    LET e == [rx EXCEPT
                !.firstWrite = FALSE, !.done = FALSE, !.end = FALSE, !.reset = FALSE,
                !.doneCount = IF rx.done /\ "WRITE" \notin rx.errors THEN @ + 1 ELSE @]
    IN  rx' = IF clear
              THEN [e EXCEPT !.dma = "IDLE", !.frame = NoFrame, !.wrote = FALSE,
                             !.frames = 0, !.errors = {}]
              ELSE e

(* The clock edge: every pulse but the retransmit request is cleared; a       *)
(* session clear reloads the bookkeeping of the program path.                 *)
RxEdge(clear) ==
    LET e == [rx EXCEPT
                !.firstWrite = FALSE, !.done = FALSE, !.end = FALSE, !.reset = FALSE,
                !.doneCount = IF rx.done /\ "WRITE" \notin rx.errors THEN @ + 1 ELSE @]
    IN  rx' = IF clear
              THEN [e EXCEPT !.dma = "IDLE", !.frame = NoFrame, !.wrote = FALSE,
                             !.frames = 0, !.doneCount = 0, !.errors = {}]
              ELSE e
=============================================================================
