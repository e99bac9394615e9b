--------------------------- MODULE InfoDumpService ---------------------------
(* What a dump promises the host: on each request the MAC is given exactly   *)
(* the frames of both harts, hart 0 first, each hart's data frames in order  *)
(* and closed by a completion frame, and the dump is reported complete only  *)
(* when the last of them has left.  `plan` is the sequence of what each of   *)
(* these frames may be, fixed by what the harts have written.                *)
EXTENDS Naturals, Sequences

VARIABLES plan, phase, sent

Init == phase = "idle" /\ sent = <<>>

Request == /\ phase \in {"idle", "complete"}
           /\ phase' = "sending" /\ sent' = <<>>

Send == /\ phase = "sending" /\ Len(sent) < Len(plan)
        /\ \E frame \in plan[Len(sent) + 1] : sent' = Append(sent, frame)
        /\ UNCHANGED phase

Complete == /\ phase = "sending" /\ Len(sent) = Len(plan)
            /\ phase' = "complete" /\ UNCHANGED sent

Next == UNCHANGED plan /\ (Request \/ Send \/ Complete)
Spec == Init /\ [][Next]_<<plan, phase, sent>>
=============================================================================
