----------------------------- MODULE FrameQueue -----------------------------
(* What the two-slot transmit FIFO promises: a bounded queue of whole        *)
(* frames.  A frame enters complete, leaves complete, unchanged and in       *)
(* order, and at most Capacity are inside.                                   *)
EXTENDS Naturals, Sequences

CONSTANTS Capacity, Frames, NoFrame

VARIABLES queue,      \* complete frames not yet sent
          delivered   \* the last frame sent

Init == queue = <<>> /\ delivered = NoFrame

Publish == /\ Len(queue) < Capacity
           /\ \E frame \in Frames : queue' = Append(queue, frame)
           /\ UNCHANGED delivered

Deliver == /\ queue # <<>>
           /\ delivered' = Head(queue)
           /\ queue' = Tail(queue)

Next == Publish \/ Deliver

Spec == Init /\ [][Next]_<<queue, delivered>>
=============================================================================
