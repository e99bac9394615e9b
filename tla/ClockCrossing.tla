--------------------------- MODULE ClockCrossing ---------------------------
(* The two clock-domain-crossing primitives every block of eh2logcomp uses.  *)
(*   - sync_bits:        a level or a bundle sampled by a chain of registers *)
(*   - event_toggle_cdc: a pulse turned into a toggle, the toggle sampled by *)
(*                       a three-stage chain, an edge of it a pulse again    *)
(* Only pure operators: a module that owns such registers applies them at    *)
(* its own clock edges, always to the values from before the edge.           *)
EXTENDS Integers

Bit == {0, 1}
Flip(b) == 1 - b

(* A chain of three registers, stage 1 nearest to the source.               *)
Stages == 1 .. 3
Chain(S) == [Stages -> S]
ChainOf(v) == [i \in Stages |-> v]

(* One destination edge: stage 1 samples the input, the rest move on.        *)
Shift(chain, input) == [i \in Stages |-> IF i = 1 THEN input ELSE chain[i - 1]]
SyncOut(chain) == chain[3]

(* event_toggle_cdc, source side: a rising edge of the event flips toggle.   *)
EventSource == [last : BOOLEAN, toggle : Bit]
QuietSource == [last |-> FALSE, toggle |-> 0]
SourceStep(src, event) ==
    [last   |-> event,
     toggle |-> IF event /\ ~src.last THEN Flip(src.toggle) ELSE src.toggle]

(* ... destination side: stages 2 and 3 differ for one destination cycle.    *)
Pulse(chain) == chain[3] # chain[2]
=============================================================================
