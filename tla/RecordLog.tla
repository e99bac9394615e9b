----------------------------- MODULE RecordLog -----------------------------
(* What the log path of one run promises: the records a hart produces reach  *)
(* the log of that hart in DDR1 in the order they were produced, each once,  *)
(* and "all written" is reported only over two complete logs and is final.   *)
EXTENDS Integers, Sequences, SequencesExt

CONSTANT Harts

VARIABLES produced,   \* records produced by each hart, numbered from one
          log,        \* the records of each hart in DDR1
          complete    \* every record has been reported as written

logVars == <<produced, log, complete>>

Init == /\ produced = [h \in Harts |-> 0]
        /\ log = [h \in Harts |-> <<>>]
        /\ complete = FALSE

Numbers(from, to) == [i \in 1 .. to - from |-> from + i]
Extends(h, upTo) == /\ log'[h] = log[h] \o Numbers(Len(log[h]), Len(log'[h]))
                    /\ Len(log'[h]) <= upTo

(* Producers and the writer may progress in the same step.                   *)
Move == /\ ~complete
        /\ \A h \in Harts : /\ produced'[h] >= produced[h]
                            /\ Len(log'[h]) >= Len(log[h])
                            /\ Extends(h, produced[h])
        /\ DOMAIN produced' = Harts /\ DOMAIN log' = Harts
        /\ complete' => \A h \in Harts : Len(log'[h]) = produced'[h]

Spec == Init /\ [][Move]_logVars
=============================================================================
