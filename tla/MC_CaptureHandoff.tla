-------------------------- MODULE MC_CaptureHandoff -------------------------
(* One hart of the capture block runs a program of nine instructions: three  *)
(* loads and a divide are overwritten or return while younger loads into one *)
(* of their registers follow at once.                                        *)
EXTENDS InstrCapture

Program == <<[kind |-> "div", rd |-> 1], [kind |-> "load", rd |-> 4],
             [kind |-> "load", rd |-> 2], [kind |-> "load", rd |-> 3],
             [kind |-> "alu", rd |-> 2], [kind |-> "alu", rd |-> 3],
             [kind |-> "load", rd |-> 4],
             [kind |-> "load", rd |-> 4], [kind |-> "alu", rd |-> 1]>>

(* What retires is next in the program.                                      *)
InOrder(pair) ==
    LET both == SelectSeq(pair, LAMBDA lane : lane # None)
    IN  \A k \in 1..Len(both) :
           LET next == Program[Len(story[both[k].hart]) + k]
           IN  both[k] = [hart |-> both[k].hart, kind |-> next.kind, rd |-> next.rd]

ProgramEdge ==
    /\ \A h \in CapHarts : errors[h] = {}
    /\ \E pair \in Retiring : InOrder(pair) /\ Cycle(pair)

ProgramSpec == CaptureInit /\ [][ProgramEdge]_captureVars
=============================================================================
