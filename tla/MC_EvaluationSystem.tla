------------------------ MODULE MC_EvaluationSystem ------------------------
(* Instances of the session for TLC. *)
EXTENDS EvaluationProperties

Nothing == {}
Ordinary == {"ACCESS", "OPERATOR"}
Failures == {"STATUS", "INSTR", "DATA", "ATG", "ZERO", "INIT", "OTHER"}
=============================================================================
