--------------------------- MODULE MC_InfoLogWrite ---------------------------
(* Instances of the log path for TLC.                                        *)
EXTENDS InfoLogWriteProperties

(* Records each hart may produce: enough to use the ring more than once.     *)
Unequal == [h \in Harts |-> IF h = 0 THEN 17 ELSE 1]
Short == [h \in Harts |-> IF h = 0 THEN 7 ELSE 1]
=============================================================================
