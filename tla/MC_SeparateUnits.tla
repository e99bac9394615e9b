-------------------------- MODULE MC_SeparateUnits --------------------------
(* Small instance of the six units; the other values are in the .cfg.        *)
EXTENDS SeparateUnits, TLC

(* Two loads into one register, the younger of which may cancel the older.   *)
Load(target, data) == [what |-> "load", event |-> 1, target |-> target, data |-> data]
Stop == [what |-> "stop", event |-> 0, target |-> 0, data |-> 0]
TwoLoads == {(0 :> <<Load(1, 2), Load(1, 0), Stop>>) @@ (1 :> <<Stop>>)}

RecordOf(seq, i) == [seq |-> seq, what |-> i.what, event |-> i.event, target |-> i.target,
                   kind |-> 0, data |-> i.data, cancel |-> 0]
Cancels == {[RecordOf(0, Load(1, d)) EXCEPT !.kind = 1, !.cancel = c] : d \in {0, 2}, c \in 0..3}
RightAndWrong ==
    {RecordOf(0, Load(1, 2)), RecordOf(1, Load(1, 0)), RecordOf(2, Stop), RecordOf(0, Stop)}
    \cup Cancels
    \cup {RecordOf(3, Stop), RecordOf(0, Load(1, 0)), RecordOf(1, Load(2, 0)),
          [RecordOf(1, Load(1, 0)) EXCEPT !.kind = 2, !.cancel = 2],
          [RecordOf(0, Load(1, 2)) EXCEPT !.cancel = 1]}

(* One record value in the frame FIFO: the blanked records of a short frame  *)
(* and the hart tell any two frames apart.                                   *)
OneRecord == {<<0, 0>>}
=============================================================================
