-------------------------- MODULE InfoFifoPingpong --------------------------
(* info/info_fifo_pingpong_4w2r.sv: the record FIFO of one hart, a ring of   *)
(* banks that the core clock fills and the UI clock hands to the DDR1 write  *)
(* DMA bank by bank.  Each clock's registers are one record, and its edge a  *)
(* function from the record before the edge to the one after.                *)
EXTENDS Integers, Sequences, FiniteSets, FiniteSetsExt

CONSTANTS BankCount,     \* 4
          BankRecords,   \* 512
          WritePorts,    \* records offered per core edge: 4
          StableCycles,  \* equal counts needed before a bank is offered: 32
          FlushGuard     \* UI edges from the acknowledgement to "empty": 7

ASSUME PingpongAssumption ==
    /\ BankCount \in Nat \ {0, 1}
    /\ WritePorts \in Nat \ {0} /\ BankRecords \in Nat
    /\ WritePorts <= BankRecords
    /\ StableCycles \in Nat /\ FlushGuard \in Nat

Banks == 0 .. BankCount - 1
OnFrom(b, i) == (b + i) % BankCount

(* ------------------------- core clock: writing ------------------------- *)

CoreSide == [owned : SUBSET Banks, ready : SUBSET Banks,
             count : [Banks -> 0 .. BankRecords],
             bank : Banks, valid : BOOLEAN, flushAck : BOOLEAN]

CoreReset == [owned |-> {}, ready |-> {}, count |-> [b \in Banks |-> 0],
              bank |-> 0, valid |-> TRUE, flushAck |-> FALSE]

Free(c) == {b \in Banks \ c.owned : c.count[b] = 0}

(* The bank after a full one: the next free bank of the ring, if any.        *)
(* Slip: the lowest free bank, not the next one of the ring.                 *)
NextFreeLowest(c) ==
    LET free == Free(c) \ {c.bank} IN IF free = {} THEN {} ELSE {Min(free)}
NextFree(c) ==
    LET near == {i \in 1 .. BankCount - 1 : OnFrom(c.bank, i) \in Free(c)}
    IN  IF near = {} THEN {} ELSE {OnFrom(c.bank, Min(near))}

(* The records offered fill the current bank, the rest goes to the next.     *)
Room(c) == IF c.valid /\ c.bank \notin c.owned
           THEN BankRecords - c.count[c.bank] ELSE 0
Here(c, offered) == IF offered < Room(c) THEN offered ELSE Room(c)
Fills(c, offered) == Room(c) # 0 /\ offered >= Room(c)
There(c, offered) == IF Fills(c, offered) /\ NextFree(c) # {}
                     THEN offered - Room(c) ELSE 0
Accepted(c, offered) == Here(c, offered) + There(c, offered)
WrittenTo(c, offered) ==
    [b \in Banks |-> IF b = c.bank THEN Here(c, offered)
                     ELSE IF b \in NextFree(c) THEN There(c, offered) ELSE 0]

(* The end of capture freezes a partly filled current bank.                  *)
FreezesTail(c, offered, flush) ==
    /\ flush /\ c.valid /\ c.bank \notin c.owned
    /\ c.count[c.bank] + Here(c, offered) # 0

(* The bank that takes the next record, none while every bank is owned: a    *)
(* bank freed on this edge, else one found free by the recovery scan.        *)
Selected(c, offered, released) ==
    IF Accepted(c, offered) # 0
    THEN IF Fills(c, offered) THEN NextFree(c) ELSE {c.bank}
    ELSE IF c.valid THEN {c.bank}
    ELSE IF released # {} THEN {Max(released)}
    ELSE IF Free(c) # {} THEN {Min(Free(c))} ELSE {}

(* One core edge: offered records, banks released, end of capture.           *)
CoreStep(c, offered, released, flush) ==
    LET writes   == WrittenTo(c, offered)
        tail     == FreezesTail(c, offered, flush)
        frozen   == IF Fills(c, offered) \/ tail THEN {c.bank} ELSE {}
        selected == Selected(c, offered, released)
    IN  [owned |-> (c.owned \ released) \union frozen,
         ready |-> (c.ready \ released) \union frozen,
         count |-> [b \in Banks |->
                       IF writes[b] # 0 THEN c.count[b] + writes[b]
                       ELSE IF b \in released THEN 0 ELSE c.count[b]],
         bank  |-> IF selected = {} THEN c.bank ELSE Max(selected),
         valid |-> selected # {} /\ ~tail,
         flushAck |-> c.flushAck \/ flush]

(* ------------------------- UI clock: reading --------------------------- *)

UiSide == [completed : SUBSET Banks, bank : Banks, active : BOOLEAN,
           claimed : BOOLEAN, pointer : Banks, release : SUBSET Banks,
           sample : 0 .. BankRecords, stable : 0 .. StableCycles,
           guard : 0 .. FlushGuard]

UiReset == [completed |-> {}, bank |-> 0, active |-> FALSE, claimed |-> FALSE,
            pointer |-> 0, release |-> {}, sample |-> 0, stable |-> 0,
            guard |-> 0]

(* Slip: the first count seen is offered.                                    *)
BatchValidAtOnce(u) == u.active /\ ~u.claimed /\ u.sample # 0
BatchValid(u) == /\ u.active /\ ~u.claimed
                 /\ u.stable = StableCycles /\ u.sample # 0

(* The first ready bank from the pointer, in the order of the ring, that is  *)
(* not one just released whose READY level has yet to fall.                  *)
(* Slip: the lowest ready bank, not the first from the pointer.              *)
NextReadyLowest(u, ready) ==
    LET new == ready \ u.completed IN IF new = {} THEN {} ELSE {Min(new)}
(* Slip: a level that has yet to fall is taken for a new bank.               *)
NextReadyStale(u, ready) ==
    {b \in ready : \A i \in 0 .. BankCount - 1 :
        OnFrom(u.pointer, i) \in ready =>
            \E j \in 0 .. i : OnFrom(u.pointer, j) = b}
NextReady(u, ready) ==
    {b \in ready \ u.completed : \A i \in 0 .. BankCount - 1 :
        OnFrom(u.pointer, i) \in ready \ u.completed =>
            \E j \in 0 .. i : OnFrom(u.pointer, j) = b}

(* Slip: "empty" does not wait for the end of capture to be acted upon.      *)
AllEmptyUnguarded(u, ready, queued) ==
    ~u.active /\ ready = {} /\ queued = 0
AllEmpty(u, ready, queued) ==
    u.guard = FlushGuard /\ ~u.active /\ ready = {} /\ queued = 0

Guarded(u, ack) == IF ack /\ u.guard # FlushGuard THEN u.guard + 1 ELSE u.guard

Pick(u, ready) ==
    LET next == NextReady(u, ready)
    IN  IF next = {} THEN u
        ELSE [u EXCEPT !.bank = Max(next), !.active = TRUE, !.claimed = FALSE,
                       !.sample = 0, !.stable = 0]

(* The count crosses on its own and may still move: it has to be seen equal  *)
(* StableCycles times before the bank is offered.                            *)
Settle(u, ready, occupancy, claim) ==
    LET moved == u.bank \notin ready \/ occupancy = 0 \/ occupancy # u.sample
    IN  [u EXCEPT !.sample = IF moved THEN occupancy ELSE @,
                  !.stable = IF moved THEN 0
                             ELSE IF @ = StableCycles THEN @ ELSE @ + 1,
                  !.claimed = BatchValid(u) /\ claim]

Finish(u) == [u EXCEPT !.release = {u.bank}, !.completed = @ \union {u.bank},
                       !.pointer = OnFrom(u.bank, 1), !.active = FALSE,
                       !.claimed = FALSE, !.sample = 0, !.stable = 0]

(* One UI edge: the READY levels and the acknowledgement as synchronized,    *)
(* the record count of the active bank as seen, the claim and the end of the *)
(* DMA.                                                                      *)
UiStep(u, ready, ack, occupancy, claim, done) ==
    LET moved == IF ~u.active THEN Pick(u, ready)
                 ELSE IF ~u.claimed THEN Settle(u, ready, occupancy, claim)
                 ELSE u
        quiet == [moved EXCEPT !.release = {}, !.guard = Guarded(u, ack),
                               !.completed = u.completed \intersect ready]
    IN  IF u.active /\ u.claimed /\ done THEN Finish(quiet) ELSE quiet

(* The claimed bank feeds the output queue two records at a time, the last   *)
(* odd one alone once capture has ended.                                     *)
HeadRecords(inBank, flushed) ==
    IF Len(inBank) >= 2 THEN 2
    ELSE IF Len(inBank) = 1 /\ flushed THEN 1 ELSE 0
=============================================================================
