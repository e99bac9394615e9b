------------------------- MODULE InfoLogWriteProofs -------------------------
(* What is proved of the log path for any number and size of banks, any      *)
(* memory port and any spacing of the two clocks: "all writes done" is never *)
(* reported after an error; a bank has one owner at a time and is offered    *)
(* with the count of the records in it; a burst stays in its page and        *)
(* region.  And, where the count is sampled long enough (Paced): the banks   *)
(* are filled and drained in the order of the ring, everything reported      *)
(* written is in DDR1, and the whole path implements a log of records.       *)
EXTENDS InfoLogWriteProperties, FiniteSetTheorems, SequenceTheorems, TLAPS

(* The bank that the FIFO of h has given to the DMA and not yet got back.    *)
Held(h) == ui[h].active /\ ui[h].claimed

(* Its hart is neither being served nor about to give the bank back.         *)
Stuck(h) == /\ Held(h) /\ ~batchDone[h]
            /\ state = "IDLE" \/ activeHart # h

OwnerFields == {"active", "claimed"}

(* A busy DMA works on a bank it holds, and an error leaves one hart stuck.  *)
OwnerInv ==
    /\ activeHart \in Harts
    /\ \A h \in Harts : OwnerFields \subseteq DOMAIN ui[h]
    /\ state # "IDLE" => Held(activeHart) /\ ~batchDone[activeHart]
    /\ axiError \/ regionOverflow => \E h \in Harts : Stuck(h)

-----------------------------------------------------------------------------

(* An edge of the read side keeps the fields of its registers.               *)
LEMMA UiStepFields ==
    ASSUME NEW u, NEW ready, NEW ack, NEW occupancy, NEW claim, NEW done,
           OwnerFields \subseteq DOMAIN u
    PROVE  OwnerFields \subseteq DOMAIN UiStep(u, ready, ack, occupancy, claim, done)
<1>1. DOMAIN Pick(u, ready) = DOMAIN u
  BY DEF Pick
<1>2. DOMAIN Settle(u, ready, occupancy, claim) = DOMAIN u
  BY DEF Settle
<1>3. \A v : DOMAIN Finish(v) = DOMAIN v
  BY DEF Finish
<1> QED BY <1>1, <1>2, <1>3 DEF UiStep

(* A claimed bank stays claimed until the DMA is done with it.               *)
LEMMA ClaimedStays ==
    ASSUME NEW u, NEW ready, NEW ack, NEW occupancy, NEW claim,
           OwnerFields \subseteq DOMAIN u, u.active, u.claimed
    PROVE  LET v == UiStep(u, ready, ack, occupancy, claim, FALSE)
           IN  v.active /\ v.claimed
<1> DEFINE quiet == [u EXCEPT !.release = {}, !.guard = Guarded(u, ack),
                              !.completed = u.completed \intersect ready]
<1>1. UiStep(u, ready, ack, occupancy, claim, FALSE) = quiet
  BY DEF UiStep
<1>2. quiet.active = u.active /\ quiet.claimed = u.claimed
  BY DEF OwnerFields
<1> QED BY <1>1, <1>2

(* An offered bank that the DMA claims is held from this edge on.            *)
LEMMA OfferClaimed ==
    ASSUME NEW u, NEW ready, NEW ack, NEW occupancy, NEW done,
           OwnerFields \subseteq DOMAIN u, BatchValid(u)
    PROVE  LET v == UiStep(u, ready, ack, occupancy, TRUE, done)
           IN  v.active /\ v.claimed
<1> DEFINE moved == Settle(u, ready, occupancy, TRUE)
           quiet == [moved EXCEPT !.release = {}, !.guard = Guarded(u, ack),
                                  !.completed = u.completed \intersect ready]
<1>1. u.active /\ ~u.claimed
  BY DEF BatchValid
<1>2. UiStep(u, ready, ack, occupancy, TRUE, done) = quiet
  BY <1>1 DEF UiStep
<1>3. moved.active = u.active /\ moved.claimed = (BatchValid(u) /\ TRUE)
  BY DEF Settle, OwnerFields
<1>4. OwnerFields \subseteq DOMAIN moved
  BY DEF Settle
<1>5. quiet.active = moved.active /\ quiet.claimed = moved.claimed
  BY <1>4 DEF OwnerFields
<1> QED BY <1>1, <1>2, <1>3, <1>5

-----------------------------------------------------------------------------

LEMMA OwnerInit == Init => OwnerInv
  BY DEF Init, OwnerInv, OwnerFields, Dma!DmaInit, Harts, UiReset

(* What an edge of the UI clock does to the read side of each hart.          *)
LEMMA UiEdgeKeeps ==
    ASSUME OwnerInv, NEW axi, UiEdgeWith(axi)
    PROVE  /\ \A h \in Harts : OwnerFields \subseteq DOMAIN ui'[h]
           /\ \A h \in Harts : Held(h) /\ ~batchDone[h] => Held(h)'
           /\ \A h \in Harts : Dma!Selects(h, Offering) => Held(h)'
<1>1. PICK occupancy \in BankCounts :
        ui' = [h \in Harts |->
                  UiStep(ui[h], ReadyUi(h), SyncOut(ackSync[h]), occupancy[h],
                         Dma!Selects(h, Offering), batchDone[h])]
  BY DEF UiEdgeWith
<1>2. ASSUME NEW h \in Harts PROVE OwnerFields \subseteq DOMAIN ui'[h]
  <2>1. OwnerFields \subseteq DOMAIN ui[h]
    BY DEF OwnerInv
  <2> QED BY <1>1, <2>1, UiStepFields
<1>3. ASSUME NEW h \in Harts, Held(h), ~batchDone[h] PROVE Held(h)'
  <2>1. OwnerFields \subseteq DOMAIN ui[h] /\ ui[h].active /\ ui[h].claimed
    BY <1>3 DEF OwnerInv, Held
  <2>2. LET v == UiStep(ui[h], ReadyUi(h), SyncOut(ackSync[h]), occupancy[h],
                        Dma!Selects(h, Offering), FALSE)
        IN  v.active /\ v.claimed
    BY <2>1, ClaimedStays
  <2>3. ui'[h] = UiStep(ui[h], ReadyUi(h), SyncOut(ackSync[h]), occupancy[h],
                        Dma!Selects(h, Offering), batchDone[h])
    BY <1>1
  <2>4. UiStep(ui[h], ReadyUi(h), SyncOut(ackSync[h]), occupancy[h],
               Dma!Selects(h, Offering), batchDone[h])
        = UiStep(ui[h], ReadyUi(h), SyncOut(ackSync[h]), occupancy[h],
                 Dma!Selects(h, Offering), FALSE)
    BY <1>3 DEF UiStep
  <2> QED BY <2>2, <2>3, <2>4 DEF Held
<1>4. ASSUME NEW h \in Harts, Dma!Selects(h, Offering) PROVE Held(h)'
  <2>1. OwnerFields \subseteq DOMAIN ui[h] /\ BatchValid(ui[h])
    BY <1>4 DEF OwnerInv, Dma!Selects, Offering
  <2>2. LET v == UiStep(ui[h], ReadyUi(h), SyncOut(ackSync[h]), occupancy[h],
                        TRUE, batchDone[h])
        IN  v.active /\ v.claimed
    BY <2>1, OfferClaimed
  <2>3. ui'[h] = UiStep(ui[h], ReadyUi(h), SyncOut(ackSync[h]), occupancy[h],
                        Dma!Selects(h, Offering), batchDone[h])
    BY <1>1
  <2>4. UiStep(ui[h], ReadyUi(h), SyncOut(ackSync[h]), occupancy[h],
               Dma!Selects(h, Offering), batchDone[h])
        = UiStep(ui[h], ReadyUi(h), SyncOut(ackSync[h]), occupancy[h],
                 TRUE, batchDone[h])
    BY <1>4, <2>1 DEF UiStep, Settle, BatchValid
  <2> QED BY <2>2, <2>3, <2>4 DEF Held
<1> QED BY <1>2, <1>3, <1>4

(* A step of the DMA between the claim of a bank and its end: the hart it    *)
(* serves keeps the bank, and whoever is stuck stays so.                     *)
LEMMA UiEdgeOwner ==
    ASSUME OwnerInv, NEW axi, UiEdgeWith(axi)
    PROVE  OwnerInv'
<1> USE DEF Harts, Dma!Harts, Dma!Other, Dma!NoneDone
<1>1. OwnerInv!2'
  BY UiEdgeKeeps
<1>2. ASSUME NEW h \in Harts, Held(h), ~batchDone[h] PROVE Held(h)'
  BY <1>2, UiEdgeKeeps
<1>3. Dma!DmaStep(Offering, [h \in Harts |-> ui[h].sample], axi, elastic)
  BY DEF UiEdgeWith
<1>4. CASE Dma!DmaIdle(Offering)
  BY <1>1, <1>2, <1>4 DEF Dma!DmaIdle, OwnerInv, Stuck
<1>5. ASSUME NEW g \in Harts,
             Dma!DmaClaim(g, Offering, [h \in Harts |-> ui[h].sample][g])
      PROVE  OwnerInv'
  <2>1. Dma!Selects(g, Offering) /\ activeHart' = g /\ state' = "PLAN"
        /\ batchDone' = [h \in Harts |-> FALSE]
        /\ UNCHANGED <<axiError, regionOverflow>>
    BY <1>5 DEF Dma!DmaClaim
  <2>2. Held(g)'
    BY <2>1, UiEdgeKeeps
  <2>3. ~Held(g)
    BY <2>1 DEF Dma!Selects, Offering, BatchValid, Held
  <2>4. ASSUME NEW h \in Harts, Stuck(h) PROVE Stuck(h)'
    BY <1>2, <2>1, <2>3, <2>4 DEF Stuck
  <2> QED BY <1>1, <2>1, <2>2, <2>4 DEF OwnerInv
<1>6. CASE \/ Dma!DmaPlan \/ Dma!DmaAddress(axi)
           \/ Dma!DmaData(axi, elastic[activeHart])
           \/ Dma!DmaWait(axi, elastic[activeHart])
  <2>1. /\ state # "IDLE" /\ state' # "IDLE"
        /\ batchDone' = [h \in Harts |-> FALSE]
        /\ UNCHANGED <<activeHart, axiError, regionOverflow>>
    BY <1>6 DEF Dma!DmaPlan, Dma!DmaAddress, Dma!DmaData, Dma!DmaWait, Dma!Takes
  <2> QED BY <1>1, <1>2, <2>1 DEF OwnerInv, Stuck
<1>7. CASE Dma!DmaCheck
  <2>1. /\ state = "CHECK" /\ state' = IF Dma!LeavesRegion THEN "IDLE" ELSE "AW"
        /\ batchDone' = [h \in Harts |-> FALSE]
        /\ regionOverflow' = (regionOverflow \/ Dma!LeavesRegion)
        /\ UNCHANGED <<activeHart, axiError>>
    BY <1>7 DEF Dma!DmaCheck
  <2>2. Held(activeHart)' /\ activeHart \in Harts
    BY <1>2, <2>1 DEF OwnerInv
  <2>3. CASE Dma!LeavesRegion
    <3>1. Stuck(activeHart)'
      BY <2>1, <2>2, <2>3 DEF Stuck
    <3> QED BY <1>1, <2>1, <2>2, <2>3, <3>1 DEF OwnerInv
  <2>4. CASE ~Dma!LeavesRegion
    BY <1>1, <1>2, <2>1, <2>2, <2>4 DEF OwnerInv, Stuck
  <2> QED BY <2>3, <2>4
<1>8. CASE Dma!DmaFail(axi)
  <2>1. /\ state = "B" /\ state' = "IDLE" /\ activeHart' = activeHart
        /\ batchDone' = [h \in Harts |-> FALSE]
    BY <1>8 DEF Dma!DmaFail
  <2>2. Stuck(activeHart)'
    BY <1>2, <2>1 DEF OwnerInv, Stuck
  <2> QED BY <1>1, <2>1, <2>2 DEF OwnerInv
<1>9. CASE Dma!DmaBurst(axi)
  <2> DEFINE whole == total >= remaining
  <2>1. /\ state = "B" /\ state' = IF whole THEN "IDLE" ELSE "PLAN"
        /\ batchDone' = [h \in Harts |-> whole /\ h = activeHart]
        /\ activeHart' = IF whole THEN 1 - activeHart ELSE activeHart
        /\ UNCHANGED <<axiError, regionOverflow>>
    BY <1>9 DEF Dma!DmaBurst
  <2>2. activeHart \in Harts /\ \A h \in Harts : h = activeHart => Held(h)'
    BY <1>2, <2>1 DEF OwnerInv
  <2>3. ASSUME NEW h \in Harts, Stuck(h) PROVE Stuck(h)'
    <3>1. h # activeHart
      BY <2>1, <2>3 DEF Stuck
    <3>2. Held(h)' /\ ~batchDone'[h]
      BY <1>2, <2>1, <2>3, <3>1 DEF Stuck
    <3>3. state' = "IDLE" \/ activeHart' # h
      BY <2>1, <3>1
    <3> QED BY <3>2, <3>3 DEF Stuck
  <2>4. ASSUME state' # "IDLE"
        PROVE  Held(activeHart)' /\ ~batchDone'[activeHart']
    <3>1. ~whole /\ activeHart' = activeHart
      BY <2>1, <2>4
    <3> QED BY <2>1, <2>2, <3>1 DEF Held
  <2> QED BY <1>1, <2>1, <2>2, <2>3, <2>4 DEF OwnerInv
<1> QED BY <1>3, <1>4, <1>5, <1>6, <1>7, <1>8, <1>9 DEF Dma!DmaStep

LEMMA OwnerNext ==
    ASSUME OwnerInv, [Next]_vars
    PROVE  OwnerInv'
<1>1. CASE CoreEdge
  BY <1>1 DEF CoreEdge, uiVars, dmaVars, OwnerInv, Held, Stuck
<1>2. CASE UiEdge
  BY <1>2, UiEdgeOwner DEF UiEdge
<1>3. CASE UNCHANGED vars
  BY <1>3 DEF vars, uiVars, dmaVars, OwnerInv, Held, Stuck
<1> QED BY <1>1, <1>2, <1>3 DEF Next

(* A busy DMA works on a bank it holds, and after an error some hart's bank  *)
(* is held by a DMA that no longer works on it.                              *)
THEOREM OwnerInvariant == Spec => []OwnerInv
<1>1. OwnerInv /\ [Next]_vars => OwnerInv'
  BY OwnerNext
<1> QED BY OwnerInit, <1>1, PTL DEF Spec

(* "All writes done" is never reported once a burst has failed or a region   *)
(* has overflowed: the hart whose bank is held is not empty.                 *)
THEOREM FailureKept == Spec => []FailedNeverComplete
<1>1. OwnerInv => FailedNeverComplete
  BY DEF OwnerInv, Stuck, Held, FailedNeverComplete, AllWritesDone, HartEmpty,
         AllEmpty
<1> QED BY OwnerInvariant, <1>1, PTL
(* ------------------------- a bank changes hands -------------------------- *)

(* What a hart's stream still holds of the bank it has given to the DMA.     *)
Beats == Seq(Nat) \ {<<>>}
Load(s) == (IF Len(s) >= 1 THEN Len(s[1]) ELSE 0) + (IF Len(s) >= 2 THEN Len(s[2]) ELSE 0)
Flow(h) == Load(elastic[h]) + Load(output[h]) + Load(child[h])
              + IF Held(h) THEN Len(lanes[h][ui[h].bank]) ELSE 0

LogTypes ==
    /\ produced \in [Harts -> Nat] /\ queue \in [Harts -> Seq(Nat)]
    /\ side \in [Harts -> CoreSide] /\ ui \in [Harts -> UiSide]
    /\ lanes \in [Harts -> [Banks -> Seq(Nat)]]
    /\ readySync \in [Harts -> [Banks -> Chain(BOOLEAN)]]
    /\ releaseSync \in [Harts -> [Banks -> Chain(Bit)]]
    /\ releaseSource \in [Harts -> [Banks -> EventSource]]
    /\ lag \in [Harts -> 0 .. CountLag]
    /\ child \in [Harts -> Seq(Beats)] /\ output \in [Harts -> Seq(Beats)]
    /\ elastic \in [Harts -> Seq(Beats)]
    /\ \A h \in Harts : Len(child[h]) <= 1 /\ Len(output[h]) <= 2 /\ Len(elastic[h]) <= 2
    /\ batchDone \in [Harts -> BOOLEAN]
    /\ pipelineDone \in BOOLEAN /\ doneSync \in Chain(BOOLEAN)
    /\ ackSync \in [Harts -> Chain(BOOLEAN)]
    /\ remaining \in Nat /\ sent \in Nat /\ total \in Nat

(* A bank is picked by the reader, or its release is on its way.             *)
Picked(h, b) == ui[h].active /\ ui[h].bank = b
OnItsWay(h, b) == b \in ui[h].release \/ releaseSource[h][b].toggle # releaseSync[h][b][3]

(* The level of a bank that is neither has risen, or fallen, stage by stage; *)
(* a released bank is remembered until the fall has come through.            *)
ReadyChain(h, b) ==
    LET s == readySync[h][b]
        r == b \in side[h].ready
        completed == b \in ui[h].completed
    IN  /\ Picked(h, b) => ~completed
        /\ OnItsWay(h, b) => completed
        /\ Picked(h, b) \/ OnItsWay(h, b) => r /\ s[1] /\ s[2] /\ s[3]
        /\ ~Picked(h, b) /\ ~OnItsWay(h, b) =>
              /\ ~completed => (s[3] => s[2])
              /\ ~completed \/ ~s[3] => (s[2] => s[1])
              /\ ~completed \/ ~s[3] \/ ~s[2] => (s[1] => r)
ReleaseChain(h, b) ==
    LET t == releaseSource[h][b].toggle
        s == releaseSync[h][b]
    IN  /\ t = s[3] => s[1] = t /\ s[2] = t
        /\ s[2] = t => s[1] = t
        /\ b \in ui[h].release => t = s[3] /\ ~releaseSource[h][b].last /\ ~ui[h].active

(* A released bank is empty; one the DMA does not work on holds what the     *)
(* writer counts.                                                            *)
Contents(h, b) ==
    /\ OnItsWay(h, b) => lanes[h][b] = <<>>
    /\ ~OnItsWay(h, b) /\ ~(Picked(h, b) /\ ui[h].claimed) =>
          Len(lanes[h][b]) = side[h].count[b]
Frozen(h) == side[h].owned = side[h].ready /\ (side[h].valid => side[h].bank \notin side[h].owned)

(* A count that was seen often enough is no longer the moving one.           *)
Settling(h) ==
    ui[h].active /\ ~ui[h].claimed =>
        /\ lag[h] < CountLag => \/ ui[h].stable < lag[h]
                                \/ ui[h].stable = 0 /\ ui[h].sample = 0
        /\ ui[h].stable >= CountLag /\ ui[h].sample # 0 =>
              ui[h].sample = Len(lanes[h][ui[h].bank])

(* The DMA has still to write what its hart's stream still holds.            *)
Delivers(h) ==
    /\ ~Held(h) => child[h] = <<>> /\ output[h] = <<>> /\ elastic[h] = <<>>
    /\ batchDone[h] => Held(h) /\ Flow(h) = 0
    /\ state # "IDLE" /\ activeHart = h =>
          /\ Flow(h) = remaining - IF state \in {"W", "B"} THEN sent ELSE 0
          /\ state = "AW" => sent = 0
          /\ state = "B" => total = sent

BankInv(h) == \A b \in Banks : ReadyChain(h, b) /\ ReleaseChain(h, b) /\ Contents(h, b)
HandInv == LogTypes /\ \A h \in Harts : Frozen(h) /\ Settling(h) /\ Delivers(h) /\ BankInv(h)

-----------------------------------------------------------------------------
LEMMA Sizes ==
    /\ BankCount \in Nat /\ BankCount >= 2 /\ BankRecords \in Nat /\ WritePorts \in Nat
    /\ WritePorts > 0 /\ WritePorts <= BankRecords /\ StableCycles \in Nat /\ FlushGuard \in Nat
    /\ CountLag \in Nat /\ CountLag <= StableCycles /\ Banks = 0 .. BankCount - 1
BY PingpongAssumption, LogWriteAssumption DEF PingpongAssumption, LogWriteAssumption, Banks

(* A set of banks has a highest and a lowest.                                *)
LEMMA Extremes ==
    ASSUME NEW n \in Nat, NEW S \in SUBSET (0 .. n), S # {}
    PROVE  Max(S) \in S /\ Min(S) \in S
<1>1. \E x \in S : \A y \in S : x >= y
  <2> DEFINE A == {x \in 0 .. n : \E y \in S : y >= x}
             c == Cardinality(A)
  <2>1. IsFiniteSet(0 .. n) /\ IsFiniteSet(A) /\ c \in Nat
    <3>1. IsFiniteSet(0 .. n)
      BY FS_Interval
    <3>2. IsFiniteSet(A)
      BY <3>1, FS_Subset
    <3> QED
      BY <3>1, <3>2, FS_CardinalityType
  <2>2. ASSUME NEW x \in A PROVE x + 1 <= c
    <3>1. 0 .. x \subseteq A
      <4> SUFFICES ASSUME NEW z \in 0 .. x PROVE z \in A
        OBVIOUS
      <4>1. PICK y \in S : y >= x
        BY <2>2
      <4> QED
        BY <4>1, <2>2
    <3>2. Cardinality(0 .. x) = x + 1
      BY <2>2, FS_Interval
    <3>3. Cardinality(0 .. x) <= c
      BY <2>1, <3>1, FS_Subset
    <3> QED
      BY <3>2, <3>3
  <2>3. A \subseteq 0 .. c - 1
    <3> SUFFICES ASSUME NEW x \in A PROVE x \in 0 .. c - 1
      OBVIOUS
    <3>1. x \in 0 .. n /\ x + 1 <= c
      BY <2>2
    <3> HIDE DEF A, c
    <3> QED
      BY <2>1, <3>1
  <2>4. IsFiniteSet(0 .. c - 1) /\ Cardinality(0 .. c - 1) = c
    <3>1. 0 \in Int /\ c - 1 \in Int /\ (IF 0 > c - 1 THEN 0 ELSE c - 1 - 0 + 1) = c
      BY <2>1
    <3> HIDE DEF c
    <3> QED
      BY <3>1, FS_Interval
  <2>5. A = 0 .. c - 1
    BY <2>3, <2>4, FS_Subset
  <2>6. S \subseteq A
    BY DEF A
  <2>7. c - 1 \in A
    <3>1. PICK x : x \in A
      BY <2>6
    <3> HIDE DEF A
    <3> QED
      BY <2>1, <2>5, <3>1
  <2>8. PICK x \in S : x >= c - 1
    BY <2>7
  <2> HIDE DEF A, c
  <2>9. \A y \in S : y <= c - 1
    BY <2>5, <2>6
  <2>10. \A y \in S : x >= y
    BY <2>1, <2>8, <2>9
  <2> QED
    BY <2>10
<1>2. \E x \in S : \A y \in S : x <= y
  <2> DEFINE A == {x \in 0 .. n : \A y \in S : x < y}
             c == Cardinality(A)
  <2>1. IsFiniteSet(0 .. n) /\ IsFiniteSet(A) /\ c \in Nat
    <3>1. IsFiniteSet(0 .. n)
      BY FS_Interval
    <3>2. IsFiniteSet(A)
      BY <3>1, FS_Subset
    <3> QED
      BY <3>1, <3>2, FS_CardinalityType
  <2>2. ASSUME NEW x \in A PROVE x + 1 <= c
    <3>1. 0 .. x \subseteq A
      OBVIOUS
    <3>2. Cardinality(0 .. x) = x + 1
      BY <2>2, FS_Interval
    <3>3. Cardinality(0 .. x) <= c
      BY <2>1, <3>1, FS_Subset
    <3> QED
      BY <3>2, <3>3
  <2>3. A \subseteq 0 .. c - 1
    <3> SUFFICES ASSUME NEW x \in A PROVE x \in 0 .. c - 1
      OBVIOUS
    <3>1. x \in 0 .. n /\ x + 1 <= c
      BY <2>2
    <3> HIDE DEF A, c
    <3> QED
      BY <2>1, <3>1
  <2>4. IsFiniteSet(0 .. c - 1) /\ Cardinality(0 .. c - 1) = c
    <3>1. 0 \in Int /\ c - 1 \in Int /\ (IF 0 > c - 1 THEN 0 ELSE c - 1 - 0 + 1) = c
      BY <2>1
    <3> HIDE DEF c
    <3> QED
      BY <3>1, FS_Interval
  <2>5. A = 0 .. c - 1
    BY <2>3, <2>4, FS_Subset
  <2>6. c \notin A
    <3> HIDE DEF A
    <3> QED
      BY <2>1, <2>5
  <2>7. \A y \in S : y >= c
    <3> SUFFICES ASSUME NEW y \in S, y < c PROVE FALSE
      BY <2>1
    <3>1. y \in 0 .. c - 1
      BY <2>1
    <3>2. y \in A
      BY <2>5, <3>1
    <3> QED
      BY <3>2
  <2>8. c \in 0 .. n
    <3>1. PICK y \in S : TRUE
      OBVIOUS
    <3>2. y \in 0 .. n /\ c <= y
      BY <2>7
    <3> HIDE DEF A, c
    <3> QED
      BY <2>1, <3>2
  <2>9. PICK x \in S : ~(c < x)
    BY <2>6, <2>8
  <2> HIDE DEF A, c
  <2>10. \A y \in S : x <= y
    BY <2>1, <2>7, <2>9
  <2> QED
    BY <2>10
<1>3. Max(S) \in S
  BY <1>1 DEF Max
<1>4. Min(S) \in S
  BY <1>2 DEF Min
<1> QED
  BY <1>3, <1>4

LEMMA AmongBanks ==
    ASSUME NEW S \in SUBSET Banks, S # {} PROVE Max(S) \in S /\ Min(S) \in S
<1>1. BankCount - 1 \in Nat /\ Banks = 0 .. BankCount - 1
  BY Sizes
<1> QED
  BY <1>1, Extremes

LEMMA OnlyOne == ASSUME NEW x \in Int PROVE Max({x}) = x
BY DEF Max

(* The ring.                                                                 *)
LEMMA RingStep ==
    ASSUME NEW b \in Banks, NEW i \in 0 .. BankCount
    PROVE  /\ OnFrom(b, i) = IF b + i < BankCount THEN b + i ELSE b + i - BankCount
           /\ OnFrom(b, i) \in Banks
           /\ OnFrom(b, i) = b <=> i = 0 \/ i = BankCount
<1>1. OnFrom(b, i) = IF b + i < BankCount THEN b + i ELSE b + i - BankCount
  BY Sizes DEF OnFrom
<1> QED
  BY <1>1, Sizes
(* ------------------------------ the writer ------------------------------- *)

(* What an edge of the writer's clock does to its side of a FIFO.            *)
WriterSide(c) == c \in CoreSide /\ c.owned = c.ready /\ (c.valid => c.bank \notin c.owned)

LEMMA SideFields ==
    ASSUME NEW c \in CoreSide
    PROVE  /\ c.owned \in SUBSET Banks /\ c.ready \in SUBSET Banks /\ c.bank \in Banks
           /\ c.count \in [Banks -> 0 .. BankRecords]
           /\ c.valid \in BOOLEAN /\ c.flushAck \in BOOLEAN
BY DEF CoreSide

LEMMA NextIsFree ==
    ASSUME NEW c \in CoreSide
    PROVE  /\ NextFree(c) \subseteq Free(c) /\ Free(c) \subseteq Banks
           /\ c.bank \notin NextFree(c)
           /\ NextFree(c) # {} => \E b \in Banks : NextFree(c) = {b}
<1> DEFINE near == {i \in 1 .. BankCount - 1 : OnFrom(c.bank, i) \in Free(c)}
<1>1. NextFree(c) = IF near = {} THEN {} ELSE {OnFrom(c.bank, Min(near))}
  BY DEF NextFree
<1>2. Free(c) \subseteq Banks /\ c.bank \in Banks
  BY SideFields DEF Free
<1>3. CASE near = {}
  BY <1>1, <1>2, <1>3
<1>4. CASE near # {}
  <2>1. BankCount - 1 \in Nat /\ near \subseteq 0 .. BankCount - 1
    BY Sizes
  <2>2. Min(near) \in near
    BY <1>4, <2>1, Extremes
  <2> DEFINE i == Min(near)
             b == OnFrom(c.bank, i)
  <2>3. i \in 1 .. BankCount - 1 /\ b \in Free(c)
    BY <2>2
  <2> HIDE DEF i
  <2>4. b # c.bank
    BY <1>2, <2>3, RingStep, Sizes
  <2>5. NextFree(c) = {b}
    BY <1>1, <1>4 DEF i
  <2> QED
    BY <1>2, <2>3, <2>4, <2>5
<1> QED
  BY <1>3, <1>4

(* What of the records offered goes where.                                   *)
LEMMA Shares ==
    ASSUME NEW c \in CoreSide, NEW n \in 0 .. WritePorts
    PROVE  /\ Here(c, n) \in 0 .. n /\ There(c, n) \in 0 .. n /\ Here(c, n) + There(c, n) <= n
           /\ Here(c, n) # 0 \/ Fills(c, n) => c.valid /\ c.bank \notin c.owned
           /\ c.bank \notin c.owned => c.count[c.bank] + Here(c, n) <= BankRecords
           /\ There(c, n) # 0 => Fills(c, n) /\ NextFree(c) # {}
           /\ Fills(c, n) => Here(c, n) # 0
<1>1. /\ n \in Nat /\ c.count[c.bank] \in 0 .. BankRecords /\ BankRecords \in Nat /\ n <= BankRecords
  BY SideFields, Sizes
<1>2. Room(c) = IF c.valid /\ c.bank \notin c.owned THEN BankRecords - c.count[c.bank] ELSE 0
  BY DEF Room
<1>3. Here(c, n) = IF n < Room(c) THEN n ELSE Room(c)
  BY DEF Here
<1>4. Fills(c, n) <=> Room(c) # 0 /\ n >= Room(c)
  BY DEF Fills
<1>5. There(c, n) = IF Fills(c, n) /\ NextFree(c) # {} THEN n - Room(c) ELSE 0
  BY DEF There
<1>6. Room(c) \in Nat
  BY <1>1, <1>2
<1>7. Here(c, n) \in 0 .. n /\ There(c, n) \in 0 .. n /\ Here(c, n) + There(c, n) <= n
  BY <1>1, <1>3, <1>4, <1>5, <1>6
<1>8. Here(c, n) # 0 \/ Fills(c, n) => c.valid /\ c.bank \notin c.owned
  BY <1>1, <1>2, <1>3, <1>4, <1>6
<1>9. c.bank \notin c.owned => c.count[c.bank] + Here(c, n) <= BankRecords
  BY <1>1, <1>2, <1>3, <1>6
<1> QED
  BY <1>3, <1>4, <1>5, <1>6, <1>7, <1>8, <1>9

LEMMA Writes ==
    ASSUME NEW c \in CoreSide, NEW n \in 0 .. WritePorts, NEW b \in Banks
    PROVE  /\ WrittenTo(c, n)[b] \in 0 .. n
           /\ WrittenTo(c, n)[b] = IF b = c.bank THEN Here(c, n)
                                   ELSE IF b \in NextFree(c) THEN There(c, n) ELSE 0
           /\ b \in c.owned => WrittenTo(c, n)[b] = 0
           /\ b \notin c.owned => c.count[b] + WrittenTo(c, n)[b] \in 0 .. BankRecords
<1>1. WrittenTo(c, n)[b] = IF b = c.bank THEN Here(c, n)
                           ELSE IF b \in NextFree(c) THEN There(c, n) ELSE 0
  BY DEF WrittenTo
<1>2. /\ Here(c, n) \in 0 .. n /\ There(c, n) \in 0 .. n /\ n \in Nat /\ n <= BankRecords
      /\ c.count[b] \in 0 .. BankRecords /\ BankRecords \in Nat
  BY Shares, Sizes, SideFields
<1>3. WrittenTo(c, n)[b] \in 0 .. n
  BY <1>1, <1>2
<1>4. b \in NextFree(c) => b \notin c.owned /\ c.count[b] = 0
  BY NextIsFree DEF Free
<1>5. b = c.bank /\ b \in c.owned => Here(c, n) = 0
  BY Shares
<1>6. b \in c.owned => WrittenTo(c, n)[b] = 0
  BY <1>1, <1>4, <1>5
<1>7. b \notin c.owned => c.count[b] + WrittenTo(c, n)[b] \in 0 .. BankRecords
  <2>1. CASE b = c.bank
    BY <1>1, <1>2, <2>1, Shares
  <2>2. CASE b # c.bank /\ b \in NextFree(c)
    BY <1>1, <1>2, <1>4, <2>2
  <2>3. CASE b # c.bank /\ b \notin NextFree(c)
    BY <1>1, <1>2, <2>3
  <2> QED
    BY <2>1, <2>2, <2>3
<1> QED
  BY <1>1, <1>3, <1>6, <1>7

Stepped(c, n, released, d) ==
    /\ WriterSide(d)
    /\ \E F \in SUBSET {c.bank} :
          F \cap c.owned = {} /\ d.owned = (c.owned \ released) \cup F
    /\ \A b \in Banks : d.count[b] = IF b \in released THEN 0
                                      ELSE c.count[b] + WrittenTo(c, n)[b]
LEMMA CoreStepGives ==
    ASSUME NEW c, WriterSide(c), NEW n \in 0 .. WritePorts,
           NEW released \in SUBSET c.owned, NEW flush \in BOOLEAN
    PROVE  Stepped(c, n, released, CoreStep(c, n, released, flush))
<1> DEFINE d == CoreStep(c, n, released, flush)
           tail == FreezesTail(c, n, flush)
           F == IF Fills(c, n) \/ tail THEN {c.bank} ELSE {}
           sel == Selected(c, n, released)
           W == WrittenTo(c, n)
           count == [b \in Banks |-> IF W[b] # 0 THEN c.count[b] + W[b]
                                     ELSE IF b \in released THEN 0 ELSE c.count[b]]
<1>1. d = [owned |-> (c.owned \ released) \cup F, ready |-> (c.ready \ released) \cup F,
           count |-> count, bank |-> IF sel = {} THEN c.bank ELSE Max(sel),
           valid |-> sel # {} /\ ~tail, flushAck |-> c.flushAck \/ flush]
  BY DEF CoreStep
<1>2. /\ c \in CoreSide /\ c.owned = c.ready /\ c.owned \in SUBSET Banks /\ c.bank \in Banks
      /\ c.count \in [Banks -> 0 .. BankRecords] /\ c.valid \in BOOLEAN /\ c.flushAck \in BOOLEAN
      /\ released \subseteq c.owned
  BY SideFields DEF WriterSide
<1>3. /\ F \in SUBSET {c.bank} /\ F \cap c.owned = {}
  BY <1>2, Shares DEF FreezesTail
<1>4. ASSUME NEW b \in Banks
      PROVE  /\ count[b] = IF b \in released THEN 0 ELSE c.count[b] + W[b]
             /\ count[b] \in 0 .. BankRecords
  <2>1. /\ W[b] \in 0 .. n /\ (b \in c.owned => W[b] = 0)
        /\ (b \notin c.owned => c.count[b] + W[b] \in 0 .. BankRecords)
    BY <1>2, Writes
  <2>2. c.count[b] \in 0 .. BankRecords /\ BankRecords \in Nat
    BY <1>2, Sizes
  <2> HIDE DEF W
  <2>3. count[b] = IF b \in released THEN 0 ELSE c.count[b] + W[b]
    BY <1>2, <2>1, <2>2
  <2> QED
    BY <1>2, <2>1, <2>2, <2>3
<1>5. sel # {} => Max(sel) \in Banks /\ (~tail => Max(sel) \notin (c.owned \ released) \cup F)
  <2> SUFFICES ASSUME sel # {}
               PROVE  Max(sel) \in Banks /\ (~tail => Max(sel) \notin (c.owned \ released) \cup F)
    OBVIOUS
  <2>1. CASE Accepted(c, n) # 0 /\ Fills(c, n)
    <3>1. sel = NextFree(c)
      BY <2>1 DEF Selected
    <3>2. PICK b \in Banks : sel = {b}
      BY <1>2, <3>1, NextIsFree
    <3>3. b \in Free(c) /\ b # c.bank
      BY <1>2, <3>1, <3>2, NextIsFree
    <3>4. Max(sel) = b
      <4>1. b \in Int
        BY Sizes
      <4> QED
        BY <3>2, <4>1, OnlyOne
    <3> QED
      BY <1>3, <3>3, <3>4 DEF Free
  <2>2. CASE Accepted(c, n) # 0 /\ ~Fills(c, n)
    <3>1. sel = {c.bank} /\ Max(sel) = c.bank
      <4>1. sel = {c.bank} /\ c.bank \in Int
        BY <1>2, <2>2, Sizes DEF Selected
      <4> QED
        BY <4>1, OnlyOne
    <3>2. Here(c, n) # 0
      BY <1>2, <2>2, Shares DEF Accepted
    <3> QED
      BY <1>2, <2>2, <3>1, <3>2, Shares
  <2>3. CASE Accepted(c, n) = 0 /\ c.valid
    <3>1. sel = {c.bank} /\ Max(sel) = c.bank
      <4>1. sel = {c.bank} /\ c.bank \in Int
        BY <1>2, <2>3, Sizes DEF Selected
      <4> QED
        BY <4>1, OnlyOne
    <3>2. ~Fills(c, n)
      BY <1>2, <2>3, Shares DEF Accepted
    <3> QED
      BY <1>2, <2>3, <3>1, <3>2 DEF WriterSide
  <2>4. CASE Accepted(c, n) = 0 /\ ~c.valid
    <3>1. F = {}
      BY <1>2, <2>4, Shares DEF FreezesTail
    <3>2. CASE released # {}
      <4>1. Max(released) \in released /\ Max(released) \in Int
        BY <1>2, <3>2, AmongBanks, Sizes
      <4>2. Max(sel) = Max(released)
        BY <2>4, <3>2, <4>1, OnlyOne DEF Selected
      <4> QED
        BY <1>2, <3>1, <4>1, <4>2
    <3>3. CASE released = {}
      <4>1. sel = {Min(Free(c))} /\ Free(c) # {}
        BY <2>4, <3>3 DEF Selected
      <4>2. Min(Free(c)) \in Free(c) /\ Free(c) \subseteq Banks
        BY <1>2, <4>1, AmongBanks, NextIsFree
      <4>3. Max(sel) = Min(Free(c))
        BY <4>1, <4>2, OnlyOne, Sizes
      <4> QED
        BY <3>1, <4>2, <4>3 DEF Free
    <3> QED
      BY <3>2, <3>3
  <2> QED
    BY <2>1, <2>2, <2>3, <2>4
<1> HIDE DEF tail, F, sel, W
<1>6. count \in [Banks -> 0 .. BankRecords]
  BY <1>4
<1> HIDE DEF count
<1>7. tail \in BOOLEAN
  BY DEF tail, FreezesTail
<1>8. (c.owned \ released) \cup F \in SUBSET Banks
  BY <1>2, <1>3
<1>9. d \in CoreSide
  BY <1>1, <1>2, <1>5, <1>6, <1>7, <1>8 DEF CoreSide
<1> HIDE DEF d
<1>10. /\ d.owned = (c.owned \ released) \cup F /\ d.ready = (c.ready \ released) \cup F
       /\ d.count = count /\ d.bank = (IF sel = {} THEN c.bank ELSE Max(sel))
       /\ d.valid = (sel # {} /\ ~tail)
  BY <1>1
<1>11. d.owned = d.ready
  BY <1>2, <1>10
<1>12. d.valid => d.bank \notin d.owned
  BY <1>5, <1>10
<1>13. WriterSide(d)
  BY <1>9, <1>11, <1>12 DEF WriterSide
<1>14. \A b \in Banks : d.count[b] = IF b \in released THEN 0 ELSE c.count[b] + W[b]
  BY <1>4, <1>10
<1>15. \E G \in SUBSET {c.bank} : G \cap c.owned = {} /\ d.owned = (c.owned \ released) \cup G
  BY <1>3, <1>10
<1> QED
  BY <1>13, <1>14, <1>15 DEF d, W, Stepped

LEMMA StateTypes ==
    ASSUME LogTypes, NEW h \in Harts
    PROVE  /\ produced[h] \in Nat /\ queue[h] \in Seq(Nat)
           /\ side[h] \in CoreSide /\ ui[h] \in UiSide /\ lag[h] \in 0 .. CountLag
           /\ child[h] \in Seq(Beats) /\ output[h] \in Seq(Beats) /\ elastic[h] \in Seq(Beats)
           /\ batchDone[h] \in BOOLEAN /\ pipelineDone \in BOOLEAN
           /\ Len(child[h]) <= 1 /\ Len(output[h]) <= 2 /\ Len(elastic[h]) <= 2
BY DEF LogTypes

LEMMA BankTypes ==
    ASSUME LogTypes, NEW h \in Harts, NEW b \in Banks
    PROVE  /\ lanes[h][b] \in Seq(Nat) /\ Len(lanes[h][b]) \in Nat
           /\ readySync[h][b] \in Chain(BOOLEAN)
           /\ releaseSync[h][b] \in Chain(Bit) /\ releaseSource[h][b] \in EventSource
           /\ \A i \in {1, 2, 3} : /\ readySync[h][b][i] \in BOOLEAN
                                   /\ releaseSync[h][b][i] \in {0, 1}
           /\ releaseSource[h][b].toggle \in {0, 1} /\ releaseSource[h][b].last \in BOOLEAN
<1>1. /\ lanes[h][b] \in Seq(Nat) /\ readySync[h][b] \in Chain(BOOLEAN)
      /\ releaseSync[h][b] \in Chain(Bit) /\ releaseSource[h][b] \in EventSource
  BY DEF LogTypes
<1>2. {1, 2, 3} = Stages
  BY DEF Stages
<1> QED
  BY <1>1, <1>2 DEF Chain, Bit, EventSource

LEMMA ReaderFields ==
    ASSUME NEW u \in UiSide
    PROVE  /\ u.completed \in SUBSET Banks /\ u.bank \in Banks /\ u.active \in BOOLEAN
           /\ u.claimed \in BOOLEAN /\ u.pointer \in Banks /\ u.release \in SUBSET Banks
           /\ u.sample \in 0 .. BankRecords /\ u.stable \in 0 .. StableCycles
           /\ u.guard \in 0 .. FlushGuard
BY DEF UiSide

LEMMA ShiftGives ==
    ASSUME NEW s, NEW x
    PROVE  /\ Shift(s, x)[1] = x /\ Shift(s, x)[2] = s[1] /\ Shift(s, x)[3] = s[2]
           /\ \A S : s \in Chain(S) /\ x \in S => Shift(s, x) \in Chain(S)
BY DEF Shift, Stages, Chain

(* What the queue offers, and the part of it that each bank receives.        *)
LEMMA OfferedFits ==
    ASSUME LogTypes, NEW h \in Harts
    PROVE  Offered(h) \in 0 .. WritePorts /\ Offered(h) <= Len(queue[h]) /\ Len(queue[h]) \in Nat
<1>1. Len(queue[h]) \in Nat
  BY StateTypes
<1> QED
  BY <1>1, Sizes DEF Offered

LEMMA PartOf ==
    ASSUME NEW q \in Seq(Nat), NEW m \in 1 .. Len(q) + 1, NEW n \in 0 .. Len(q)
    PROVE  /\ SubSeq(q, m, n) \in Seq(Nat)
           /\ Len(SubSeq(q, m, n)) = IF m <= n THEN n - m + 1 ELSE 0
           /\ \A i \in 1 .. n - m + 1 : SubSeq(q, m, n)[i] = q[m + i - 1]
<1>1. \A i \in m .. n : q[i] \in Nat
  OBVIOUS
<1>2. m \in Int /\ n \in Int
  OBVIOUS
<1> QED
  BY <1>1, <1>2, SubSeqProperties

LEMMA PortionGives ==
    ASSUME LogTypes, NEW h \in Harts, NEW b \in Banks
    PROVE  /\ Portion(h, b) \in Seq(Nat)
           /\ Len(Portion(h, b)) = WrittenTo(side[h], Offered(h))[b]
<1> DEFINE c == side[h]
           n == Offered(h)
           q == queue[h]
<1>1. /\ q \in Seq(Nat) /\ c \in CoreSide /\ n \in 0 .. WritePorts /\ n <= Len(q) /\ Len(q) \in Nat
  BY StateTypes, OfferedFits
<1>2. /\ WrittenTo(c, n)[b] = IF b = c.bank THEN Here(c, n)
                              ELSE IF b \in NextFree(c) THEN There(c, n) ELSE 0
  BY <1>1, Writes
<1>3. /\ Here(c, n) \in 0 .. n /\ There(c, n) \in 0 .. n /\ Here(c, n) + There(c, n) <= n
  BY <1>1, Shares
<1>4. Taken(h) = Here(c, n) + There(c, n)
  BY DEF Taken, Accepted
<1>5. Portion(h, b) = IF b = c.bank THEN SubSeq(q, 1, Here(c, n))
                      ELSE IF WrittenTo(c, n)[b] # 0 THEN SubSeq(q, Here(c, n) + 1, Taken(h))
                      ELSE <<>>
  BY DEF Portion
<1> HIDE DEF c, n, q
<1>6. CASE b = c.bank
  <2>1. 1 \in 1 .. Len(q) + 1 /\ Here(c, n) \in 0 .. Len(q)
    BY <1>1, <1>3
  <2>2. /\ SubSeq(q, 1, Here(c, n)) \in Seq(Nat)
        /\ Len(SubSeq(q, 1, Here(c, n))) = IF 1 <= Here(c, n) THEN Here(c, n) - 1 + 1 ELSE 0
    BY <1>1, <2>1, PartOf
  <2> QED
    BY <1>2, <1>3, <1>5, <1>6, <2>2 DEF c, n
<1>7. CASE b # c.bank /\ WrittenTo(c, n)[b] # 0
  <2> DEFINE x == Here(c, n)
             y == There(c, n)
  <2>1. x + 1 \in 1 .. Len(q) + 1 /\ x + y \in 0 .. Len(q) /\ y # 0 /\ x \in Nat /\ y \in Nat
    BY <1>1, <1>2, <1>3, <1>7
  <2>2. /\ SubSeq(q, x + 1, x + y) \in Seq(Nat)
        /\ Len(SubSeq(q, x + 1, x + y)) = IF x + 1 <= x + y THEN x + y - (x + 1) + 1 ELSE 0
    BY <1>1, <2>1, PartOf
  <2>3. Portion(h, b) = SubSeq(q, x + 1, x + y) /\ WrittenTo(c, n)[b] = y
    BY <1>2, <1>4, <1>5, <1>7
  <2> HIDE DEF x, y
  <2>4. Len(SubSeq(q, x + 1, x + y)) = y
    BY <2>1, <2>2
  <2> QED
    BY <2>2, <2>3, <2>4 DEF c, n
<1>8. CASE b # c.bank /\ WrittenTo(c, n)[b] = 0
  BY <1>5, <1>8 DEF c, n
<1> QED
  BY <1>6, <1>7, <1>8

(* A release that arrives frees a bank that was on its way.                  *)
LEMMA ReleasedReturns ==
    ASSUME HandInv, NEW h \in Harts, NEW b \in Released(h)
    PROVE  /\ b \in Banks /\ b \in side[h].owned /\ OnItsWay(h, b) /\ b \notin ui[h].release
           /\ releaseSync[h][b][2] = releaseSource[h][b].toggle
           /\ releaseSync[h][b][1] = releaseSource[h][b].toggle
           /\ releaseSync[h][b][3] # releaseSource[h][b].toggle
<1>1. b \in Banks /\ releaseSync[h][b][3] # releaseSync[h][b][2]
  BY DEF Released, Pulse
<1>2. LogTypes /\ ReadyChain(h, b) /\ ReleaseChain(h, b) /\ Frozen(h)
  BY <1>1 DEF HandInv, BankInv
<1>3. releaseSync[h][b][3] # releaseSource[h][b].toggle
  BY <1>1, <1>2 DEF ReleaseChain
<1>4. releaseSync[h][b][2] = releaseSource[h][b].toggle
  BY <1>1, <1>2, <1>3, BankTypes
<1>5. OnItsWay(h, b)
  BY <1>3 DEF OnItsWay
<1> QED
  BY <1>1, <1>2, <1>3, <1>4, <1>5 DEF ReadyChain, ReleaseChain, Frozen

(* An edge of the writer's clock, as one bank sees it.                       *)
LEMMA CoreEdgeOnBank ==
    ASSUME HandInv, CoreEdge, NEW h \in Harts
    PROVE  /\ WriterSide(side'[h])
           /\ \A b \in Banks :
                 /\ b \in side'[h].owned <=> \/ b \in side[h].owned /\ b \notin Released(h)
                                             \/ b \in side'[h].owned /\ b \notin side[h].owned
                 /\ b \in side[h].owned => Portion(h, b) = <<>>
                 /\ Portion(h, b) \in Seq(Nat)
                 /\ lanes'[h][b] = lanes[h][b] \o Portion(h, b)
                 /\ Len(lanes'[h][b]) = Len(lanes[h][b]) + Len(Portion(h, b))
                 /\ side'[h].count[b] = IF b \in Released(h) THEN 0
                                        ELSE side[h].count[b] + Len(Portion(h, b))
                 /\ releaseSync'[h][b] = Shift(releaseSync[h][b], releaseSource[h][b].toggle)
<1> DEFINE c == side[h]
           n == Offered(h)
<1>1. side'[h] = CoreStep(c, n, Released(h), pipelineDone)
  BY DEF CoreEdge
<1>2. LogTypes /\ WriterSide(c) /\ n \in 0 .. WritePorts /\ pipelineDone \in BOOLEAN
  BY StateTypes, OfferedFits DEF HandInv, Frozen, WriterSide
<1>3. Released(h) \in SUBSET c.owned
  BY ReleasedReturns
<1>4. /\ WriterSide(side'[h])
      /\ \E F \in SUBSET {c.bank} :
            F \cap c.owned = {} /\ side'[h].owned = (c.owned \ Released(h)) \cup F
      /\ \A b \in Banks : side'[h].count[b] = IF b \in Released(h) THEN 0
                                              ELSE c.count[b] + WrittenTo(c, n)[b]
  <2>1. Stepped(c, n, Released(h), CoreStep(c, n, Released(h), pipelineDone))
    BY <1>2, <1>3, CoreStepGives
  <2> QED
    BY <1>1, <2>1 DEF Stepped
<1>5. ASSUME NEW b \in Banks
      PROVE  /\ Portion(h, b) \in Seq(Nat) /\ Len(Portion(h, b)) = WrittenTo(c, n)[b]
             /\ lanes'[h][b] = lanes[h][b] \o Portion(h, b)
             /\ lanes[h][b] \in Seq(Nat)
             /\ releaseSync'[h][b] = Shift(releaseSync[h][b], releaseSource[h][b].toggle)
  BY <1>2, PortionGives, BankTypes DEF CoreEdge
<1>6. ASSUME NEW b \in Banks
      PROVE  Len(lanes'[h][b]) = Len(lanes[h][b]) + Len(Portion(h, b))
  <2> DEFINE x == lanes[h][b]
             y == Portion(h, b)
  <2>1. x \in Seq(Nat) /\ y \in Seq(Nat) /\ lanes'[h][b] = x \o y
    BY <1>5
  <2> HIDE DEF x, y
  <2>2. Len(x \o y) = Len(x) + Len(y)
    BY <2>1, ConcatProperties
  <2> QED
    BY <2>1, <2>2 DEF x, y
<1>7. ASSUME NEW b \in Banks, b \in c.owned PROVE Portion(h, b) = <<>>
  <2>1. Len(Portion(h, b)) = 0 /\ Portion(h, b) \in Seq(Nat)
    BY <1>2, <1>5, <1>7, Writes DEF WriterSide
  <2> QED
    BY <2>1
<1>8. ASSUME NEW b \in Banks
      PROVE  b \in side'[h].owned <=> \/ b \in side[h].owned /\ b \notin Released(h)
                                      \/ b \in side'[h].owned /\ b \notin side[h].owned
  BY <1>4
<1> QED
  BY <1>4, <1>5, <1>6, <1>7, <1>8

LEMMA CoreKeepsTypes == ASSUME HandInv, CoreEdge PROVE LogTypes'
<1>1. LogTypes
  BY DEF HandInv
<1>2. /\ ui' = ui /\ readySync' = readySync /\ releaseSource' = releaseSource /\ lag' = lag
      /\ child' = child /\ output' = output /\ elastic' = elastic /\ batchDone' = batchDone
      /\ doneSync' = doneSync /\ ackSync' = ackSync
      /\ remaining' = remaining /\ sent' = sent /\ total' = total
  BY DEF CoreEdge, uiVars, dmaVars
<1>3. PICK new \in [Harts -> 0 .. WritePorts] :
        /\ produced' = [h \in Harts |-> produced[h] + new[h]]
        /\ queue' = [h \in Harts |-> SubSeq(queue[h], Taken(h) + 1, Len(queue[h]))
                                         \o Numbered(produced[h], new[h])]
  BY DEF CoreEdge
<1>4. \A h \in Harts : produced[h] \in Nat /\ new[h] \in Nat
  BY <1>1, StateTypes, Sizes
<1>5. produced' \in [Harts -> Nat]
  BY <1>3, <1>4
<1>6. ASSUME NEW h \in Harts PROVE queue'[h] \in Seq(Nat)
  <2>1. /\ queue[h] \in Seq(Nat) /\ Taken(h) \in 0 .. Len(queue[h]) /\ Len(queue[h]) \in Nat
    <3> DEFINE c == side[h]
               n == Offered(h)
    <3>1. queue[h] \in Seq(Nat) /\ n <= Len(queue[h]) /\ Len(queue[h]) \in Nat
          /\ c \in CoreSide /\ n \in 0 .. WritePorts
      BY <1>1, StateTypes, OfferedFits
    <3>2. Here(c, n) \in 0 .. n /\ There(c, n) \in 0 .. n /\ Here(c, n) + There(c, n) <= n
      BY <3>1, Shares
    <3>3. Taken(h) = Here(c, n) + There(c, n)
      BY DEF Taken, Accepted
    <3> HIDE DEF c, n
    <3> QED
      BY <3>1, <3>2, <3>3
  <2> DEFINE x == SubSeq(queue[h], Taken(h) + 1, Len(queue[h]))
             y == Numbered(produced[h], new[h])
  <2>2. x \in Seq(Nat)
    <3>1. Taken(h) + 1 \in 1 .. Len(queue[h]) + 1 /\ Len(queue[h]) \in 0 .. Len(queue[h])
      BY <2>1
    <3> QED
      BY <2>1, <3>1, PartOf
  <2>3. y \in Seq(Nat)
    <3>1. \A i \in 1 .. new[h] : produced[h] + i \in Nat
      BY <1>4
    <3> QED
      BY <1>4, <3>1 DEF Numbered
  <2>4. queue'[h] = x \o y
    BY <1>3
  <2> HIDE DEF x, y
  <2> QED
    BY <2>2, <2>3, <2>4
<1>7. queue' \in [Harts -> Seq(Nat)]
  BY <1>3, <1>6
<1>8. side' \in [Harts -> CoreSide]
  <2>1. \A h \in Harts : side'[h] \in CoreSide
    BY CoreEdgeOnBank DEF WriterSide
  <2> QED
    BY <2>1 DEF CoreEdge
<1>9. lanes' \in [Harts -> [Banks -> Seq(Nat)]]
  <2>1. ASSUME NEW h \in Harts, NEW b \in Banks PROVE lanes[h][b] \o Portion(h, b) \in Seq(Nat)
    <3>1. lanes[h][b] \in Seq(Nat) /\ Portion(h, b) \in Seq(Nat)
      BY <1>1, BankTypes, CoreEdgeOnBank
    <3> QED
      BY <3>1, ConcatProperties
  <2> QED
    BY <2>1 DEF CoreEdge
<1>10. releaseSync' \in [Harts -> [Banks -> Chain(Bit)]]
  <2>1. ASSUME NEW h \in Harts, NEW b \in Banks
        PROVE  Shift(releaseSync[h][b], releaseSource[h][b].toggle) \in Chain(Bit)
    <3>1. releaseSync[h][b] \in Chain(Bit) /\ releaseSource[h][b].toggle \in Bit
      BY <1>1, BankTypes DEF Bit
    <3> QED
      BY <3>1, ShiftGives
  <2> QED
    BY <2>1 DEF CoreEdge
<1>11. pipelineDone' \in BOOLEAN
  BY DEF CoreEdge, Drained
<1> QED
  BY <1>1, <1>2, <1>5, <1>7, <1>8, <1>9, <1>10, <1>11 DEF LogTypes

LEMMA CoreKeepsBank ==
    ASSUME HandInv, CoreEdge, NEW h \in Harts, NEW b \in Banks
    PROVE  ReadyChain(h, b)' /\ ReleaseChain(h, b)' /\ Contents(h, b)'
<1> DEFINE t == releaseSource[h][b].toggle
           s == releaseSync[h][b]
<1>1. /\ ui' = ui /\ readySync' = readySync /\ releaseSource' = releaseSource
      /\ releaseSync'[h][b] = Shift(s, t)
      /\ WriterSide(side[h]) /\ WriterSide(side'[h])
      /\ ReadyChain(h, b) /\ ReleaseChain(h, b) /\ Contents(h, b)
  BY CoreEdgeOnBank, StateTypes DEF CoreEdge, uiVars, HandInv, BankInv, Frozen, WriterSide
<1>2. releaseSync'[h][b][1] = t /\ releaseSync'[h][b][2] = s[1] /\ releaseSync'[h][b][3] = s[2]
  BY <1>1, ShiftGives
<1>3. /\ t \in {0, 1} /\ s[1] \in {0, 1} /\ s[2] \in {0, 1} /\ s[3] \in {0, 1}
      /\ \A i \in {1, 2, 3} : readySync[h][b][i] \in BOOLEAN
  BY BankTypes DEF HandInv
<1>4. ReleaseChain(h, b)'
  <2>1. b \in ui[h].release => t = s[3] /\ ~releaseSource[h][b].last /\ ~ui[h].active
    BY <1>1 DEF ReleaseChain
  <2>2. (t = s[3] => s[1] = t /\ s[2] = t) /\ (s[2] = t => s[1] = t)
    BY <1>1 DEF ReleaseChain
  <2> QED
    BY <1>1, <1>2, <1>3, <2>1, <2>2 DEF ReleaseChain
<1>5. Picked(h, b)' <=> Picked(h, b)
  BY <1>1 DEF Picked
<1>6. b \in Released(h) <=> s[3] # s[2]
  BY DEF Released, Pulse
<1>7. OnItsWay(h, b)' <=> OnItsWay(h, b) /\ b \notin Released(h)
  <2>1. OnItsWay(h, b) <=> b \in ui[h].release \/ t # s[3]
    BY DEF OnItsWay
  <2>2. OnItsWay(h, b)' <=> b \in ui[h].release \/ t # s[2]
    BY <1>1, <1>2 DEF OnItsWay
  <2>3. b \in ui[h].release => t = s[3] /\ s[2] = t
    BY <1>1 DEF ReleaseChain
  <2>4. t = s[3] => s[2] = t
    BY <1>1 DEF ReleaseChain
  <2> QED
    BY <1>3, <1>6, <2>1, <2>2, <2>3, <2>4
<1>8. /\ b \in side'[h].owned <=> \/ b \in side[h].owned /\ b \notin Released(h)
                                  \/ b \in side'[h].owned /\ b \notin side[h].owned
      /\ b \in side[h].owned => Portion(h, b) = <<>>
      /\ Portion(h, b) \in Seq(Nat)
      /\ lanes'[h][b] = lanes[h][b] \o Portion(h, b)
      /\ Len(lanes'[h][b]) = Len(lanes[h][b]) + Len(Portion(h, b))
      /\ side'[h].count[b] = IF b \in Released(h) THEN 0 ELSE side[h].count[b] + Len(Portion(h, b))
  BY CoreEdgeOnBank
<1>9. b \in side'[h].ready <=> \/ b \in side[h].ready /\ b \notin Released(h)
                               \/ b \in side'[h].ready /\ b \notin side[h].ready
  BY <1>1, <1>8 DEF WriterSide
<1>10. b \in Released(h) => OnItsWay(h, b)
  BY ReleasedReturns
<1>11. ReadyChain(h, b)'
  <2> DEFINE r == b \in side[h].ready
             q == b \in side'[h].ready
             P == Picked(h, b)
             T == OnItsWay(h, b)
             R == b \in Released(h)
             C == b \in ui[h].completed
             s1 == readySync[h][b][1]
             s2 == readySync[h][b][2]
             s3 == readySync[h][b][3]
  <2>1. /\ s1 \in BOOLEAN /\ s2 \in BOOLEAN /\ s3 \in BOOLEAN
    BY <1>3
  <2>2. /\ P => ~C
        /\ T => C
        /\ P \/ T => r /\ s1 /\ s2 /\ s3
        /\ ~P /\ ~T => /\ ~C => (s3 => s2)
                       /\ ~C \/ ~s3 => (s2 => s1)
                       /\ ~C \/ ~s3 \/ ~s2 => (s1 => r)
    BY <1>1 DEF ReadyChain
  <2>3. r /\ ~R => q
    BY <1>9
  <2>4. R => T
    BY <1>10
  <2>5. ReadyChain(h, b)' <=>
          /\ P => ~C
          /\ T /\ ~R => C
          /\ P \/ (T /\ ~R) => q /\ s1 /\ s2 /\ s3
          /\ ~P /\ ~(T /\ ~R) => /\ ~C => (s3 => s2)
                                 /\ ~C \/ ~s3 => (s2 => s1)
                                 /\ ~C \/ ~s3 \/ ~s2 => (s1 => q)
    BY <1>1, <1>5, <1>7 DEF ReadyChain
  <2> HIDE DEF r, q, P, T, R, C, s1, s2, s3
  <2> QED
    BY <2>1, <2>2, <2>3, <2>4, <2>5
<1>12. Contents(h, b)'
  <2>1. lanes[h][b] \in Seq(Nat) /\ Len(lanes[h][b]) \in Nat
    BY BankTypes DEF HandInv
  <2>2. CASE OnItsWay(h, b)
    <3>1. b \in side[h].owned
      BY <1>1, <2>2 DEF ReadyChain, WriterSide
    <3>2. lanes[h][b] = <<>> /\ Portion(h, b) = <<>>
      BY <1>1, <1>8, <2>2, <3>1 DEF Contents
    <3>3. lanes'[h][b] = <<>>
      BY <1>8, <3>2
    <3> QED
      BY <1>7, <1>8, <2>2, <3>3 DEF Contents
  <2>3. CASE ~OnItsWay(h, b)
    <3>1. ~OnItsWay(h, b)' /\ b \notin Released(h)
      BY <1>7, <1>10, <2>3
    <3>2. ~(Picked(h, b) /\ ui[h].claimed) => Len(lanes[h][b]) = side[h].count[b]
      BY <1>1, <2>3 DEF Contents
    <3>3. ~(Picked(h, b) /\ ui[h].claimed) => Len(lanes'[h][b]) = side'[h].count[b]
      BY <1>8, <3>1, <3>2
    <3> QED
      BY <1>1, <1>5, <3>1, <3>3 DEF Contents
  <2> QED
    BY <2>2, <2>3
<1> QED
  BY <1>4, <1>11, <1>12

(* The bank that is picked is frozen: its lane stands still.                 *)
LEMMA CoreKeepsPicked ==
    ASSUME HandInv, CoreEdge, NEW h \in Harts, ui[h].active
    PROVE  lanes'[h][ui[h].bank] = lanes[h][ui[h].bank]
<1> DEFINE b == ui[h].bank
<1>1. b \in Banks
  BY StateTypes, ReaderFields DEF HandInv
<1>2. b \in side[h].owned
  BY <1>1 DEF HandInv, BankInv, ReadyChain, Picked, Frozen
<1> HIDE DEF b
<1>3. lanes'[h][b] = lanes[h][b] \o <<>> /\ lanes[h][b] \in Seq(Nat)
  <2>1. lanes'[h][b] = lanes[h][b] \o Portion(h, b) /\ Portion(h, b) = <<>>
    BY <1>1, <1>2, CoreEdgeOnBank
  <2>2. lanes[h][b] \in Seq(Nat)
    BY <1>1, BankTypes DEF HandInv
  <2> QED
    BY <2>1, <2>2
<1>4. lanes[h][b] \o <<>> = lanes[h][b]
  BY <1>3, ConcatEmptySeq
<1> QED
  BY <1>3, <1>4 DEF b

LEMMA CoreKeepsHand == ASSUME HandInv, CoreEdge PROVE HandInv'
<1>1. /\ ui' = ui /\ lag' = lag /\ child' = child /\ output' = output /\ elastic' = elastic
      /\ batchDone' = batchDone /\ state' = state /\ activeHart' = activeHart
      /\ remaining' = remaining /\ sent' = sent /\ total' = total
  BY DEF CoreEdge, uiVars, dmaVars
<1>2. ASSUME NEW h \in Harts PROVE Frozen(h)' /\ BankInv(h)'
  BY CoreEdgeOnBank, CoreKeepsBank DEF Frozen, WriterSide, BankInv
<1>3. ASSUME NEW h \in Harts PROVE Settling(h)'
  <2>1. Settling(h)
    BY DEF HandInv
  <2> QED
    BY <1>1, <2>1, CoreKeepsPicked DEF Settling
<1>4. ASSUME NEW h \in Harts PROVE Delivers(h)'
  <2>1. Delivers(h)
    BY DEF HandInv
  <2>2. Held(h)' <=> Held(h)
    BY <1>1 DEF Held
  <2>3. Flow(h)' = Flow(h)
    <3>1. CASE Held(h)
      BY <1>1, <2>2, <3>1, CoreKeepsPicked DEF Flow, Held, Load
    <3>2. CASE ~Held(h)
      BY <1>1, <2>2, <3>2 DEF Flow, Load
    <3> QED
      BY <3>1, <3>2
  <2> QED
    BY <1>1, <2>1, <2>2, <2>3 DEF Delivers
<1> QED
  BY <1>2, <1>3, <1>4, CoreKeepsTypes DEF HandInv
(* ------------------------------ the reader ------------------------------- *)

(* What an edge of the reader's clock does to its side of a FIFO.            *)
Ends(u, done) == u.active /\ u.claimed /\ done
UiStepped(u, ready, ack, occupancy, claim, done, v) ==
    /\ v \in UiSide
    /\ v.completed = (u.completed \cap ready) \cup (IF Ends(u, done) THEN {u.bank} ELSE {})
    /\ v.release = IF Ends(u, done) THEN {u.bank} ELSE {}
    /\ v.pointer = IF Ends(u, done) THEN OnFrom(u.bank, 1) ELSE u.pointer
    /\ v.guard = Guarded(u, ack)
    /\ Ends(u, done) => ~v.active /\ ~v.claimed
    /\ u.active /\ ~Ends(u, done) =>
          /\ v.active /\ v.bank = u.bank
          /\ v.claimed <=> u.claimed \/ (BatchValid(u) /\ claim)
    /\ ~u.active =>
          /\ v.active => /\ v.bank \in NextReady(u, ready)
                         /\ v.sample = 0 /\ v.stable = 0 /\ ~v.claimed
          /\ ~v.active => NextReady(u, ready) = {}
    /\ u.active /\ ~u.claimed =>
          /\ v.sample = occupancy
          /\ \/ v.stable = 0
             \/ /\ occupancy # 0 /\ occupancy = u.sample
                /\ v.stable = IF u.stable = StableCycles THEN u.stable ELSE u.stable + 1
    /\ u.active /\ u.claimed /\ ~Ends(u, done) => v.stable = u.stable
    /\ BatchValid(u) /\ occupancy = u.sample /\ u.bank \in ready => v.stable = u.stable

LEMMA NextIsReady == ASSUME NEW u, NEW ready PROVE NextReady(u, ready) \subseteq ready \ u.completed
BY DEF NextReady

LEMMA UiStepGives ==
    ASSUME NEW u \in UiSide, NEW ready \in SUBSET Banks, NEW ack \in BOOLEAN,
           NEW occupancy \in 0 .. BankRecords, NEW claim \in BOOLEAN, NEW done \in BOOLEAN
    PROVE  UiStepped(u, ready, ack, occupancy, claim, done,
                     UiStep(u, ready, ack, occupancy, claim, done))
<1> DEFINE v == UiStep(u, ready, ack, occupancy, claim, done)
           next == NextReady(u, ready)
           moved == IF ~u.active THEN Pick(u, ready)
                    ELSE IF ~u.claimed THEN Settle(u, ready, occupancy, claim) ELSE u
           quiet == [moved EXCEPT !.release = {}, !.guard = Guarded(u, ack),
                                  !.completed = u.completed \cap ready]
           still == ~(u.bank \notin ready \/ occupancy = 0 \/ occupancy # u.sample)
           more == IF u.stable = StableCycles THEN u.stable ELSE u.stable + 1
<1>1. v = IF Ends(u, done) THEN Finish(quiet) ELSE quiet
  BY DEF UiStep, Ends
<1>2. /\ u.completed \in SUBSET Banks /\ u.bank \in Banks /\ u.active \in BOOLEAN
      /\ u.claimed \in BOOLEAN /\ u.pointer \in Banks /\ u.release \in SUBSET Banks
      /\ u.sample \in 0 .. BankRecords /\ u.stable \in 0 .. StableCycles
      /\ u.guard \in 0 .. FlushGuard
  BY ReaderFields
<1>3. Guarded(u, ack) \in 0 .. FlushGuard
  BY <1>2, Sizes DEF Guarded
<1>4. next # {} => Max(next) \in next /\ Max(next) \in Banks
  <2>1. next \in SUBSET Banks
    BY NextIsReady
  <2> HIDE DEF next
  <2> QED
    BY <2>1, AmongBanks
<1>5. more \in 0 .. StableCycles
  BY <1>2, Sizes
<1>6. Pick(u, ready) \in UiSide /\ Settle(u, ready, occupancy, claim) \in UiSide
  <2>1. Pick(u, ready) = IF next = {} THEN u
                         ELSE [u EXCEPT !.bank = Max(next), !.active = TRUE, !.claimed = FALSE,
                                        !.sample = 0, !.stable = 0]
    BY DEF Pick
  <2>2. 0 \in 0 .. BankRecords /\ 0 \in 0 .. StableCycles
    BY Sizes
  <2>3. Settle(u, ready, occupancy, claim) =
          [u EXCEPT !.sample = IF still THEN u.sample ELSE occupancy,
                    !.stable = IF still THEN more ELSE 0, !.claimed = BatchValid(u) /\ claim]
    BY DEF Settle, UiSide
  <2>4. (BatchValid(u) /\ claim) \in BOOLEAN
    BY DEF BatchValid
  <2> HIDE DEF next, more, still
  <2>5. Pick(u, ready) \in UiSide
    BY <1>4, <2>1, <2>2 DEF UiSide
  <2>6. Settle(u, ready, occupancy, claim) \in UiSide
    BY <1>2, <1>5, <2>2, <2>3, <2>4 DEF UiSide
  <2> QED
    BY <2>5, <2>6
<1>7. /\ ~u.active /\ next = {} => moved = u
      /\ ~u.active /\ next # {} => /\ moved.active /\ moved.bank = Max(next) /\ moved.sample = 0
                                   /\ moved.stable = 0 /\ ~moved.claimed
      /\ u.active /\ u.claimed => moved = u
      /\ u.active /\ ~u.claimed =>
            /\ moved.active /\ moved.bank = u.bank
            /\ moved.claimed <=> BatchValid(u) /\ claim
            /\ moved.sample = IF still THEN u.sample ELSE occupancy
            /\ moved.stable = IF still THEN more ELSE 0
      /\ moved.pointer = u.pointer
  <2>1. Pick(u, ready) = IF next = {} THEN u
                         ELSE [u EXCEPT !.bank = Max(next), !.active = TRUE, !.claimed = FALSE,
                                        !.sample = 0, !.stable = 0]
    BY DEF Pick
  <2>2. Settle(u, ready, occupancy, claim) =
          [u EXCEPT !.sample = IF still THEN u.sample ELSE occupancy,
                    !.stable = IF still THEN more ELSE 0, !.claimed = BatchValid(u) /\ claim]
    BY DEF Settle, UiSide
  <2> HIDE DEF next, more, still
  <2>3. CASE ~u.active
    BY <2>1, <2>3 DEF UiSide
  <2>4. CASE u.active /\ ~u.claimed
    BY <2>2, <2>4 DEF UiSide
  <2>5. CASE u.active /\ u.claimed
    BY <2>5
  <2> QED
    BY <1>2, <2>3, <2>4, <2>5
<1>8. moved \in UiSide
  BY <1>6
<1> HIDE DEF moved
<1>9. /\ quiet \in UiSide
      /\ quiet.completed = u.completed \cap ready /\ quiet.release = {}
      /\ quiet.guard = Guarded(u, ack) /\ quiet.pointer = moved.pointer
      /\ quiet.active = moved.active /\ quiet.bank = moved.bank /\ quiet.claimed = moved.claimed
      /\ quiet.sample = moved.sample /\ quiet.stable = moved.stable
  BY <1>2, <1>3, <1>8 DEF UiSide
<1> HIDE DEF quiet
<1>10. CASE Ends(u, done)
  <2>1. moved = u
    BY <1>7, <1>10 DEF Ends
  <2>2. OnFrom(u.bank, 1) \in Banks
    <3>1. 1 \in 0 .. BankCount
      BY Sizes
    <3> QED
      BY <1>2, <3>1, RingStep
  <2>3. v = [quiet EXCEPT !.release = {u.bank}, !.completed = quiet.completed \cup {u.bank},
                          !.pointer = OnFrom(u.bank, 1), !.active = FALSE,
                          !.claimed = FALSE, !.sample = 0, !.stable = 0]
    BY <1>1, <1>9, <1>10, <2>1 DEF Finish, UiSide
  <2>4. quiet.completed \cup {u.bank} \in SUBSET Banks /\ {u.bank} \in SUBSET Banks
        /\ 0 \in 0 .. BankRecords /\ 0 \in 0 .. StableCycles
    BY <1>2, <1>9, Sizes
  <2> HIDE DEF v
  <2>5. v \in UiSide
    BY <1>9, <2>2, <2>3, <2>4 DEF UiSide
  <2>6. /\ v.release = {u.bank} /\ v.completed = quiet.completed \cup {u.bank}
        /\ v.pointer = OnFrom(u.bank, 1) /\ ~v.active /\ ~v.claimed /\ v.guard = quiet.guard
    BY <1>9, <2>3 DEF UiSide
  <2>7. u.active /\ u.claimed
    BY <1>10 DEF Ends
  <2> QED
    BY <1>9, <1>10, <2>5, <2>6, <2>7 DEF UiStepped, v, BatchValid
<1>11. CASE ~Ends(u, done)
  <2>1. v = quiet
    BY <1>1, <1>11
  <2>2. u.active =>
          /\ v.active /\ v.bank = u.bank
          /\ v.claimed <=> u.claimed \/ (BatchValid(u) /\ claim)
    BY <1>7, <1>9, <2>1 DEF BatchValid
  <2>3. ~u.active =>
          /\ v.active => /\ v.bank \in NextReady(u, ready)
                         /\ v.sample = 0 /\ v.stable = 0 /\ ~v.claimed
          /\ ~v.active => NextReady(u, ready) = {}
    BY <1>4, <1>7, <1>9, <2>1
  <2>4. u.active /\ ~u.claimed =>
          /\ v.sample = occupancy
          /\ v.stable = 0 \/ (occupancy # 0 /\ occupancy = u.sample /\ v.stable = more)
    BY <1>7, <1>9, <2>1
  <2>5. u.active /\ u.claimed => v.stable = u.stable
    BY <1>7, <1>9, <2>1
  <2>6. BatchValid(u) /\ occupancy = u.sample /\ u.bank \in ready => v.stable = u.stable
    <3>1. SUFFICES ASSUME BatchValid(u), occupancy = u.sample, u.bank \in ready
                   PROVE  v.stable = u.stable
      OBVIOUS
    <3>2. u.active /\ ~u.claimed /\ u.stable = StableCycles /\ u.sample # 0
      BY <3>1 DEF BatchValid
    <3>3. still /\ more = u.stable
      BY <3>1, <3>2
    <3>4. moved.stable = u.stable
      BY <1>7, <3>2, <3>3
    <3> QED
      BY <1>9, <2>1, <3>4
  <2> HIDE DEF v
  <2> QED
    BY <1>7, <1>9, <1>11, <2>1, <2>2, <2>3, <2>4, <2>5, <2>6 DEF UiStepped, v
<1> QED
  BY <1>10, <1>11

(* The first stage of a synchroniser takes the level or misses a change.     *)
LEMMA SeenLevels ==
    ASSUME NEW missed, NEW h, NEW b
    PROVE  /\ \/ Seen(<<"ready", h, b>>, missed) = readySync[h][b][1]
              \/ Seen(<<"ready", h, b>>, missed) = (b \in side[h].ready)
           /\ \/ Seen(<<"ack", h, 0>>, missed) = ackSync[h][1]
              \/ Seen(<<"ack", h, 0>>, missed) = side[h].flushAck
           /\ \/ Seen(<<"done", 0, 0>>, missed) = doneSync[1]
              \/ Seen(<<"done", 0, 0>>, missed) = pipelineDone
<1>1. /\ Source(<<"ready", h, b>>) = (b \in side[h].ready)
      /\ FirstStage(<<"ready", h, b>>) = readySync[h][b][1]
  BY DEF Source, FirstStage
<1>2. /\ Source(<<"ack", h, 0>>) = side[h].flushAck
      /\ FirstStage(<<"ack", h, 0>>) = ackSync[h][1]
  BY DEF Source, FirstStage
<1>3. /\ Source(<<"done", 0, 0>>) = pipelineDone
      /\ FirstStage(<<"done", 0, 0>>) = doneSync[1]
  BY DEF Source, FirstStage
<1> QED
  BY <1>1, <1>2, <1>3 DEF Seen

(* An edge of the reader's clock, as one FIFO sees it.                       *)
LEMMA UiEdgeOnFifo ==
    ASSUME LogTypes, NEW axi, UiEdgeWith(axi), NEW h \in Harts
    PROVE  /\ \E occupancy \in Counts(h) \cap (0 .. BankRecords) :
                 UiStepped(ui[h], ReadyUi(h), SyncOut(ackSync[h]), occupancy,
                           Dma!Selects(h, Offering), batchDone[h], ui'[h])
           /\ lag'[h] = IF ~ui[h].active THEN 0
                        ELSE IF lag[h] < CountLag THEN lag[h] + 1 ELSE lag[h]
           /\ \A b \in Banks :
                 /\ releaseSource'[h][b] = SourceStep(releaseSource[h][b], b \in ui[h].release)
                 /\ \/ readySync'[h][b] = Shift(readySync[h][b], readySync[h][b][1])
                    \/ readySync'[h][b] = Shift(readySync[h][b], b \in side[h].ready)
           /\ \/ ackSync'[h] = Shift(ackSync[h], ackSync[h][1])
              \/ ackSync'[h] = Shift(ackSync[h], side[h].flushAck)
           /\ \/ doneSync' = Shift(doneSync, doneSync[1])
              \/ doneSync' = Shift(doneSync, pipelineDone)
<1>1. PICK occupancy \in BankCounts :
        ui' = [g \in Harts |->
                  UiStep(ui[g], ReadyUi(g), SyncOut(ackSync[g]), occupancy[g],
                         Dma!Selects(g, Offering), batchDone[g])]
  BY DEF UiEdgeWith
<1>2. occupancy[h] \in Counts(h) /\ occupancy[h] \in 0 .. BankRecords
  BY DEF BankCounts
<1> DEFINE ready == ReadyUi(h)
           ack == SyncOut(ackSync[h])
           claim == Dma!Selects(h, Offering)
           done == batchDone[h]
           u == ui[h]
           occ == occupancy[h]
<1>3. /\ ready \in SUBSET Banks /\ ack \in BOOLEAN /\ claim \in BOOLEAN /\ done \in BOOLEAN
      /\ u \in UiSide /\ occ \in 0 .. BankRecords
  <2>1. ack \in BOOLEAN
    BY DEF LogTypes, SyncOut, Chain, Stages
  <2>2. claim \in BOOLEAN
    BY DEF Dma!Selects
  <2> QED
    BY <1>2, <2>1, <2>2, StateTypes DEF ReadyUi
<1>4. ui'[h] = UiStep(u, ready, ack, occ, claim, done)
  BY <1>1
<1>5. UiStepped(u, ready, ack, occ, claim, done, ui'[h])
  <2> HIDE DEF ready, ack, claim, done, u, occ
  <2>1. UiStepped(u, ready, ack, occ, claim, done, UiStep(u, ready, ack, occ, claim, done))
    BY <1>3, UiStepGives
  <2> QED
    BY <1>4, <2>1
<1>6. \E occ2 \in Counts(h) \cap (0 .. BankRecords) :
          UiStepped(ui[h], ReadyUi(h), SyncOut(ackSync[h]), occ2,
                    Dma!Selects(h, Offering), batchDone[h], ui'[h])
  BY <1>2, <1>5
<1>7. PICK missed \in SUBSET Moving :
        /\ readySync' = [g \in Harts |-> [b \in Banks |->
               Shift(readySync[g][b], Seen(<<"ready", g, b>>, missed))]]
        /\ ackSync' = [g \in Harts |-> Shift(ackSync[g], Seen(<<"ack", g, 0>>, missed))]
        /\ doneSync' = Shift(doneSync, Seen(<<"done", 0, 0>>, missed))
  BY DEF UiEdgeWith
<1>8. ASSUME NEW b \in Banks
      PROVE  /\ releaseSource'[h][b] = SourceStep(releaseSource[h][b], b \in ui[h].release)
             /\ \/ readySync'[h][b] = Shift(readySync[h][b], readySync[h][b][1])
                \/ readySync'[h][b] = Shift(readySync[h][b], b \in side[h].ready)
  <2>1. readySync'[h][b] = Shift(readySync[h][b], Seen(<<"ready", h, b>>, missed))
    BY <1>7
  <2>2. \/ Seen(<<"ready", h, b>>, missed) = readySync[h][b][1]
        \/ Seen(<<"ready", h, b>>, missed) = (b \in side[h].ready)
    BY SeenLevels
  <2>3. releaseSource'[h][b] = SourceStep(releaseSource[h][b], b \in ui[h].release)
    BY DEF UiEdgeWith
  <2> QED
    BY ONLY <2>1, <2>2, <2>3
<1>9. \/ ackSync'[h] = Shift(ackSync[h], ackSync[h][1])
      \/ ackSync'[h] = Shift(ackSync[h], side[h].flushAck)
  <2>1. ackSync'[h] = Shift(ackSync[h], Seen(<<"ack", h, 0>>, missed))
    BY <1>7
  <2> QED
    BY <2>1, SeenLevels
<1>10. \/ doneSync' = Shift(doneSync, doneSync[1])
       \/ doneSync' = Shift(doneSync, pipelineDone)
  BY <1>7, SeenLevels
<1>11. lag'[h] = IF ~ui[h].active THEN 0
                 ELSE IF lag[h] < CountLag THEN lag[h] + 1 ELSE lag[h]
  BY DEF UiEdgeWith
<1> QED
  BY <1>6, <1>8, <1>9, <1>10, <1>11

LEMMA SourceStepGives ==
    ASSUME NEW src \in EventSource, NEW e \in BOOLEAN
    PROVE  /\ SourceStep(src, e) \in EventSource /\ SourceStep(src, e).last = e
           /\ SourceStep(src, e).toggle = IF e /\ ~src.last THEN 1 - src.toggle ELSE src.toggle
<1>1. SourceStep(src, e) = [last |-> e,
                            toggle |-> IF e /\ ~src.last THEN 1 - src.toggle ELSE src.toggle]
  BY DEF SourceStep, Flip
<1>2. src.toggle \in {0, 1} /\ src.last \in BOOLEAN
  BY DEF EventSource, Bit
<1>3. (IF e /\ ~src.last THEN 1 - src.toggle ELSE src.toggle) \in {0, 1}
  BY <1>2
<1> QED
  BY <1>1, <1>3 DEF EventSource, Bit

(* The two chains of a bank on the reader's clock.                           *)
LEMMA UiKeepsChains ==
    ASSUME HandInv, NEW axi, UiEdgeWith(axi), NEW h \in Harts, NEW b \in Banks
    PROVE  /\ ReadyChain(h, b)' /\ ReleaseChain(h, b)'
           /\ OnItsWay(h, b)' <=> OnItsWay(h, b) \/ b \in ui'[h].release
           /\ b \in ui'[h].release => Ends(ui[h], batchDone[h]) /\ Picked(h, b) /\ ~Picked(h, b)'
           /\ Picked(h, b) => b \in ui'[h].release \/ Picked(h, b)'
           /\ Picked(h, b)' /\ ~Picked(h, b) => ~ui'[h].claimed
<1> DEFINE u == ui[h]
           v == ui'[h]
           done == batchDone[h]
           s == readySync[h][b]
           t == releaseSource[h][b]
           rs == releaseSync[h][b]
<1>1. LogTypes /\ ReadyChain(h, b) /\ ReleaseChain(h, b)
  BY DEF HandInv, BankInv
<1>2. PICK occ \in Counts(h) \cap (0 .. BankRecords) :
        UiStepped(u, ReadyUi(h), SyncOut(ackSync[h]), occ, Dma!Selects(h, Offering), done, v)
  BY <1>1, UiEdgeOnFifo
<1>3. /\ v.completed = (u.completed \cap ReadyUi(h)) \cup (IF Ends(u, done) THEN {u.bank} ELSE {})
      /\ v.release = IF Ends(u, done) THEN {u.bank} ELSE {}
      /\ Ends(u, done) => ~v.active
      /\ u.active /\ ~Ends(u, done) => v.active /\ v.bank = u.bank
      /\ ~u.active /\ v.active => /\ v.bank \in ReadyUi(h) \ u.completed /\ ~v.claimed
  BY <1>2, NextIsReady DEF UiStepped
<1>4. b \in ReadyUi(h) <=> s[3]
  BY DEF ReadyUi, SyncOut
<1>5. /\ s[1] \in BOOLEAN /\ s[2] \in BOOLEAN /\ s[3] \in BOOLEAN
      /\ t \in EventSource /\ t.toggle \in {0, 1} /\ t.last \in BOOLEAN
      /\ rs[1] \in {0, 1} /\ rs[2] \in {0, 1} /\ rs[3] \in {0, 1}
      /\ u.active \in BOOLEAN /\ u.claimed \in BOOLEAN /\ done \in BOOLEAN
  BY <1>1, BankTypes, StateTypes, ReaderFields
<1>6. /\ readySync'[h][b][2] = s[1] /\ readySync'[h][b][3] = s[2]
      /\ readySync'[h][b][1] = s[1] \/ readySync'[h][b][1] = (b \in side[h].ready)
  BY <1>1, UiEdgeOnFifo, ShiftGives
<1>7. /\ releaseSource'[h][b].last <=> b \in u.release
      /\ releaseSource'[h][b].toggle = IF b \in u.release /\ ~t.last THEN 1 - t.toggle ELSE t.toggle
  <2> DEFINE e == b \in u.release
             y == releaseSource'[h][b]
  <2>1. y = SourceStep(t, e)
    BY <1>1, UiEdgeOnFifo
  <2>2. e \in BOOLEAN
    OBVIOUS
  <2>3. t \in EventSource
    BY <1>5
  <2> HIDE DEF t, e, y
  <2>4. y.last = e /\ y.toggle = IF e /\ ~t.last THEN 1 - t.toggle ELSE t.toggle
    BY <2>1, <2>2, <2>3, SourceStepGives
  <2>5. /\ y.last <=> e
        /\ y.toggle = IF e /\ ~t.last THEN 1 - t.toggle ELSE t.toggle
    BY <2>2, <2>4
  <2> QED
    BY ONLY <2>5 DEF t, e, y
<1>8. side' = side /\ releaseSync' = releaseSync
  BY DEF UiEdgeWith, coreVars
<1> DEFINE r == b \in side[h].ready
           P == Picked(h, b)
           T == OnItsWay(h, b)
           C == b \in u.completed
           R == b \in u.release
           E == Ends(u, done) /\ P
           V == v.active /\ v.bank = b
           S == b \in v.release
<1>9. /\ S <=> E
      /\ E => ~V
      /\ P /\ ~E => V
      /\ V /\ ~P => s[3] /\ ~C /\ ~v.claimed
      /\ (b \in v.completed) <=> (C /\ s[3]) \/ E
      /\ P => u.active
  <2>1. P <=> u.active /\ u.bank = b
    BY DEF Picked
  <2>2. Ends(u, done) => u.active
    BY DEF Ends
  <2>3. V /\ ~P => ~u.active
    BY <1>3, <2>1, <2>2
  <2> HIDE DEF u, v
  <2> QED
    BY <1>3, <1>4, <2>1, <2>2, <2>3
<1>10. /\ P => ~C
       /\ T => C
       /\ P \/ T => r /\ s[1] /\ s[2] /\ s[3]
       /\ ~P /\ ~T => /\ ~C => (s[3] => s[2])
                      /\ ~C \/ ~s[3] => (s[2] => s[1])
                      /\ ~C \/ ~s[3] \/ ~s[2] => (s[1] => r)
  BY <1>1 DEF ReadyChain
<1>11. /\ t.toggle = rs[3] => rs[1] = t.toggle /\ rs[2] = t.toggle
       /\ rs[2] = t.toggle => rs[1] = t.toggle
       /\ R => t.toggle = rs[3] /\ ~t.last /\ ~u.active
  BY <1>1 DEF ReleaseChain
<1>12. T <=> R \/ t.toggle # rs[3]
  BY DEF OnItsWay
<1>13. OnItsWay(h, b)' <=> S \/ releaseSource'[h][b].toggle # rs[3]
  BY <1>8 DEF OnItsWay
<1>14. OnItsWay(h, b)' <=> T \/ S
  <2>1. R => releaseSource'[h][b].toggle # rs[3]
    BY <1>5, <1>7, <1>11
  <2>2. ~R => releaseSource'[h][b].toggle = t.toggle
    BY <1>7
  <2> QED
    BY <1>12, <1>13, <2>1, <2>2
<1>15. Picked(h, b)' <=> V
  BY DEF Picked
<1>16. ReleaseChain(h, b)'
  <2> DEFINE x == releaseSource'[h][b].toggle
  <2>1. ReleaseChain(h, b)' <=> /\ x = rs[3] => rs[1] = x /\ rs[2] = x
                                /\ rs[2] = x => rs[1] = x
                                /\ S => x = rs[3] /\ ~releaseSource'[h][b].last /\ ~v.active
    BY <1>8 DEF ReleaseChain
  <2>2. S => ~R /\ ~T /\ ~v.active
    BY <1>3, <1>9, <1>10, <1>11, <1>12
  <2>3. R => x = 1 - t.toggle
    BY <1>7, <1>11
  <2>4. ~R => x = t.toggle
    BY <1>7
  <2>5. releaseSource'[h][b].last <=> R
    BY <1>7
  <2> HIDE DEF R, S, x, T
  <2>6. CASE R
    BY <1>5, <1>11, <2>1, <2>2, <2>3, <2>6
  <2>7. CASE ~R
    BY <1>5, <1>11, <1>12, <2>1, <2>2, <2>4, <2>5, <2>7
  <2> QED
    BY <2>6, <2>7
<1>17. ReadyChain(h, b)'
  <2> DEFINE s1 == s[1]
             s2 == s[2]
             s3 == s[3]
             x == readySync'[h][b][1]
             D == b \in v.completed
  <2>1. ReadyChain(h, b)' <=>
          /\ V => ~D
          /\ T \/ S => D
          /\ V \/ T \/ S => r /\ x /\ s1 /\ s2
          /\ ~V /\ ~(T \/ S) => /\ ~D => (s2 => s1)
                                /\ ~D \/ ~s2 => (s1 => x)
                                /\ ~D \/ ~s2 \/ ~s1 => (x => r)
    BY <1>6, <1>8, <1>14, <1>15 DEF ReadyChain
  <2>2. x \in BOOLEAN /\ s1 \in BOOLEAN /\ s2 \in BOOLEAN /\ s3 \in BOOLEAN /\ r \in BOOLEAN
    <3>1. x = s1 \/ x = r
      BY <1>6
    <3>2. r \in BOOLEAN
      OBVIOUS
    <3>3. s1 \in BOOLEAN /\ s2 \in BOOLEAN /\ s3 \in BOOLEAN
      BY <1>5
    <3> HIDE DEF x, s1, s2, s3, r
    <3> QED
      BY <3>1, <3>2, <3>3
  <2>3. x = s1 \/ x = r
    BY <1>6
  <2>4. /\ D <=> (C /\ s3) \/ E
        /\ S <=> E
        /\ E => ~V
        /\ P /\ ~E => V
        /\ V /\ ~P => s3 /\ ~C
        /\ E => P
    BY <1>9
  <2>5. /\ P => ~C
        /\ T => C
        /\ P \/ T => r /\ s1 /\ s2 /\ s3
        /\ ~P /\ ~T => /\ ~C => (s3 => s2)
                       /\ ~C \/ ~s3 => (s2 => s1)
                       /\ ~C \/ ~s3 \/ ~s2 => (s1 => r)
    BY <1>10
  <2> HIDE DEF r, P, T, C, R, E, V, S, s1, s2, s3, x, D
  <2>6. /\ V => ~D
        /\ T \/ S => D
        /\ V \/ T \/ S => r /\ x /\ s1 /\ s2
        /\ ~V /\ ~(T \/ S) => /\ ~D => (s2 => s1)
                              /\ ~D \/ ~s2 => (s1 => x)
                              /\ ~D \/ ~s2 \/ ~s1 => (x => r)
    BY ONLY <2>2, <2>3, <2>4, <2>5
  <2> QED
    BY ONLY <2>1, <2>6
<1> QED
  BY <1>9, <1>14, <1>15, <1>16, <1>17
(* -------------------- the stream of the claimed bank --------------------- *)

LEMMA ShortSequences ==
    ASSUME NEW S, NEW x \in S, NEW y \in S
    PROVE  /\ <<y>> \o <<x>> = <<y, x>> /\ <<>> \o <<x>> = <<x>>
           /\ Tail(<<x, y>>) = <<y>> /\ Tail(<<x>>) = <<>> /\ Head(<<x, y>>) = x /\ Head(<<x>>) = x
           /\ <<x>> \in Seq(S) /\ <<x, y>> \in Seq(S) /\ <<>> \in Seq(S)
           /\ Len(<<>>) = 0 /\ Len(<<x>>) = 1 /\ Len(<<x, y>>) = 2
<1>1. <<y>> \o <<x>> = <<y, x>>
  <2> DEFINE a == <<y>>
             b == <<x>>
             p == a \o b
             q == <<y, x>>
  <2>1. a \in Seq(S) /\ Len(a) = 1 /\ a[1] = y /\ b \in Seq(S) /\ Len(b) = 1 /\ b[1] = x
    OBVIOUS
  <2>2. q \in Seq(S) /\ Len(q) = 2 /\ q[1] = y /\ q[2] = x
    OBVIOUS
  <2> HIDE DEF a, b, q
  <2>3. p \in Seq(S) /\ Len(p) = 2 /\ p[1] = y /\ p[2] = x
    BY SMTT(30), <2>1, ConcatProperties
  <2> HIDE DEF p
  <2>4. p = q
    BY <2>2, <2>3, SeqEqual
  <2> QED
    BY <2>4 DEF p, q, a, b
<1>2. <<>> \o <<x>> = <<x>>
  OBVIOUS
<1>3. Tail(<<x, y>>) = <<y>> /\ Tail(<<x>>) = <<>> /\ Head(<<x, y>>) = x /\ Head(<<x>>) = x
  OBVIOUS
<1>4. <<x>> \in Seq(S) /\ <<x, y>> \in Seq(S) /\ <<>> \in Seq(S)
  OBVIOUS
<1>5. Len(<<>>) = 0 /\ Len(<<x>>) = 1 /\ Len(<<x, y>>) = 2
  OBVIOUS
<1> QED
  BY <1>1, <1>2, <1>3, <1>4, <1>5

(* What a queue of at most two beats holds.                                  *)
Pair(s) == s \in Seq(Beats) /\ Len(s) <= 2

LEMMA BeatSize == ASSUME NEW x \in Beats PROVE x \in Seq(Nat) /\ Len(x) \in Nat /\ Len(x) > 0
<1>1. x \in Seq(Nat) /\ x # <<>>
  BY DEF Beats
<1> QED
  BY <1>1, EmptySeq

LEMMA LoadIs ==
    ASSUME NEW s, Pair(s)
    PROVE  /\ Load(s) \in Nat /\ (Load(s) = 0 <=> s = <<>>)
           /\ Load(<<>>) = 0
           /\ s = <<>> \/ \E x \in Beats : s = <<x>> \/ \E y \in Beats : s = <<x, y>>
           /\ \A x \in Beats : Load(<<x>>) = Len(x)
           /\ \A x, y \in Beats : Load(<<x, y>>) = Len(x) + Len(y)
<1>1. Load(<<>>) = 0
  BY DEF Load
<1>2. ASSUME NEW x \in Beats PROVE Load(<<x>>) = Len(x)
  BY BeatSize DEF Load
<1>3. ASSUME NEW x \in Beats, NEW y \in Beats PROVE Load(<<x, y>>) = Len(x) + Len(y)
  BY BeatSize DEF Load
<1>4. s = <<>> \/ \E x \in Beats : s = <<x>> \/ \E y \in Beats : s = <<x, y>>
  <2> DEFINE B == Beats
  <2>1. s \in Seq(B) /\ Len(s) <= 2
    BY DEF Pair
  <2> HIDE DEF B
  <2>5. Len(s) = 0 \/ Len(s) = 1 \/ Len(s) = 2
    <3> DEFINE n == Len(s)
    <3>1. n \in Nat
      BY <2>1
    <3>2. n <= 2
      BY <2>1
    <3> HIDE DEF n
    <3>3. n = 0 \/ n = 1 \/ n = 2
      BY ONLY <3>1, <3>2
    <3> QED
      BY ONLY <3>3 DEF n
  <2>2. CASE Len(s) = 0
    BY <2>1, <2>2
  <2>3. CASE Len(s) = 1
    <3>1. s[1] \in B /\ s = <<s[1]>>
      BY <2>1, <2>3
    <3> QED
      BY <3>1 DEF B
  <2>4. CASE Len(s) = 2
    <3>1. s[1] \in B /\ s[2] \in B /\ s = <<s[1], s[2]>>
      BY <2>1, <2>4
    <3> QED
      BY <3>1 DEF B
  <2> QED
    BY <2>2, <2>3, <2>4, <2>5
<1>5. Load(s) \in Nat /\ (Load(s) = 0 <=> s = <<>>)
  <2>1. CASE s = <<>>
    BY <1>1, <2>1
  <2>2. ASSUME NEW x \in Beats, s = <<x>> PROVE Load(s) \in Nat /\ (Load(s) = 0 <=> s = <<>>)
    BY <1>2, <2>2, BeatSize
  <2>3. ASSUME NEW x \in Beats, NEW y \in Beats, s = <<x, y>>
        PROVE  Load(s) \in Nat /\ (Load(s) = 0 <=> s = <<>>)
    <3>1. Load(s) = Len(x) + Len(y) /\ s # <<>>
      BY <1>3, <2>3
    <3> QED
      BY <3>1, BeatSize
  <2> QED
    BY <1>4, <2>1, <2>2, <2>3
<1> QED
  BY <1>1, <1>2, <1>3, <1>4, <1>5

(* One beat leaves, one arrives.                                             *)
LEMMA LoadTail ==
    ASSUME NEW s, Pair(s), s # <<>>
    PROVE  /\ Head(s) \in Beats /\ Len(s) # 0 /\ Pair(Tail(s)) /\ Len(Tail(s)) # 2
           /\ Load(Tail(s)) = Load(s) - Len(Head(s))
<1> DEFINE B == Beats
<1>1. CASE \E x \in Beats : s = <<x>>
  <2>1. PICK x \in Beats : s = <<x>>
    BY <1>1
  <2>2. Head(s) = x /\ Tail(s) = <<>> /\ Len(s) = 1 /\ <<>> \in Seq(B) /\ Len(<<>>) = 0
    <3> HIDE DEF B
    <3> QED
      BY ONLY <2>1
  <2>3. Load(s) = Len(x) /\ Load(<<>>) = 0 /\ Len(x) \in Nat
    BY <2>1, LoadIs, BeatSize
  <2>4. Pair(Tail(s)) /\ Len(Tail(s)) # 2
    BY <2>2 DEF Pair
  <2>5. Load(Tail(s)) = Load(s) - Len(Head(s))
    <3> DEFINE m == Len(x)
               k == Load(Tail(s))
               l == Load(s)
    <3>1. Len(Head(s)) = m
      BY <2>2
    <3>2. m \in Nat /\ k = 0 /\ l = m
      BY <2>2, <2>3
    <3> HIDE DEF m, k, l
    <3>3. k = l - m
      BY <3>2
    <3> QED
      BY ONLY <3>1, <3>3 DEF k, l
  <2>6. Head(s) \in Beats /\ Len(s) # 0
    BY <2>2
  <2> QED
    BY <2>4, <2>5, <2>6
<1>2. CASE \E x \in Beats : \E y \in Beats : s = <<x, y>>
  <2>1. PICK x \in Beats, y \in Beats : s = <<x, y>>
    BY <1>2
  <2>2. /\ Head(s) = x /\ Tail(s) = <<y>> /\ Len(s) = 2
        /\ <<y>> \in Seq(B) /\ Len(<<y>>) = 1
    <3>1. x \in B /\ y \in B
      OBVIOUS
    <3> HIDE DEF B
    <3> QED
      BY <2>1, <3>1, ShortSequences
  <2>3. Load(s) = Len(x) + Len(y) /\ Load(<<y>>) = Len(y) /\ Len(x) \in Nat /\ Len(y) \in Nat
    BY <2>1, LoadIs, BeatSize
  <2>4. Pair(Tail(s)) /\ Len(Tail(s)) # 2
    BY <2>2 DEF Pair
  <2>5. Load(Tail(s)) = Load(s) - Len(Head(s))
    <3> DEFINE m == Len(x)
               k == Load(Tail(s))
               l == Load(s)
    <3>1. Len(Head(s)) = m
      BY <2>2
    <3>2. m \in Nat /\ k \in Nat /\ l = m + k
      BY <2>2, <2>3
    <3> HIDE DEF m, k, l
    <3>3. k = l - m
      BY <3>2
    <3> QED
      BY ONLY <3>1, <3>3 DEF k, l
  <2>6. Head(s) \in Beats /\ Len(s) # 0
    BY <2>2
  <2> QED
    BY <2>4, <2>5, <2>6
<1> QED
  BY <1>1, <1>2, LoadIs

LEMMA LoadPut ==
    ASSUME NEW s, Pair(s), Len(s) # 2, NEW x \in Beats
    PROVE  Pair(s \o <<x>>) /\ Load(s \o <<x>>) = Load(s) + Len(x)
<1> DEFINE B == Beats
<1>1. CASE s = <<>>
  <2>1. s \o <<x>> = <<x>> /\ <<x>> \in Seq(B) /\ Len(<<x>>) = 1
    <3>1. x \in B
      OBVIOUS
    <3> HIDE DEF B
    <3> QED
      BY <1>1, <3>1, ShortSequences
  <2>2. Load(<<x>>) = Len(x) /\ Load(<<>>) = 0 /\ Len(x) \in Nat
    BY LoadIs, BeatSize
  <2>3. Pair(<<x>>)
    BY <2>1 DEF Pair
  <2> QED
    BY <1>1, <2>1, <2>2, <2>3
<1>2. CASE \E y \in Beats : s = <<y>>
  <2>1. PICK y \in Beats : s = <<y>>
    BY <1>2
  <2>2. s \o <<x>> = <<y, x>> /\ <<y, x>> \in Seq(B) /\ Len(<<y, x>>) = 2
    <3>1. x \in B /\ y \in B
      OBVIOUS
    <3> HIDE DEF B
    <3> QED
      BY <2>1, <3>1, ShortSequences
  <2>3. Load(<<y, x>>) = Len(y) + Len(x) /\ Load(s) = Len(y)
    BY <2>1, LoadIs
  <2>4. Pair(<<y, x>>)
    BY <2>2 DEF Pair
  <2> QED
    BY <2>2, <2>3, <2>4
<1>3. CASE \E y, z \in Beats : s = <<y, z>>
  BY <1>3
<1> QED
  BY <1>1, <1>2, <1>3, LoadIs

(* What the DMA takes from the stream of a hart on an edge.                  *)
Drawn(h, axi) == IF activeHart = h /\ Dma!Takes(axi, elastic[h])
                 THEN Len(Head(elastic[h])) ELSE 0
InStream(h) == Load(elastic[h]) + Load(output[h]) + Load(child[h]) + Len(lanes[h][ui[h].bank])

(* What an edge does to it: nothing is lost but what is drawn.               *)
Streamed(h, axi) ==
    /\ Pair(elastic'[h]) /\ Pair(output'[h]) /\ Pair(child'[h]) /\ Len(child'[h]) <= 1
    /\ \A b \in Banks : /\ lanes'[h][b] \in Seq(Nat)
                        /\ b # ui[h].bank \/ ~Held(h) => lanes'[h][b] = lanes[h][b]
                        /\ lanes[h][b] = <<>> => lanes'[h][b] = <<>>
    /\ Load(elastic'[h]) + Load(output'[h]) + Load(child'[h]) + Len(lanes'[h][ui[h].bank])
         = InStream(h) - Drawn(h, axi)

(* The records captured from the head of a bank.                             *)
LEMMA CaptureGives ==
    ASSUME NEW q \in Seq(Nat), NEW n \in 0 .. Len(q)
    PROVE  /\ SubSeq(q, n + 1, Len(q)) \in Seq(Nat) /\ Len(SubSeq(q, n + 1, Len(q))) = Len(q) - n
           /\ n = 0 => SubSeq(q, n + 1, Len(q)) = q
           /\ n # 0 => SubSeq(q, 1, n) \in Beats /\ Len(SubSeq(q, 1, n)) = n
<1> DEFINE l == Len(q)
           x == SubSeq(q, n + 1, l)
           y == SubSeq(q, 1, n)
<1>1. l \in Nat /\ n \in 0 .. l
  OBVIOUS
<1>2. x \in Seq(Nat) /\ Len(x) = IF n + 1 <= l THEN l - (n + 1) + 1 ELSE 0
  <2>1. n + 1 \in 1 .. Len(q) + 1 /\ Len(q) \in 0 .. Len(q)
    BY <1>1
  <2> QED
    BY <2>1, PartOf
<1>3. y \in Seq(Nat) /\ Len(y) = IF 1 <= n THEN n - 1 + 1 ELSE 0
  <2>1. 1 \in 1 .. Len(q) + 1 /\ n \in 0 .. Len(q)
    BY <1>1
  <2> QED
    BY <2>1, PartOf
<1>4. n = 0 => x = q
  BY SubSeqFull
<1> HIDE DEF l, x, y
<1>5. Len(x) = l - n
  BY <1>1, <1>2
<1>6. n # 0 => Len(y) = n /\ y # <<>>
  <2>1. n # 0 => Len(y) = n
    BY <1>1, <1>3
  <2>2. y = <<>> => Len(y) = 0
    OBVIOUS
  <2> QED
    BY <2>1, <2>2
<1>7. n # 0 => y \in Beats
  BY <1>3, <1>6 DEF Beats
<1> QED
  BY <1>2, <1>4, <1>5, <1>6, <1>7 DEF l, x, y

LEMMA StreamGives ==
    ASSUME LogTypes, NEW axi, Stream(axi), NEW h \in Harts
    PROVE  Streamed(h, axi)
<1> DEFINE k == ui[h].bank
           q == lanes[h][k]
           n == Captures(h)
           P == Pushes(h)
           M == Passes(h)
           T == activeHart = h /\ Dma!Takes(axi, elastic[h])
           c == child[h]
           o == output[h]
           e == elastic[h]
<1>1. /\ Pair(c) /\ Len(c) <= 1 /\ Pair(o) /\ Pair(e) /\ k \in Banks /\ q \in Seq(Nat)
      /\ Len(q) \in Nat
  <2>1. k \in Banks /\ Len(c) \in Nat
    BY StateTypes, ReaderFields
  <2>2. Len(c) <= 1 => Len(c) <= 2
    BY <2>1
  <2> QED
    BY <2>1, <2>2, StateTypes, BankTypes DEF Pair
<1>2. /\ n \in 0 .. Len(q) /\ (n # 0 => BankReads(h))
  <2>1. HeadRecords(q, SyncOut(doneSync)) \in 0 .. Len(q)
    <3> DEFINE l == Len(q)
    <3>1. HeadRecords(q, SyncOut(doneSync))
            = IF l >= 2 THEN 2 ELSE IF l = 1 /\ SyncOut(doneSync) THEN 1 ELSE 0
      BY DEF HeadRecords
    <3>2. l \in Nat
      BY <1>1
    <3> HIDE DEF l
    <3>3. HeadRecords(q, SyncOut(doneSync)) \in 0 .. l
      BY <3>1, <3>2
    <3> QED
      BY <3>3 DEF l
  <2> QED
    BY <1>1, <2>1 DEF Captures
<1>3. /\ P <=> BankReads(h) /\ c # <<>>
      /\ BankReads(h) => Held(h) /\ Len(o) # 2
      /\ M <=> o # <<>> /\ Len(e) # 2
      /\ T => e # <<>>
  BY DEF Pushes, BankReads, Passes, Dma!Takes, Held
<1>4. /\ \A b \in Banks : lanes'[h][b] = IF b = k THEN SubSeq(lanes[h][b], n + 1, Len(lanes[h][b]))
                                         ELSE lanes[h][b]
      /\ child'[h] = IF n # 0 THEN <<SubSeq(q, 1, n)>> ELSE IF P THEN <<>> ELSE c
      /\ output'[h] = (IF M THEN Tail(o) ELSE o) \o (IF P THEN c ELSE <<>>)
      /\ elastic'[h] = (IF T THEN Tail(e) ELSE e) \o (IF M THEN <<Head(o)>> ELSE <<>>)
  BY DEF Stream
<1>5. Drawn(h, axi) = IF T THEN Len(Head(e)) ELSE 0
  BY DEF Drawn
<1>6. InStream(h) = Load(e) + Load(o) + Load(c) + Len(q)
  BY DEF InStream
<1> DEFINE q2 == lanes'[h][k]
           c2 == child'[h]
           o2 == output'[h]
           e2 == elastic'[h]
           cut == SubSeq(q, 1, n)
<1> HIDE DEF n, P, M, T
<1>7. /\ q2 \in Seq(Nat) /\ Len(q2) = Len(q) - n /\ (n = 0 => q2 = q)
      /\ n # 0 => cut \in Beats /\ Len(cut) = n
  <2>1. q2 = SubSeq(q, n + 1, Len(q))
    BY <1>1, <1>4
  <2> QED
    BY SMTT(30), <1>1, <1>2, <2>1, CaptureGives
<1>8. ASSUME NEW b \in Banks
      PROVE  /\ lanes'[h][b] \in Seq(Nat)
             /\ b # k \/ ~Held(h) => lanes'[h][b] = lanes[h][b]
             /\ lanes[h][b] = <<>> => lanes'[h][b] = <<>>
  <2>1. CASE b = k
    <3>1. ~Held(h) => n = 0
      BY <1>2, <1>3
    <3>2. q = <<>> => n = 0
      <4>1. q = <<>> => Len(q) = 0
        OBVIOUS
      <4> QED
        BY <1>2, <4>1
    <3> QED
      BY <1>7, <2>1, <3>1, <3>2
  <2>2. CASE b # k
    BY <1>4, <2>2, BankTypes
  <2> QED
    BY <2>1, <2>2
<1> HIDE DEF q, cut, q2, k
(* The output register of the bank.                                          *)
<1>9. c = <<>> \/ \E x \in Beats : c = <<x>>
  <2>1. \A x, y \in Beats : Len(<<x, y>>) = 2
    OBVIOUS
  <2> HIDE DEF c
  <2>2. c = <<>> \/ \E x \in Beats : c = <<x>> \/ \E y \in Beats : c = <<x, y>>
    BY <1>1, LoadIs
  <2>3. ASSUME NEW x \in Beats, NEW y \in Beats PROVE c # <<x, y>>
    <3>1. Len(c) # 2
      <4> DEFINE l == Len(c)
      <4>1. l \in Nat /\ l <= 1
        BY <1>1 DEF Pair
      <4> HIDE DEF l
      <4>2. l # 2
        BY ONLY <4>1
      <4> QED
        BY ONLY <4>2 DEF l
    <3> QED
      BY ONLY <2>1, <3>1, x \in Beats, y \in Beats
  <2> QED
    BY ONLY <2>2, <2>3
<1>10. /\ Pair(c2) /\ Len(c2) <= 1
       /\ Load(c2) = n + IF P THEN 0 ELSE Load(c)
  <2>1. CASE n # 0
    <3>1. c2 = <<cut>> /\ cut \in Beats /\ Len(cut) = n
      BY <1>4, <1>7, <2>1 DEF cut
    <3>2. P \/ c = <<>>
      BY <1>2, <1>3, <2>1
    <3>3. ~P => Load(c) = 0
      BY <1>1, <3>2, LoadIs
    <3>4. Load(<<cut>>) = Len(cut)
      BY <1>1, <3>1, LoadIs
    <3>5. Pair(<<cut>>) /\ Len(<<cut>>) <= 1
      <4> DEFINE B == Beats
      <4>1. cut \in B
        BY <3>1
      <4> HIDE DEF B
      <4>2. <<cut>> \in Seq(B) /\ Len(<<cut>>) = 1
        BY <4>1, ShortSequences
      <4> QED
        BY <4>2 DEF Pair, B
    <3>6. n \in Nat
      BY <1>1, <1>2
    <3> HIDE DEF c2
    <3>7. Load(c2) = n
      BY <3>1, <3>4
    <3> QED
      BY <3>1, <3>3, <3>5, <3>6, <3>7
  <2>2. CASE n = 0 /\ P
    <3>1. c2 = <<>> /\ Load(<<>>) = 0 /\ Pair(<<>>) /\ Len(<<>>) <= 1
      BY <1>1, <1>4, <2>2, LoadIs DEF Pair
    <3> QED
      BY <2>2, <3>1
  <2>3. CASE n = 0 /\ ~P
    <3>1. c2 = c /\ Load(c) \in Nat
      BY <1>1, <1>4, <2>3, LoadIs
    <3> QED
      BY <1>1, <2>3, <3>1
  <2> QED
    BY <2>1, <2>2, <2>3
(* The two queues behind it.                                                 *)
<1> DEFINE o1 == IF M THEN Tail(o) ELSE o
           e1 == IF T THEN Tail(e) ELSE e
           moved == IF M THEN Len(Head(o)) ELSE 0
           drawn == IF T THEN Len(Head(e)) ELSE 0
<1>11. /\ Pair(o1) /\ Load(o1) = Load(o) - moved /\ (Len(o) # 2 => Len(o1) # 2)
       /\ M => Head(o) \in Beats
  BY <1>1, <1>3, LoadTail, LoadIs
<1>12. /\ Pair(e1) /\ Load(e1) = Load(e) - drawn /\ (Len(e) # 2 => Len(e1) # 2)
  BY <1>1, <1>3, LoadTail, LoadIs
<1>13. /\ Load(o) \in Nat /\ Load(e) \in Nat /\ Load(c) \in Nat
       /\ Load(o1) \in Nat /\ Load(e1) \in Nat
  BY <1>1, <1>11, <1>12, LoadIs
<1>14. moved \in Nat /\ drawn \in Nat
  BY <1>1, <1>3, LoadTail, BeatSize
<1> HIDE DEF o1, e1, drawn
<1>15. Pair(o2) /\ Load(o2) = Load(o1) + IF P THEN Load(c) ELSE 0
  <2>1. CASE P
    <3>1. PICK x \in Beats : c = <<x>>
      BY <1>3, <1>9, <2>1
    <3>2. o2 = o1 \o <<x>> /\ Len(o1) # 2
      BY <1>3, <1>4, <1>11, <2>1, <3>1 DEF o1
    <3>3. Load(c) = Len(x)
      BY <1>1, <3>1, LoadIs
    <3> HIDE DEF o2, c, o
    <3> QED
      BY <1>11, <2>1, <3>2, <3>3, LoadPut
  <2>2. CASE ~P
    <3>1. o2 = o1 \o <<>>
      BY <1>4, <2>2 DEF o1
    <3>2. o1 \o <<>> = o1
      BY <1>11, ConcatEmptySeq DEF Pair
    <3> HIDE DEF o2
    <3> QED
      BY <1>11, <1>13, <2>2, <3>1, <3>2
  <2> QED
    BY <2>1, <2>2
<1>16. Pair(e2) /\ Load(e2) = Load(e1) + moved
  <2>1. CASE M
    <3>1. e2 = e1 \o <<Head(o)>> /\ Len(e1) # 2 /\ Head(o) \in Beats /\ moved = Len(Head(o))
      BY <1>3, <1>4, <1>11, <1>12, <2>1 DEF e1
    <3> HIDE DEF e2, o, moved
    <3> QED
      BY <1>12, <3>1, LoadPut
  <2>2. CASE ~M
    <3>1. e2 = e1 \o <<>> /\ moved = 0
      BY <1>4, <2>2 DEF e1
    <3>2. e1 \o <<>> = e1
      BY <1>12, ConcatEmptySeq DEF Pair
    <3> HIDE DEF e2, moved
    <3> QED
      BY <1>12, <1>13, <3>1, <3>2
  <2> QED
    BY <2>1, <2>2
<1>17. Load(e2) + Load(o2) + Load(c2) + Len(q2) = (Load(e) + Load(o) + Load(c) + Len(q)) - drawn
  <2> DEFINE Lc == Load(c)
             Lo == Load(o)
             Le == Load(e)
             Lo1 == Load(o1)
             Le1 == Load(e1)
             Lc2 == Load(c2)
             Lo2 == Load(o2)
             Le2 == Load(e2)
             l == Len(q)
             l2 == Len(q2)
  <2>1. /\ Lc \in Nat /\ Lo \in Nat /\ Le \in Nat /\ l \in Nat /\ n \in Nat /\ moved \in Nat /\ drawn \in Nat
        /\ Lc2 = n + (IF P THEN 0 ELSE Lc) /\ Lo1 = Lo - moved /\ Le1 = Le - drawn
        /\ Lo2 = Lo1 + (IF P THEN Lc ELSE 0) /\ Le2 = Le1 + moved /\ l2 = l - n
    BY <1>1, <1>2, <1>7, <1>10, <1>11, <1>12, <1>13, <1>14, <1>15, <1>16 DEF q
  <2> HIDE DEF Lc, Lo, Le, Lo1, Le1, Lc2, Lo2, Le2, l, l2, moved
  <2>2. Le2 + Lo2 + Lc2 + l2 = (Le + Lo + Lc + l) - drawn
    BY ONLY <2>1
  <2> QED
    BY ONLY <2>2 DEF Lc, Lo, Le, Lo1, Le1, Lc2, Lo2, Le2, l, l2
<1>18. drawn = Drawn(h, axi)
  BY <1>5 DEF drawn
<1>19. \A b \in Banks : /\ lanes'[h][b] \in Seq(Nat)
                        /\ b # ui[h].bank \/ ~Held(h) => lanes'[h][b] = lanes[h][b]
                        /\ lanes[h][b] = <<>> => lanes'[h][b] = <<>>
  BY <1>8 DEF k
<1>20. Load(elastic'[h]) + Load(output'[h]) + Load(child'[h]) + Len(lanes'[h][ui[h].bank])
         = InStream(h) - Drawn(h, axi)
  <2>1. Load(e2) + Load(o2) + Load(c2) + Len(q2) = InStream(h) - Drawn(h, axi)
    BY ONLY <1>6, <1>17, <1>18
  <2> QED
    BY ONLY <2>1 DEF q2, k
<1> QED
  BY <1>10, <1>15, <1>16, <1>19, <1>20 DEF Streamed

(* A count that the bank shows often enough is that of its records.          *)
LEMMA UiKeepsSettling ==
    ASSUME HandInv, NEW axi, UiEdgeWith(axi), NEW h \in Harts
    PROVE  Settling(h)'
<1> DEFINE u == ui[h]
           v == ui'[h]
           k == u.bank
           all == Len(lanes[h][k])
<1>1. LogTypes /\ Settling(h)
  BY DEF HandInv
<1>2. PICK occ \in Counts(h) \cap (0 .. BankRecords) :
        UiStepped(u, ReadyUi(h), SyncOut(ackSync[h]), occ, Dma!Selects(h, Offering), batchDone[h], v)
  BY <1>1, UiEdgeOnFifo
<1>3. lag'[h] = IF ~u.active THEN 0 ELSE IF lag[h] < CountLag THEN lag[h] + 1 ELSE lag[h]
  BY <1>1, UiEdgeOnFifo
<1>4. /\ ~u.active /\ v.active => v.sample = 0 /\ v.stable = 0
      /\ u.active /\ v.active => /\ v.bank = k
                                 /\ u.claimed => v.claimed
      /\ u.active /\ ~u.claimed =>
            /\ v.sample = occ
            /\ \/ v.stable = 0
               \/ /\ occ # 0 /\ occ = u.sample
                  /\ v.stable = IF u.stable = StableCycles THEN u.stable ELSE u.stable + 1
  BY <1>2 DEF UiStepped
<1>5. /\ lag[h] \in 0 .. CountLag /\ u.stable \in 0 .. StableCycles /\ u.sample \in 0 .. BankRecords
      /\ v.stable \in 0 .. StableCycles /\ CountLag \in Nat /\ StableCycles \in Nat /\ occ \in Int
      /\ v.active \in BOOLEAN /\ v.claimed \in BOOLEAN /\ u.active \in BOOLEAN /\ u.claimed \in BOOLEAN
  <2>1. v \in UiSide /\ u \in UiSide
    BY <1>1, <1>2, StateTypes DEF UiStepped
  <2> HIDE DEF u, v
  <2> QED
    BY <1>1, <2>1, StateTypes, ReaderFields, Sizes
<1>6. Settling(h)' <=>
        (v.active /\ ~v.claimed =>
           /\ lag'[h] < CountLag => v.stable < lag'[h] \/ (v.stable = 0 /\ v.sample = 0)
           /\ v.stable >= CountLag /\ v.sample # 0 => v.sample = Len(lanes'[h][v.bank]))
  BY DEF Settling
<1>7. CASE ~u.active
  <2>1. v.active => v.sample = 0 /\ v.stable = 0
    BY <1>4, <1>7
  <2> HIDE DEF u, v
  <2> QED
    BY <1>6, <2>1
<1>8. CASE u.active /\ u.claimed
  BY <1>4, <1>6, <1>8
<1>9. CASE u.active /\ ~u.claimed /\ v.active
  <2>1. lanes'[h][k] = lanes[h][k] /\ v.bank = k
    <3>1. Stream(axi) /\ ~Held(h) /\ k \in Banks
      BY <1>1, <1>9, StateTypes, ReaderFields DEF UiEdgeWith, Held
    <3> QED
      BY <1>1, <1>4, <1>9, <3>1, StreamGives DEF Streamed
  <2>2. lag[h] = CountLag => occ = all
    <3>1. lag[h] = CountLag => Counts(h) = {all}
      BY <1>5, <1>9 DEF Counts
    <3> QED
      BY <3>1
  <2>3. lag[h] < CountLag => u.stable < lag[h] \/ (u.stable = 0 /\ u.sample = 0)
    BY <1>1, <1>9 DEF Settling
  <2>4. lag'[h] = IF lag[h] < CountLag THEN lag[h] + 1 ELSE lag[h]
    BY <1>3, <1>9
  <2>5. /\ v.sample = occ
        /\ \/ v.stable = 0
           \/ /\ occ # 0 /\ occ = u.sample
              /\ v.stable = IF u.stable = StableCycles THEN u.stable ELSE u.stable + 1
    BY <1>4, <1>9
  <2> DEFINE l == lag[h]
             m == lag'[h]
             x == u.stable
             y == v.stable
             z == u.sample
             w == v.sample
  <2>6. l \in 0 .. CountLag /\ x \in 0 .. StableCycles /\ y \in 0 .. StableCycles
        /\ CountLag \in Nat /\ StableCycles \in Nat
    BY <1>5
  <2>7. l = CountLag \/ (l < CountLag /\ (x < l \/ (x = 0 /\ z = 0)))
    BY <2>3, <2>6
  <2>8. w = occ /\ (y = 0 \/ (occ # 0 /\ occ = z /\ y <= x + 1))
    <3>1. w = occ /\ (y = 0 \/ (occ # 0 /\ occ = z /\ y = IF x = StableCycles THEN x ELSE x + 1))
      BY <2>5
    <3> HIDE DEF x, y, z, w
    <3> QED
      BY ONLY <2>6, <3>1
  <2>9. m = IF l < CountLag THEN l + 1 ELSE l
    BY <2>4
  <2>10. l = CountLag => occ = all
    BY <2>2
  <2> HIDE DEF l, m, x, y, z, w, all
  <2>11. m < CountLag => y < m \/ (y = 0 /\ w = 0)
    BY ONLY <2>6, <2>7, <2>8, <2>9
  <2>12. y >= CountLag /\ w # 0 => w = all
    BY ONLY <2>6, <2>7, <2>8, <2>10
  <2>13. Len(lanes'[h][v.bank]) = all
    BY <2>1 DEF all
  <2>14. /\ lag'[h] < CountLag => v.stable < lag'[h] \/ (v.stable = 0 /\ v.sample = 0)
         /\ v.stable >= CountLag /\ v.sample # 0 => v.sample = Len(lanes'[h][v.bank])
    BY ONLY <2>11, <2>12, <2>13 DEF l, m, y, w
  <2> QED
    BY ONLY <1>6, <2>14
<1>10. CASE ~v.active
  BY <1>6, <1>10
<1> QED
  BY <1>7, <1>8, <1>9, <1>10

(* The beats and records of a hart's stream, and whose they are.             *)
LEMMA UiEdgeFlow ==
    ASSUME OwnerInv, HandInv, NEW axi, UiEdgeWith(axi), NEW h \in Harts
    PROVE  /\ Flow(h) \in Nat /\ Drawn(h, axi) \in Nat
           /\ Held(h) /\ ~batchDone[h] => Held(h)' /\ Flow(h)' = Flow(h) - Drawn(h, axi)
           /\ ~Held(h)' => child'[h] = <<>> /\ output'[h] = <<>> /\ elastic'[h] = <<>>
           /\ ~Held(h) => Flow(h) = 0 /\ \A b \in Banks : lanes'[h][b] = lanes[h][b]
           /\ ~Held(h) /\ Held(h)' => ui'[h].bank = ui[h].bank /\ BatchValid(ui[h])
                                      /\ Flow(h)' = Len(lanes[h][ui[h].bank])
           /\ Held(h) /\ Flow(h) = 0 => lanes[h][ui[h].bank] = <<>>
<1> DEFINE u == ui[h]
           v == ui'[h]
           k == u.bank
           Le == Load(elastic[h])
           Lo == Load(output[h])
           Lc == Load(child[h])
           l == Len(lanes[h][k])
           Le2 == Load(elastic'[h])
           Lo2 == Load(output'[h])
           Lc2 == Load(child'[h])
           l2 == Len(lanes'[h][k])
           d == Drawn(h, axi)
<1>1. LogTypes /\ Delivers(h)
  BY DEF HandInv
<1>2. Streamed(h, axi)
  BY <1>1, StreamGives DEF UiEdgeWith
<1>3. k \in Banks /\ u.active \in BOOLEAN /\ u.claimed \in BOOLEAN
  BY <1>1, StateTypes, ReaderFields
<1>4. Pair(elastic[h]) /\ Pair(output[h]) /\ Pair(child[h])
  <2>1. Len(child[h]) <= 1 => Len(child[h]) <= 2
    BY <1>1, StateTypes
  <2> QED
    BY <1>1, <2>1, StateTypes DEF Pair
<1>5. /\ Le \in Nat /\ Lo \in Nat /\ Lc \in Nat /\ Le2 \in Nat /\ Lo2 \in Nat /\ Lc2 \in Nat
      /\ l \in Nat /\ l2 \in Nat
  <2>1. Le \in Nat /\ Lo \in Nat /\ Lc \in Nat
    BY <1>4, LoadIs
  <2>2. Le2 \in Nat /\ Lo2 \in Nat /\ Lc2 \in Nat
    BY <1>2, LoadIs DEF Streamed
  <2>3. l \in Nat
    BY <1>1, <1>3, BankTypes
  <2>4. l2 \in Nat
    <3>1. lanes'[h][k] \in Seq(Nat)
      BY <1>2, <1>3 DEF Streamed
    <3> QED
      BY <3>1
  <2> QED
    BY <2>1, <2>2, <2>3, <2>4
<1>6. d \in Nat
  <2>1. Dma!Takes(axi, elastic[h]) => elastic[h] # <<>>
    BY DEF Dma!Takes
  <2>2. elastic[h] # <<>> => Len(Head(elastic[h])) \in Nat
    BY <1>4, LoadTail, BeatSize
  <2> QED
    BY <2>1, <2>2 DEF Drawn
<1>7. Le2 + Lo2 + Lc2 + l2 = (Le + Lo + Lc + l) - d
  <2>1. InStream(h) = Le + Lo + Lc + l
    BY DEF InStream
  <2>2. Le2 + Lo2 + Lc2 + l2 = InStream(h) - d
    BY <1>2 DEF Streamed
  <2> QED
    BY <2>1, <2>2
<1>8. Flow(h) = Le + Lo + Lc + (IF Held(h) THEN l ELSE 0)
  BY DEF Flow
<1>9. Flow(h)' = Le2 + Lo2 + Lc2 + (IF Held(h)' THEN Len(lanes'[h][v.bank]) ELSE 0)
  BY DEF Flow, Load
<1>10. PICK occ : UiStepped(u, ReadyUi(h), SyncOut(ackSync[h]), occ,
                            Dma!Selects(h, Offering), batchDone[h], v)
  BY <1>1, UiEdgeOnFifo
<1>11. /\ Ends(u, batchDone[h]) <=> Held(h) /\ batchDone[h]
       /\ Held(h) <=> u.active /\ u.claimed
       /\ Held(h)' <=> v.active /\ v.claimed
  BY DEF Ends, Held
<1>12. /\ Held(h) /\ ~batchDone[h] => Held(h)' /\ v.bank = k
       /\ ~Held(h) /\ Held(h)' => v.bank = k /\ BatchValid(u)
  <2>1. /\ u.active /\ ~Ends(u, batchDone[h]) =>
             /\ v.active /\ v.bank = u.bank
             /\ v.claimed <=> u.claimed \/ (BatchValid(u) /\ Dma!Selects(h, Offering))
        /\ ~u.active => (v.active => ~v.claimed)
    BY <1>10 DEF UiStepped
  <2> HIDE DEF u, v
  <2> QED
    BY <1>11, <2>1 DEF k
<1>13. ~Held(h) => /\ Le = 0 /\ Lo = 0 /\ Lc = 0
                   /\ \A b \in Banks : lanes'[h][b] = lanes[h][b]
  <2>1. ~Held(h) => elastic[h] = <<>> /\ output[h] = <<>> /\ child[h] = <<>>
    BY <1>1 DEF Delivers
  <2> QED
    BY <1>2, <1>4, <2>1, LoadIs DEF Streamed
<1>14. batchDone[h] => Held(h) /\ Flow(h) = 0
  BY <1>1 DEF Delivers
<1>15. ~Held(h) => l2 = l
  BY <1>3, <1>13
<1>16. l = 0 => lanes[h][k] = <<>>
  <2>1. lanes[h][k] \in Seq(Nat)
    BY <1>1, <1>3, BankTypes
  <2> QED
    BY <2>1
<1>17. /\ Le2 = 0 => elastic'[h] = <<>>
       /\ Lo2 = 0 => output'[h] = <<>>
       /\ Lc2 = 0 => child'[h] = <<>>
  BY <1>2, LoadIs DEF Streamed
<1> DEFINE H == Held(h)
           H2 == Held(h)'
           F == Flow(h)
           F2 == Flow(h)'
           n2 == Len(lanes'[h][v.bank])
           D == batchDone[h]
<1>18. v.bank = k => n2 = l2
  OBVIOUS
<1>19. H \in BOOLEAN /\ H2 \in BOOLEAN /\ D \in BOOLEAN
  BY <1>1, StateTypes DEF Held
<1>20. /\ F = Le + Lo + Lc + (IF H THEN l ELSE 0)
       /\ F2 = Le2 + Lo2 + Lc2 + (IF H2 THEN n2 ELSE 0)
       /\ H /\ ~D => H2 /\ n2 = l2
       /\ ~H /\ H2 => n2 = l2
       /\ ~H => Le = 0 /\ Lo = 0 /\ Lc = 0 /\ l2 = l
       /\ D => H /\ F = 0
  BY <1>8, <1>9, <1>12, <1>13, <1>14, <1>15, <1>18
<1> HIDE DEF H, H2, F, F2, n2, Le, Lo, Lc, l, Le2, Lo2, Lc2, l2, d, D
<1>21. F \in Nat
  BY ONLY <1>5, <1>19, <1>20
<1>22. H /\ ~D => H2 /\ F2 = F - d
  BY ONLY <1>5, <1>6, <1>7, <1>19, <1>20
<1>23. ~H2 => Le2 = 0 /\ Lo2 = 0 /\ Lc2 = 0
  <2>1. CASE ~H
    <3>1. Le2 + Lo2 + Lc2 = 0 - d
      BY ONLY <1>5, <1>6, <1>7, <1>20, <2>1
    <3> QED
      BY ONLY <1>5, <1>6, <3>1
  <2>2. CASE H
    <3>1. ~H2 => Le2 + Lo2 + Lc2 + l2 = 0 - d
      BY ONLY <1>5, <1>6, <1>7, <1>19, <1>20, <2>2
    <3> QED
      BY ONLY <1>5, <1>6, <3>1
  <2> QED
    BY <2>1, <2>2
<1>24. ~H => F = 0
  BY ONLY <1>5, <1>19, <1>20
<1>25. ~H /\ H2 => F2 = l
  <2>1. ~H => Le2 + Lo2 + Lc2 = 0 - d
    BY ONLY <1>5, <1>6, <1>7, <1>20
  <2>2. ~H => Le2 = 0 /\ Lo2 = 0 /\ Lc2 = 0
    BY ONLY <1>5, <1>6, <2>1
  <2> QED
    BY ONLY <1>5, <1>19, <1>20, <2>2
<1>26. H /\ F = 0 => l = 0
  BY ONLY <1>5, <1>19, <1>20
<1> QED
  BY <1>6, <1>12, <1>13, <1>16, <1>17, <1>21, <1>22, <1>23, <1>24, <1>25, <1>26
     DEF H, H2, F, F2, d, D, l

LEMMA UiKeepsContents ==
    ASSUME OwnerInv, HandInv, NEW axi, UiEdgeWith(axi), NEW h \in Harts, NEW b \in Banks
    PROVE  Contents(h, b)'
<1> DEFINE u == ui[h]
           v == ui'[h]
<1>1. LogTypes /\ Contents(h, b) /\ ReadyChain(h, b) /\ Delivers(h)
  BY DEF HandInv, BankInv
<1>2. Streamed(h, axi)
  BY <1>1, StreamGives DEF UiEdgeWith
<1>3. /\ OnItsWay(h, b)' <=> OnItsWay(h, b) \/ b \in v.release
      /\ b \in v.release => Ends(u, batchDone[h]) /\ Picked(h, b) /\ ~Picked(h, b)'
      /\ Picked(h, b) => b \in v.release \/ Picked(h, b)'
      /\ Picked(h, b)' /\ ~Picked(h, b) => ~v.claimed
  BY UiKeepsChains
<1>4. side' = side
  BY DEF UiEdgeWith, coreVars
<1>5. /\ Picked(h, b) <=> u.active /\ u.bank = b
      /\ Held(h) <=> u.active /\ u.claimed
      /\ lanes[h][b] = <<>> => lanes'[h][b] = <<>>
      /\ b # u.bank \/ ~Held(h) => lanes'[h][b] = lanes[h][b]
  BY <1>2 DEF Picked, Held, Streamed
<1>6. ASSUME b \in v.release PROVE lanes[h][b] = <<>>
  <2>1. Held(h) /\ batchDone[h] /\ u.bank = b
    BY <1>3, <1>5, <1>6 DEF Ends
  <2>2. Flow(h) = 0
    BY <1>1, <2>1 DEF Delivers
  <2> QED
    BY <2>1, <2>2, UiEdgeFlow
<1>7. OnItsWay(h, b)' => lanes'[h][b] = <<>>
  <2>1. OnItsWay(h, b) => lanes[h][b] = <<>>
    BY <1>1 DEF Contents
  <2> QED
    BY <1>3, <1>5, <1>6, <2>1
<1>8. ASSUME ~OnItsWay(h, b)', ~(Picked(h, b)' /\ v.claimed)
      PROVE  Len(lanes'[h][b]) = side[h].count[b]
  <2>1. ~OnItsWay(h, b) /\ b \notin v.release
    BY <1>3, <1>8
  <2>2. Picked(h, b) => ~u.claimed
    <3> SUFFICES ASSUME Picked(h, b), u.claimed PROVE FALSE
      OBVIOUS
    <3>1. Held(h) /\ Picked(h, b)'
      BY <1>3, <1>5, <2>1
    <3>2. ~batchDone[h]
      <4>1. PICK occ : UiStepped(u, ReadyUi(h), SyncOut(ackSync[h]), occ,
                                 Dma!Selects(h, Offering), batchDone[h], v)
        BY <1>1, UiEdgeOnFifo
      <4>2. Ends(u, batchDone[h]) => ~v.active
        BY <4>1 DEF UiStepped
      <4> QED
        BY <3>1, <4>2 DEF Ends, Held, Picked
    <3>3. v.claimed
      BY <3>1, <3>2, UiEdgeFlow DEF Held
    <3> QED
      BY <1>8, <3>1, <3>3
  <2>3. Len(lanes[h][b]) = side[h].count[b]
    BY <1>1, <2>1, <2>2 DEF Contents
  <2>4. lanes'[h][b] = lanes[h][b]
    BY <1>5, <2>2
  <2> QED
    BY <2>3, <2>4
<1>9. (Picked(h, b) /\ ui[h].claimed)' <=> Picked(h, b)' /\ v.claimed
  OBVIOUS
<1> QED
  BY <1>4, <1>7, <1>8, <1>9 DEF Contents

(* ------------------------------- the DMA --------------------------------- *)

LEMMA UiKeepsDelivers ==
    ASSUME OwnerInv, HandInv, NEW axi, UiEdgeWith(axi), NEW h \in Harts
    PROVE  Delivers(h)'
<1> DEFINE F == Flow(h)
           F2 == Flow(h)'
           d == Drawn(h, axi)
           H == Held(h)
           H2 == Held(h)'
           owed == remaining - IF state \in {"W", "B"} THEN sent ELSE 0
           owed2 == remaining' - IF state' \in {"W", "B"} THEN sent' ELSE 0
<1>1. LogTypes /\ Delivers(h) /\ Settling(h)
  BY DEF HandInv
<1>2. /\ F \in Nat /\ d \in Nat
      /\ H /\ ~batchDone[h] => H2 /\ F2 = F - d
      /\ ~H2 => child'[h] = <<>> /\ output'[h] = <<>> /\ elastic'[h] = <<>>
      /\ ~H => F = 0
      /\ ~H /\ H2 => BatchValid(ui[h]) /\ F2 = Len(lanes[h][ui[h].bank])
  BY UiEdgeFlow
<1>3. /\ activeHart \in {0, 1} /\ h \in {0, 1}
      /\ state # "IDLE" /\ activeHart = h => H /\ ~batchDone[h]
  BY DEF OwnerInv, Harts
<1>4. /\ state # "IDLE" /\ activeHart = h => F = owed
      /\ state = "AW" /\ activeHart = h => sent = 0
      /\ state = "B" /\ activeHart = h => total = sent
  BY <1>1 DEF Delivers
<1>5. remaining \in Nat /\ sent \in Nat /\ total \in Nat
  BY <1>1 DEF LogTypes
<1>6. state # "W" => d = 0
  BY DEF Drawn, Dma!Takes
<1>7. Dma!DmaStep(Offering, [g \in Harts |-> ui[g].sample], axi, elastic)
  BY DEF UiEdgeWith
<1>8. SUFFICES /\ batchDone'[h] => H2 /\ F2 = 0
               /\ state' # "IDLE" /\ activeHart' = h =>
                     F2 = owed2 /\ (state' = "AW" => sent' = 0) /\ (state' = "B" => total' = sent')
  BY <1>2 DEF Delivers
<1> USE DEF Dma!Harts, Harts, Dma!Other, Dma!NoneDone
<1> HIDE DEF F, F2, d, H, H2
<1>9. CASE Dma!DmaIdle(Offering)
  BY <1>3, <1>9 DEF Dma!DmaIdle
<1>10. ASSUME NEW g \in Harts,
              Dma!DmaClaim(g, Offering, [k \in Harts |-> ui[k].sample][g])
       PROVE  /\ batchDone'[h] => H2 /\ F2 = 0
              /\ state' # "IDLE" /\ activeHart' = h =>
                    F2 = owed2 /\ (state' = "AW" => sent' = 0) /\ (state' = "B" => total' = sent')
  <2>1. /\ Dma!Selects(g, Offering) /\ activeHart' = g /\ state' = "PLAN"
        /\ batchDone' = [k \in {0, 1} |-> FALSE] /\ remaining' = ui[g].sample
    BY <1>10 DEF Dma!DmaClaim
  <2>2. ~batchDone'[h]
    BY <1>3, <2>1
  <2>3. ASSUME g = h PROVE F2 = ui[h].sample
    <3>1. BatchValid(ui[h]) /\ ~H /\ H2
      BY <2>1, <2>3, UiEdgeKeeps DEF Dma!Selects, Offering, BatchValid, Held, H, H2
    <3>2. F2 = Len(lanes[h][ui[h].bank])
      BY <1>2, <3>1
    <3>3. ui[h].active /\ ~ui[h].claimed /\ ui[h].stable = StableCycles /\ ui[h].sample # 0
      BY <3>1 DEF BatchValid
    <3>4. StableCycles >= CountLag
      BY Sizes
    <3>5. ui[h].sample = Len(lanes[h][ui[h].bank])
      BY <1>1, <3>3, <3>4 DEF Settling
    <3> QED
      BY <3>2, <3>5
  <2>4. ui[g].sample \in Nat
    <3>1. ui[g].sample \in 0 .. BankRecords
      BY <1>1, StateTypes, ReaderFields
    <3> QED
      BY <3>1, Sizes
  <2>5. owed2 = ui[g].sample
    BY <2>1, <2>4
  <2> QED
    BY <2>1, <2>2, <2>3, <2>5
<1>11. CASE Dma!DmaPlan
  <2>1. /\ state \in {"PLAN", "LIMIT"} /\ state' \in {"LIMIT", "CHECK"}
        /\ batchDone' = [k \in {0, 1} |-> FALSE] /\ activeHart' = activeHart
        /\ remaining' = remaining
    BY <1>11 DEF Dma!DmaPlan
  <2>2. ~batchDone'[h]
    BY <1>3, <2>1
  <2>3. owed2 = remaining /\ owed = remaining
    BY <1>5, <2>1
  <2>4. activeHart = h => F2 = F
    BY <1>2, <1>3, <1>6, <2>1
  <2> QED
    BY <1>4, <2>1, <2>2, <2>3, <2>4
<1>12. CASE Dma!DmaCheck
  <2>1. /\ state = "CHECK" /\ state' \in {"IDLE", "AW"} /\ (state' = "AW" => sent' = 0)
        /\ batchDone' = [k \in {0, 1} |-> FALSE] /\ activeHart' = activeHart
        /\ remaining' = remaining
    BY <1>12 DEF Dma!DmaCheck
  <2>2. ~batchDone'[h]
    BY <1>3, <2>1
  <2>3. owed2 = remaining /\ owed = remaining
    BY <1>5, <2>1
  <2>4. activeHart = h => F2 = F
    BY <1>2, <1>3, <1>6, <2>1
  <2> QED
    BY <1>4, <2>1, <2>2, <2>3, <2>4
<1>13. CASE Dma!DmaAddress(axi)
  <2>1. /\ state = "AW" /\ state' \in {"W", "AW"} /\ sent' = sent
        /\ batchDone' = [k \in {0, 1} |-> FALSE] /\ activeHart' = activeHart
        /\ remaining' = remaining
    BY <1>13 DEF Dma!DmaAddress
  <2>2. ~batchDone'[h]
    BY <1>3, <2>1
  <2>3. activeHart = h => owed2 = remaining /\ owed = remaining /\ sent' = 0
    BY <1>4, <1>5, <2>1
  <2>4. activeHart = h => F2 = F
    BY <1>2, <1>3, <1>6, <2>1
  <2> QED
    BY <1>4, <2>1, <2>2, <2>3, <2>4
<1>14. CASE Dma!DmaData(axi, elastic[activeHart])
  <2> DEFINE now == sent + Len(Head(elastic[activeHart]))
  <2>1. /\ state = "W" /\ state' \in {"W", "B"} /\ sent' = now /\ (state' = "B" => total' = now)
        /\ batchDone' = [k \in {0, 1} |-> FALSE] /\ activeHart' = activeHart
        /\ remaining' = remaining
        /\ Dma!Takes(axi, elastic[activeHart])
    <3> DEFINE last == beatIndex = burstBeats - 1
    <3>1. /\ Dma!Takes(axi, elastic[activeHart]) /\ sent' = now
          /\ total' = IF last THEN now ELSE total
          /\ state' = IF last THEN "B" ELSE "W"
          /\ activeHart' = activeHart /\ remaining' = remaining
      BY <1>14 DEF Dma!DmaData
    <3>2. batchDone' = [k \in {0, 1} |-> FALSE]
      BY <1>14 DEF Dma!DmaData
    <3> HIDE DEF now, last
    <3> QED
      BY <3>1, <3>2 DEF Dma!Takes
  <2>2. ~batchDone'[h]
    BY <1>3, <2>1
  <2>3. activeHart = h => now = sent + d
    BY <2>1 DEF d, Drawn
  <2> HIDE DEF now
  <2>4. activeHart = h => owed2 = remaining - (sent + d) /\ owed = remaining - sent
    BY <2>1, <2>3
  <2>5. activeHart = h => F2 = F - d
    BY <1>2, <1>3, <2>1
  <2>6. activeHart = h => F2 = owed2
    <3> HIDE DEF owed, owed2
    <3>1. activeHart = h => F = remaining - sent /\ owed2 = remaining - (sent + d) /\ F2 = F - d
      BY <1>4, <2>1, <2>4, <2>5
    <3> QED
      BY ONLY <1>2, <1>5, <3>1
  <2> QED
    BY <2>1, <2>2, <2>6
<1>15. CASE Dma!DmaWait(axi, elastic[activeHart])
  <2>1. /\ state \in {"W", "B"} /\ ~Dma!Takes(axi, elastic[activeHart])
        /\ state' = state /\ sent' = sent /\ total' = total
        /\ batchDone' = [k \in {0, 1} |-> FALSE] /\ activeHart' = activeHart
        /\ remaining' = remaining
    BY <1>15 DEF Dma!DmaWait, Dma!Takes
  <2>2. ~batchDone'[h]
    BY <1>3, <2>1
  <2>3. activeHart = h => d = 0
    BY <2>1 DEF d, Drawn
  <2>4. activeHart = h => F2 = F
    BY <1>2, <1>3, <2>1, <2>3
  <2>5. owed2 = owed
    BY <2>1
  <2> HIDE DEF owed, owed2
  <2> QED
    BY <1>4, <2>1, <2>2, <2>4, <2>5
<1>16. CASE Dma!DmaFail(axi)
  <2>1. state' = "IDLE" /\ batchDone' = [k \in {0, 1} |-> FALSE]
    BY <1>16 DEF Dma!DmaFail
  <2> QED
    BY <1>3, <2>1
<1>17. CASE Dma!DmaBurst(axi)
  <2> DEFINE whole == total >= remaining
  <2>1. /\ state = "B" /\ state' = IF whole THEN "IDLE" ELSE "PLAN"
        /\ batchDone' = [k \in {0, 1} |-> whole /\ k = activeHart]
        /\ activeHart' = IF whole THEN 1 - activeHart ELSE activeHart
        /\ remaining' = IF whole THEN remaining ELSE remaining - total
    BY <1>17 DEF Dma!DmaBurst
  <2>2. activeHart = h => F = remaining - sent /\ total = sent /\ H2 /\ F2 = F
    BY <1>2, <1>3, <1>4, <1>6, <2>1
  <2>3. batchDone'[h] => whole /\ activeHart = h
    BY <1>3, <2>1
  <2>4. batchDone'[h] => H2 /\ F2 = 0
    BY <1>2, <1>5, <2>2, <2>3
  <2>5. state' # "IDLE" => state' = "PLAN" /\ activeHart' = activeHart /\ remaining' = remaining - total
    BY <2>1
  <2>6. state' = "PLAN" => owed2 = remaining'
    BY <1>5, <2>5
  <2>7. state' # "IDLE" /\ activeHart' = h => F2 = remaining'
    BY <2>2, <2>5
  <2> HIDE DEF owed, owed2
  <2> QED
    BY <2>4, <2>5, <2>6, <2>7
<1> QED
  BY <1>7, <1>9, <1>10, <1>11, <1>12, <1>13, <1>14, <1>15, <1>16, <1>17 DEF Dma!DmaStep

LEMMA DmaTypes ==
    ASSUME LogTypes, activeHart \in Harts, NEW axi,
           Dma!DmaStep(Offering, [g \in Harts |-> ui[g].sample], axi, elastic)
    PROVE  /\ remaining' \in Nat /\ sent' \in Nat /\ total' \in Nat
           /\ batchDone' \in [Harts -> BOOLEAN]
<1> USE DEF Dma!Harts, Harts, Dma!NoneDone
<1>1. remaining \in Nat /\ sent \in Nat /\ total \in Nat
  BY DEF LogTypes
<1>2. CASE Dma!DmaIdle(Offering)
  BY <1>1, <1>2 DEF Dma!DmaIdle
<1>3. ASSUME NEW g \in Harts,
             Dma!DmaClaim(g, Offering, [k \in Harts |-> ui[k].sample][g])
      PROVE  /\ remaining' \in Nat /\ sent' \in Nat /\ total' \in Nat
             /\ batchDone' \in [Harts -> BOOLEAN]
  <2>1. ui[g].sample \in Nat
    <3>1. ui[g].sample \in 0 .. BankRecords
      BY StateTypes, ReaderFields
    <3> QED
      BY <3>1, Sizes
  <2>2. remaining' = ui[g].sample /\ sent' = sent /\ total' = total
    BY <1>3 DEF Dma!DmaClaim
  <2>3. batchDone' \in [Harts -> BOOLEAN]
    BY <1>3 DEF Dma!DmaClaim
  <2> QED
    BY <1>1, <2>1, <2>2, <2>3
<1>4. CASE Dma!DmaPlan
  BY <1>1, <1>4 DEF Dma!DmaPlan
<1>5. CASE Dma!DmaCheck
  BY <1>1, <1>5 DEF Dma!DmaCheck
<1>6. CASE Dma!DmaAddress(axi)
  BY <1>1, <1>6 DEF Dma!DmaAddress
<1>7. CASE Dma!DmaData(axi, elastic[activeHart])
  <2> DEFINE e == elastic[activeHart]
             m == Len(Head(e))
             last == beatIndex = burstBeats - 1
  <2>1. e # <<>> /\ sent' = sent + m /\ total' = (IF last THEN sent + m ELSE total)
        /\ remaining' = remaining
    BY <1>7 DEF Dma!DmaData, Dma!Takes
  <2>2. batchDone' \in [Harts -> BOOLEAN]
    BY <1>7 DEF Dma!DmaData
  <2>3. m \in Nat
    <3>1. Pair(e)
      BY StateTypes DEF Pair
    <3> HIDE DEF e
    <3> QED
      BY <2>1, <3>1, LoadTail, BeatSize
  <2> HIDE DEF m, last
  <2> QED
    BY <1>1, <2>1, <2>2, <2>3
<1>8. CASE Dma!DmaWait(axi, elastic[activeHart])
  BY <1>1, <1>8 DEF Dma!DmaWait
<1>9. CASE Dma!DmaFail(axi)
  BY <1>1, <1>9 DEF Dma!DmaFail
<1>10. CASE Dma!DmaBurst(axi)
  <2> DEFINE whole == total >= remaining
  <2>1. /\ remaining' = (IF whole THEN remaining ELSE remaining - total)
        /\ sent' = sent /\ total' = total
    BY <1>10 DEF Dma!DmaBurst
  <2>2. batchDone' = [k \in Harts |-> whole /\ k = activeHart]
    BY <1>10 DEF Dma!DmaBurst
  <2>3. remaining' \in Nat
    BY <1>1, <2>1
  <2> QED
    BY <1>1, <2>1, <2>2, <2>3
<1> QED
  BY <1>2, <1>3, <1>4, <1>5, <1>6, <1>7, <1>8, <1>9, <1>10 DEF Dma!DmaStep

LEMMA UiKeepsTypes ==
    ASSUME OwnerInv, HandInv, NEW axi, UiEdgeWith(axi)
    PROVE  LogTypes'
<1>1. LogTypes /\ activeHart \in Harts
  BY DEF HandInv, OwnerInv
<1>2. produced' = produced /\ queue' = queue /\ side' = side /\ pipelineDone' = pipelineDone
      /\ releaseSync' = releaseSync
  BY DEF UiEdgeWith, coreVars
<1>3. /\ remaining' \in Nat /\ sent' \in Nat /\ total' \in Nat
      /\ batchDone' \in [Harts -> BOOLEAN]
  BY <1>1, DmaTypes DEF UiEdgeWith
<1>4. ui' \in [Harts -> UiSide]
  <2>1. \A h \in Harts : ui'[h] \in UiSide
    BY <1>1, UiEdgeOnFifo DEF UiStepped
  <2>2. ui' = [h \in Harts |-> ui'[h]]
    BY DEF UiEdgeWith
  <2> QED
    BY <2>1, <2>2
<1>5. lanes' \in [Harts -> [Banks -> Seq(Nat)]]
  <2>1. \A h \in Harts : \A b \in Banks : lanes'[h][b] \in Seq(Nat)
    BY <1>1, StreamGives DEF UiEdgeWith, Streamed
  <2>2. lanes' = [h \in Harts |-> [b \in Banks |-> lanes'[h][b]]]
    BY DEF UiEdgeWith, Stream
  <2> QED
    BY <2>1, <2>2
<1>6. readySync' \in [Harts -> [Banks -> Chain(BOOLEAN)]]
  <2>1. ASSUME NEW h \in Harts, NEW b \in Banks PROVE readySync'[h][b] \in Chain(BOOLEAN)
    <3> DEFINE s == readySync[h][b]
    <3>1. s \in Chain(BOOLEAN) /\ s[1] \in BOOLEAN
      BY <1>1, BankTypes
    <3>2. readySync'[h][b] = Shift(s, s[1]) \/ readySync'[h][b] = Shift(s, b \in side[h].ready)
      BY <1>1, UiEdgeOnFifo
    <3>3. (b \in side[h].ready) \in BOOLEAN
      OBVIOUS
    <3>4. Shift(s, s[1]) \in Chain(BOOLEAN)
      BY <3>1, ShiftGives
    <3>5. Shift(s, b \in side[h].ready) \in Chain(BOOLEAN)
      BY <3>1, <3>3, ShiftGives
    <3> QED
      BY <3>2, <3>4, <3>5
  <2>2. readySync' = [h \in Harts |-> [b \in Banks |-> readySync'[h][b]]]
    BY DEF UiEdgeWith
  <2> QED
    BY <2>1, <2>2
<1>7. ackSync' \in [Harts -> Chain(BOOLEAN)]
  <2>1. ASSUME NEW h \in Harts PROVE ackSync'[h] \in Chain(BOOLEAN)
    <3> DEFINE s == ackSync[h]
               x == side[h].flushAck
    <3>1. s \in Chain(BOOLEAN) /\ s[1] \in BOOLEAN
      BY <1>1 DEF LogTypes, Chain, Stages
    <3>2. x \in BOOLEAN
      BY <1>1, StateTypes, SideFields
    <3>3. ackSync'[h] = Shift(s, s[1]) \/ ackSync'[h] = Shift(s, x)
      BY <1>1, UiEdgeOnFifo
    <3> HIDE DEF s, x
    <3> QED
      BY <3>1, <3>2, <3>3, ShiftGives
  <2>2. ackSync' = [h \in Harts |-> ackSync'[h]]
    BY DEF UiEdgeWith
  <2> QED
    BY <2>1, <2>2
<1>8. doneSync' \in Chain(BOOLEAN) /\ pipelineDone \in BOOLEAN
  <2>1. doneSync \in Chain(BOOLEAN) /\ doneSync[1] \in BOOLEAN /\ pipelineDone \in BOOLEAN
    BY <1>1 DEF LogTypes, Chain, Stages
  <2>2. doneSync' = Shift(doneSync, doneSync[1]) \/ doneSync' = Shift(doneSync, pipelineDone)
    <3>1. 0 \in Harts
      BY DEF Harts
    <3> QED
      BY <1>1, <3>1, UiEdgeOnFifo
  <2> QED
    BY <2>1, <2>2, ShiftGives
<1>9. releaseSource' \in [Harts -> [Banks -> EventSource]]
  <2>1. ASSUME NEW h \in Harts, NEW b \in Banks PROVE releaseSource'[h][b] \in EventSource
    <3> DEFINE e == b \in ui[h].release
    <3>1. releaseSource'[h][b] = SourceStep(releaseSource[h][b], e)
      BY <1>1, UiEdgeOnFifo
    <3>2. releaseSource[h][b] \in EventSource /\ e \in BOOLEAN
      BY <1>1, BankTypes
    <3> HIDE DEF e
    <3> QED
      BY <3>1, <3>2, SourceStepGives
  <2>2. releaseSource' = [h \in Harts |-> [b \in Banks |-> releaseSource'[h][b]]]
    BY DEF UiEdgeWith
  <2> QED
    BY <2>1, <2>2
<1>10. lag' \in [Harts -> 0 .. CountLag]
  <2>1. ASSUME NEW h \in Harts PROVE lag'[h] \in 0 .. CountLag
    <3>1. lag[h] \in 0 .. CountLag /\ CountLag \in Nat
      BY <1>1, StateTypes, Sizes
    <3>2. lag'[h] = IF ~ui[h].active THEN 0 ELSE IF lag[h] < CountLag THEN lag[h] + 1 ELSE lag[h]
      BY <1>1, UiEdgeOnFifo
    <3> QED
      BY <3>1, <3>2
  <2>2. lag' = [h \in Harts |-> lag'[h]]
    BY DEF UiEdgeWith
  <2> QED
    BY <2>1, <2>2
<1>11. /\ child' \in [Harts -> Seq(Beats)] /\ output' \in [Harts -> Seq(Beats)]
       /\ elastic' \in [Harts -> Seq(Beats)]
       /\ \A h \in Harts : Len(child'[h]) <= 1 /\ Len(output'[h]) <= 2 /\ Len(elastic'[h]) <= 2
  <2>1. \A h \in Harts : /\ Pair(child'[h]) /\ Pair(output'[h]) /\ Pair(elastic'[h])
                         /\ Len(child'[h]) <= 1
    BY <1>1, StreamGives DEF UiEdgeWith, Streamed
  <2>2. child' = [h \in Harts |-> child'[h]] /\ output' = [h \in Harts |-> output'[h]]
        /\ elastic' = [h \in Harts |-> elastic'[h]]
    BY DEF UiEdgeWith, Stream
  <2> QED
    BY <2>1, <2>2 DEF Pair
<1> QED
  BY <1>1, <1>2, <1>3, <1>4, <1>5, <1>6, <1>7, <1>8, <1>9, <1>10, <1>11 DEF LogTypes

LEMMA UiKeepsHand ==
    ASSUME OwnerInv, HandInv, NEW axi, UiEdgeWith(axi)
    PROVE  HandInv'
<1>1. ASSUME NEW h \in Harts PROVE Frozen(h)' /\ Settling(h)' /\ Delivers(h)'
  <2>1. side' = side /\ Frozen(h)
    BY DEF UiEdgeWith, coreVars, HandInv
  <2> QED
    BY <2>1, UiKeepsSettling, UiKeepsDelivers DEF Frozen
<1>2. ASSUME NEW h \in Harts PROVE BankInv(h)'
  BY UiKeepsChains, UiKeepsContents DEF BankInv
<1> QED
  BY <1>1, <1>2, UiKeepsTypes DEF HandInv

LEMMA HandInit == Init => HandInv
<1> SUFFICES ASSUME Init PROVE HandInv
  OBVIOUS
<1>1. CoreReset \in CoreSide /\ UiReset \in UiSide
  <2>1. 0 \in Banks /\ 0 \in 0 .. BankRecords /\ 0 \in 0 .. StableCycles /\ 0 \in 0 .. FlushGuard
    BY Sizes
  <2> QED
    BY <2>1 DEF CoreReset, CoreSide, UiReset, UiSide
<1>2. /\ ChainOf(0) \in Chain(Bit) /\ ChainOf(FALSE) \in Chain(BOOLEAN)
      /\ [last |-> FALSE, toggle |-> 0] \in EventSource
      /\ \A i \in {1, 2, 3} : ChainOf(0)[i] = 0 /\ ChainOf(FALSE)[i] = FALSE
  BY DEF ChainOf, Chain, Stages, Bit, EventSource
<1>3. LogTypes
  <2>1. 0 \in 0 .. CountLag
    BY Sizes
  <2>2. <<>> \in Seq(Nat) /\ <<>> \in Seq(Beats) /\ Len(<<>>) = 0
    OBVIOUS
  <2> HIDE DEF Harts, Beats
  <2>3. /\ produced \in [Harts -> Nat] /\ queue \in [Harts -> Seq(Nat)]
        /\ lanes \in [Harts -> [Banks -> Seq(Nat)]]
        /\ lag \in [Harts -> 0 .. CountLag]
        /\ pipelineDone \in BOOLEAN
    BY <2>1, <2>2 DEF Init
  <2>4. /\ side \in [Harts -> CoreSide] /\ ui \in [Harts -> UiSide]
        /\ readySync \in [Harts -> [Banks -> Chain(BOOLEAN)]]
        /\ releaseSync \in [Harts -> [Banks -> Chain(Bit)]]
        /\ releaseSource \in [Harts -> [Banks -> EventSource]]
        /\ doneSync \in Chain(BOOLEAN) /\ ackSync \in [Harts -> Chain(BOOLEAN)]
    BY <1>1, <1>2 DEF Init
  <2>5. /\ child \in [Harts -> Seq(Beats)] /\ output \in [Harts -> Seq(Beats)]
        /\ elastic \in [Harts -> Seq(Beats)]
        /\ \A h \in Harts : Len(child[h]) <= 1 /\ Len(output[h]) <= 2 /\ Len(elastic[h]) <= 2
    BY <2>2 DEF Init
  <2>6. batchDone \in [Harts -> BOOLEAN] /\ remaining \in Nat /\ sent \in Nat /\ total \in Nat
    BY DEF Init, Dma!DmaInit, Dma!Harts, Harts
  <2> QED
    BY <2>3, <2>4, <2>5, <2>6 DEF LogTypes
<1>4. ASSUME NEW h \in Harts PROVE Frozen(h) /\ Settling(h) /\ Delivers(h)
  <2>1. /\ side[h] = CoreReset /\ ui[h] = UiReset /\ child[h] = <<>> /\ output[h] = <<>>
        /\ elastic[h] = <<>> /\ state = "IDLE"
    BY DEF Init, Dma!DmaInit
  <2>2. ~batchDone[h]
    BY DEF Init, Dma!DmaInit, Dma!Harts, Harts
  <2> QED
    BY <2>1, <2>2 DEF Frozen, Settling, Delivers, CoreReset, UiReset
<1>5. ASSUME NEW h \in Harts, NEW b \in Banks
      PROVE  ReadyChain(h, b) /\ ReleaseChain(h, b) /\ Contents(h, b)
  <2>1. /\ side[h] = CoreReset /\ ui[h] = UiReset /\ lanes[h][b] = <<>>
        /\ releaseSource[h][b].toggle = 0 /\ side[h].count[b] = 0
        /\ \A i \in {1, 2, 3} : ~readySync[h][b][i] /\ releaseSync[h][b][i] = 0
    BY <1>2 DEF Init, CoreReset
  <2>2. ~Picked(h, b) /\ ~OnItsWay(h, b) /\ b \notin side[h].ready
    BY <2>1 DEF Picked, OnItsWay, UiReset, CoreReset
  <2> QED
    BY <2>1, <2>2 DEF ReadyChain, ReleaseChain, Contents, UiReset
<1> QED
  BY <1>3, <1>4, <1>5 DEF HandInv, BankInv

LEMMA HandNext == ASSUME OwnerInv, HandInv, [Next]_vars PROVE HandInv'
<1>1. CASE CoreEdge
  BY <1>1, CoreKeepsHand
<1>2. CASE UiEdge
  BY <1>2, UiKeepsHand DEF UiEdge
<1>3. CASE UNCHANGED vars
  <2>1. UNCHANGED <<produced, queue, pipelineDone, side, releaseSync, lanes, ui, readySync, ackSync,
                    doneSync, releaseSource, lag, child, output, elastic>>
    BY <1>3 DEF vars, coreVars, sharedVars, uiVars
  <2>2. UNCHANGED <<state, activeHart, remaining, sent, total, batchDone>>
    BY <1>3 DEF vars, dmaVars
  <2>3. LogTypes'
    BY <2>1, <2>2 DEF HandInv, LogTypes
  <2>4. ASSUME NEW h \in Harts PROVE Frozen(h)' /\ Settling(h)'
    BY <2>1 DEF HandInv, Frozen, Settling
  <2>5. ASSUME NEW h \in Harts PROVE Delivers(h)'
    <3>1. Delivers(h) /\ (Held(h)' <=> Held(h)) /\ Flow(h)' = Flow(h)
      BY <2>1 DEF HandInv, Held, Flow, Load
    <3> QED
      BY <2>1, <2>2, <3>1 DEF Delivers
  <2>6. ASSUME NEW h \in Harts PROVE BankInv(h)'
    BY <2>1 DEF HandInv, BankInv, ReadyChain, ReleaseChain, Contents, Picked, OnItsWay
  <2> QED
    BY <2>3, <2>4, <2>5, <2>6 DEF HandInv
<1> QED
  BY <1>1, <1>2, <1>3 DEF Next

(* The two registers that say who owns a bank, its READY level on its way to *)
(* the reader and its release on the way back, agree in every state with     *)
(* what the bank and the stream behind it hold.                              *)
THEOREM HandInvariant == Spec => []HandInv
<1>1. OwnerInv /\ HandInv /\ [Next]_vars => HandInv'
  BY HandNext
<1> QED
  BY HandInit, OwnerInvariant, <1>1, PTL DEF Spec

(* A bank that the reader has picked is frozen until its release has crossed *)
(* to the writer, the writer never selects a frozen bank, and any other bank *)
(* holds as many records as the writer counts: none is left behind by a DMA  *)
(* that returned the bank (info_fifo_pingpong_4w2r.sv, write and read side). *)
THEOREM BanksHandedOver == Spec => []BankHandedOver
<1>1. HandInv => BankHandedOver
  <2> SUFFICES ASSUME HandInv, NEW h \in Harts
               PROVE  /\ ui[h].active => ui[h].bank \in (side[h].owned \cap side[h].ready)
                      /\ side[h].valid => side[h].bank \notin side[h].owned
                      /\ \A b \in Banks \ side[h].owned : Len(lanes[h][b]) = side[h].count[b]
    BY DEF BankHandedOver
  <2>1. LogTypes /\ Frozen(h) /\ BankInv(h)
    BY DEF HandInv
  <2>2. ui[h].bank \in Banks
    BY <2>1, StateTypes, ReaderFields
  <2>3. ui[h].active => ui[h].bank \in side[h].ready
    BY <2>1, <2>2 DEF BankInv, ReadyChain, Picked
  <2>4. ASSUME NEW b \in Banks \ side[h].owned PROVE Len(lanes[h][b]) = side[h].count[b]
    <3>1. ~Picked(h, b) /\ ~OnItsWay(h, b)
      BY <2>1 DEF BankInv, ReadyChain, Frozen
    <3> QED
      BY <2>1, <3>1 DEF BankInv, Contents
  <2> QED
    BY <2>1, <2>3, <2>4 DEF Frozen
<1> QED
  BY HandInvariant, <1>1, PTL

(* The record count that crosses to the UI clock on its own is that of the   *)
(* frozen bank whenever the bank is offered to the DMA, since it has been    *)
(* seen unchanged for longer than it can be late.                            *)
THEOREM BatchesExact == Spec => []BatchIsExact
<1>1. HandInv => BatchIsExact
  <2> SUFFICES ASSUME HandInv, NEW h \in Harts, BatchValid(ui[h])
               PROVE  ui[h].sample = side[h].count[ui[h].bank]
    BY DEF BatchIsExact
  <2> DEFINE b == ui[h].bank
  <2>1. LogTypes /\ Settling(h) /\ BankInv(h)
    BY DEF HandInv
  <2>2. b \in Banks
    BY <2>1, StateTypes, ReaderFields
  <2>3. ui[h].active /\ ~ui[h].claimed /\ ui[h].stable >= CountLag /\ ui[h].sample # 0
    BY Sizes DEF BatchValid
  <2>4. ui[h].sample = Len(lanes[h][b])
    BY <2>1, <2>3 DEF Settling
  <2>5. Picked(h, b) /\ ~OnItsWay(h, b)
    BY <2>1, <2>2, <2>3 DEF BankInv, ReadyChain, Picked
  <2> QED
    BY <2>1, <2>2, <2>3, <2>4, <2>5 DEF BankInv, Contents
<1> QED
  BY HandInvariant, <1>1, PTL
(* ------------------------------- its bursts ------------------------------ *)

(* The plan of a burst starts where the region of its hart stands, and the   *)
(* address follows the beats.                                                *)
BurstInv ==
    /\ state \in Dma!DmaStates /\ activeHart \in Harts
    /\ address \in [Harts -> Nat] /\ planAddress \in Nat
    /\ burstBeats \in Nat /\ beatIndex \in Nat
    /\ state \in {"PLAN", "LIMIT", "CHECK"} => planAddress = address[activeHart]
    /\ state \in {"CHECK", "AW", "W", "B"} => (planAddress % PageBeats) + burstBeats <= PageBeats
    /\ state \in {"AW", "W", "B"} =>
          /\ burstBeats # 0 /\ planAddress + burstBeats <= RegionBeats
          /\ address[activeHart] = planAddress + (IF state = "B" THEN burstBeats ELSE beatIndex)
    /\ state = "AW" => beatIndex = 0
    /\ state = "W" => beatIndex < burstBeats

LEMMA PlanFits ==
    ASSUME remaining \in Nat, planAddress \in Nat
    PROVE  /\ Dma!PlannedBeats \in Nat
           /\ (planAddress % PageBeats) + Dma!PlannedBeats <= PageBeats
<1> DEFINE whole == (remaining + 1) \div 2
           within == planAddress % PageBeats
           page == PageBeats - within
<1>1. whole \in Nat
  OBVIOUS
<1>2. PageBeats \in Nat /\ PageBeats > 0
  BY LogWriteAssumption DEF LogWriteAssumption
<1>3. within \in 0 .. PageBeats - 1
  BY <1>2
<1>4. Dma!PlannedBeats = IF whole > page THEN page ELSE whole
  BY DEF Dma!PlannedBeats
<1> HIDE DEF whole, within
<1>5. Dma!PlannedBeats \in Nat /\ within + Dma!PlannedBeats <= PageBeats
  BY <1>1, <1>2, <1>3, <1>4
<1> QED
  BY <1>5 DEF within

LEMMA DmaKeepsBursts ==
    ASSUME BurstInv, LogTypes, NEW axi,
           Dma!DmaStep(Offering, [g \in Harts |-> ui[g].sample], axi, elastic)
    PROVE  BurstInv'
<1> USE DEF Dma!DmaStates
<1>1. /\ state \in Dma!DmaStates /\ activeHart \in Harts
      /\ address \in [Harts -> Nat] /\ planAddress \in Nat /\ burstBeats \in Nat
      /\ beatIndex \in Nat /\ remaining \in Nat
  BY DEF BurstInv, LogTypes
<1>2. address[activeHart] \in Nat
  BY <1>1
<1>3. CASE Dma!DmaIdle(Offering)
  BY <1>3 DEF Dma!DmaIdle, BurstInv
<1>4. ASSUME NEW g \in Harts,
             Dma!DmaClaim(g, Offering, [k \in Harts |-> ui[k].sample][g])
      PROVE  BurstInv'
  <2>1. /\ state' = "PLAN" /\ activeHart' = g /\ planAddress' = address[g] /\ address' = address
        /\ burstBeats' = burstBeats /\ beatIndex' = beatIndex
    BY <1>4 DEF Dma!DmaClaim
  <2>2. address[g] \in Nat
    BY <1>1
  <2> QED
    BY <1>1, <2>1, <2>2 DEF BurstInv
<1>5. CASE Dma!DmaPlan
  <2>1. /\ state \in {"PLAN", "LIMIT"} /\ state' = (IF state = "PLAN" THEN "LIMIT" ELSE "CHECK")
        /\ burstBeats' = (IF state = "LIMIT" THEN Dma!PlannedBeats ELSE burstBeats)
        /\ UNCHANGED <<activeHart, address, planAddress, beatIndex>>
    BY <1>5 DEF Dma!DmaPlan
  <2>2. Dma!PlannedBeats \in Nat /\ (planAddress % PageBeats) + Dma!PlannedBeats <= PageBeats
    BY <1>1, PlanFits
  <2>3. planAddress = address[activeHart]
    BY <2>1 DEF BurstInv
  <2> DEFINE within == planAddress % PageBeats
  <2>4. within' = within
    BY <2>1
  <2> HIDE DEF within
  <2> QED
    BY <1>1, <2>1, <2>2, <2>3, <2>4 DEF BurstInv, within
<1>6. CASE Dma!DmaCheck
  <2>1. /\ state = "CHECK" /\ state' = (IF Dma!LeavesRegion THEN "IDLE" ELSE "AW")
        /\ beatIndex' = (IF Dma!LeavesRegion THEN beatIndex ELSE 0)
        /\ UNCHANGED <<activeHart, address, planAddress, burstBeats>>
    BY <1>6 DEF Dma!DmaCheck
  <2>2. /\ planAddress = address[activeHart]
        /\ (planAddress % PageBeats) + burstBeats <= PageBeats
    BY <2>1 DEF BurstInv
  <2>3. CASE Dma!LeavesRegion
    BY <1>1, <2>1, <2>3 DEF BurstInv
  <2>4. CASE ~Dma!LeavesRegion
    <3>1. burstBeats # 0 /\ planAddress + burstBeats <= RegionBeats
      <4>1. RegionBeats \in Nat
        BY LogWriteAssumption DEF LogWriteAssumption
      <4> QED
        BY <1>1, <2>4, <4>1 DEF Dma!LeavesRegion
    <3>2. planAddress = planAddress + 0
      BY <1>1
    <3> QED
      BY <1>1, <2>1, <2>2, <2>4, <3>1, <3>2 DEF BurstInv
  <2> QED
    BY <2>3, <2>4
<1>7. CASE Dma!DmaAddress(axi)
  <2>1. /\ state = "AW" /\ state' \in {"W", "AW"}
        /\ UNCHANGED <<activeHart, address, planAddress, burstBeats, beatIndex>>
    BY <1>7 DEF Dma!DmaAddress
  <2>2. /\ (planAddress % PageBeats) + burstBeats <= PageBeats
        /\ burstBeats # 0 /\ planAddress + burstBeats <= RegionBeats
        /\ address[activeHart] = planAddress + beatIndex /\ beatIndex = 0
    BY <2>1 DEF BurstInv
  <2>3. beatIndex < burstBeats
    BY <1>1, <2>2
  <2> QED
    BY <1>1, <2>1, <2>2, <2>3 DEF BurstInv
<1>8. CASE Dma!DmaData(axi, elastic[activeHart])
  <2> DEFINE last == beatIndex = burstBeats - 1
  <2>1. /\ state = "W" /\ state' = (IF last THEN "B" ELSE "W")
        /\ address' = [address EXCEPT ![activeHart] = @ + 1]
        /\ beatIndex' = (IF last THEN beatIndex ELSE beatIndex + 1)
        /\ UNCHANGED <<activeHart, planAddress, burstBeats>>
    BY <1>8 DEF Dma!DmaData, Dma!Takes
  <2>2. /\ (planAddress % PageBeats) + burstBeats <= PageBeats
        /\ burstBeats # 0 /\ planAddress + burstBeats <= RegionBeats
        /\ address[activeHart] = planAddress + beatIndex /\ beatIndex < burstBeats
    BY <2>1 DEF BurstInv
  <2>3. address' \in [Harts -> Nat] /\ address'[activeHart] = address[activeHart] + 1
    BY <1>1, <1>2, <2>1
  <2>4. /\ beatIndex' \in Nat /\ (~last => beatIndex' < burstBeats)
        /\ address'[activeHart] = planAddress + (IF last THEN burstBeats ELSE beatIndex')
    BY <1>1, <2>1, <2>2, <2>3
  <2> HIDE DEF last
  <2> QED
    BY <1>1, <2>1, <2>2, <2>3, <2>4 DEF BurstInv
<1>9. CASE Dma!DmaWait(axi, elastic[activeHart])
  BY <1>9 DEF Dma!DmaWait, BurstInv
<1>10. CASE Dma!DmaFail(axi)
  <2>1. state' = "IDLE" /\ UNCHANGED <<activeHart, address, planAddress, burstBeats, beatIndex>>
    BY <1>10 DEF Dma!DmaFail
  <2> QED
    BY <1>1, <2>1 DEF BurstInv
<1>11. CASE Dma!DmaBurst(axi)
  <2> DEFINE whole == total >= remaining
  <2>1. /\ state' = (IF whole THEN "IDLE" ELSE "PLAN")
        /\ activeHart' = (IF whole THEN Dma!Other(activeHart) ELSE activeHart)
        /\ planAddress' = (IF whole THEN planAddress ELSE address[activeHart])
        /\ UNCHANGED <<address, burstBeats, beatIndex>>
    BY <1>11 DEF Dma!DmaBurst
  <2>2. Dma!Other(activeHart) \in Harts
    BY <1>1 DEF Dma!Other, Harts
  <2> HIDE DEF whole
  <2> QED
    BY <1>1, <1>2, <2>1, <2>2 DEF BurstInv
<1> QED
  BY <1>3, <1>4, <1>5, <1>6, <1>7, <1>8, <1>9, <1>10, <1>11 DEF Dma!DmaStep, Dma!Harts, Harts

(* The plan of the current burst, the address register of its hart and the   *)
(* beats already sent fit together in every state of the DMA.                *)
THEOREM BurstInvariant == Spec => []BurstInv
<1>1. Init => BurstInv
  BY DEF Init, BurstInv, Dma!DmaInit, Dma!DmaStates, Dma!Harts, Harts
<1>2. BurstInv /\ HandInv /\ [Next]_vars => BurstInv'
  <2> SUFFICES ASSUME BurstInv, HandInv, [Next]_vars PROVE BurstInv'
    OBVIOUS
  <2>1. CASE CoreEdge
    BY <2>1 DEF CoreEdge, dmaVars, BurstInv
  <2>2. CASE UiEdge
    BY <2>2, DmaKeepsBursts DEF UiEdge, UiEdgeWith, HandInv
  <2>3. CASE UNCHANGED vars
    BY <2>3 DEF vars, dmaVars, BurstInv
  <2> QED
    BY <2>1, <2>2, <2>3 DEF Next
<1> QED
  BY HandInvariant, <1>1, <1>2, PTL DEF Spec

(* A burst of the write DMA crosses neither a page nor the end of its hart's *)
(* region, and has as many beats to come as were announced.                  *)
THEOREM BurstsStayLegal == Spec => []BurstsLegal
<1>1. BurstInv => BurstsLegal
  BY DEF BurstInv, BurstsLegal
<1> QED
  BY BurstInvariant, <1>1, PTL

-----------------------------------------------------------------------------
(* The two clocks keep their distance: a bank takes longer to settle than    *)
(* two core edges are apart (5 or 6 UI edges to one, 32 equal counts).       *)
Paced == 2 <= MinUiEdges /\ 2 * MaxUiEdges <= StableCycles

(* The i-th bank of the ring from the one the reader waits for.              *)
At(h, i) == OnFrom(ui[h].pointer, i)

(* No core edge has sampled the toggle of this release yet.                  *)
Unsampled(h, b) ==
    b \in ui[h].release \/ releaseSource[h][b].toggle # releaseSync[h][b][1]

(* The level of a frozen bank has come as far as stage n.                    *)
Shown(h, b, n) == /\ readySync[h][b][1]
                  /\ n >= 2 => readySync[h][b][2]
                  /\ n >= 3 => readySync[h][b][3]

(* From the pointer on: k banks to be read, free ones, m on their way back.  *)
Arc(h, k, m) ==
    /\ k \in Nat /\ m \in 0 .. 2 /\ k + m <= BankCount
    /\ \A i \in 0 .. BankCount - 1 :
          /\ At(h, i) \in side[h].owned <=> i < k \/ i >= BankCount - m
          /\ OnItsWay(h, At(h, i)) <=> i >= BankCount - m

(* Releases are two core edges apart, since a bank takes longer to settle.   *)
Apart(h, m) ==
    /\ m = 2 => /\ Unsampled(h, At(h, BankCount - 1))
                /\ Pulse(releaseSync[h][At(h, BankCount - 2)])
    /\ \A b \in Banks : OnItsWay(h, b) /\ ui[h].active =>
          /\ Unsampled(h, b) => ui[h].stable <= uiEdges
          /\ ~Pulse(releaseSync[h][b]) => ui[h].stable <= MaxUiEdges + uiEdges

(* The levels of the banks rise in the order of the ring, and have risen     *)
(* before the last of them does.                                             *)
Rising(h, k) ==
    /\ uiEdges >= 2 => \A b \in Banks : readySync[h][b][1] <=> b \in side[h].ready
    /\ \A i \in 0 .. k - 1 :
          /\ i < k - 1 => Shown(h, At(h, i), 1)
          /\ Shown(h, At(h, i), 3) => At(h, i) \notin ui[h].completed
          /\ \A j \in 0 .. i - 1 : \A n \in 1 .. 3 :
                Shown(h, At(h, i), n) => Shown(h, At(h, j), n)

(* The reader works on the bank at its pointer.                              *)
Reading(h) ==
    ui[h].active => /\ ui[h].bank = ui[h].pointer
                    /\ ui[h].claimed => ui[h].stable = StableCycles

(* The writer fills the first of the free banks, the others are empty; it    *)
(* waits for one only while there is none, or for one cycle longer.          *)
Filling(h, k, m) ==
    /\ \A b \in Banks \ side[h].owned : side[h].count[b] # 0 =>
          side[h].valid /\ side[h].bank = b /\ ~side[h].flushAck
    /\ ~side[h].flushAck =>
          /\ side[h].valid => side[h].bank = At(h, k) /\ k + m < BankCount
          /\ ~side[h].valid => k + m >= BankCount - 1
          /\ ~side[h].valid /\ k + m < BankCount =>
                \A b \in Banks : ~Pulse(releaseSync[h][b])

(* The end of capture, once every queue is empty, and what it has reached.   *)
Closing ==
    /\ uiEdges \in 0 .. MaxUiEdges /\ captureDone \in BOOLEAN
    /\ pipelineDone => captureDone /\ \A h \in Harts : queue[h] = <<>>
    /\ doneSync[1] => pipelineDone
    /\ doneSync[2] => doneSync[1]
    /\ \A h \in Harts : /\ side[h].flushAck => pipelineDone
                        /\ ackSync[h][1] => side[h].flushAck
                        /\ ackSync[h][2] => ackSync[h][1]
                        /\ ackSync[h][3] => ackSync[h][2]
                        /\ ui[h].guard # 0 => ackSync[h][3]

(* The levels of the last banks are not later than the acknowledgement.      *)
LastSeen(h, k) ==
    \A i \in 0 .. k - 1 :
        /\ ackSync[h][1] /\ uiEdges = 0 => Shown(h, At(h, i), 1)
        /\ ackSync[h][2] => Shown(h, At(h, i), 1)
        /\ ackSync[h][3] => Shown(h, At(h, i), 2)
        /\ ui[h].guard # 0 => Shown(h, At(h, i), 3)

Ring(h, k, m) == /\ Arc(h, k, m) /\ Apart(h, m) /\ Rising(h, k)
                 /\ Reading(h) /\ Filling(h, k, m) /\ LastSeen(h, k)
RingInv == Closing /\ \A h \in Harts : \E k, m \in Nat : Ring(h, k, m)

-----------------------------------------------------------------------------
(* The numbers of the records follow one another from the memory through the *)
(* stream and the banks to the queue.                                        *)
Run(s, a) == \A i \in 1 .. Len(s) : s[i] = a + i
BeatsRun(s, a) == /\ Len(s) >= 1 => Run(s[1], a)
                  /\ Len(s) >= 2 => Run(s[2], a + Len(s[1]))
Full(n) == n * BankRecords

Base(h) == Len(memory[h]) + Flow(h)
First(h) == IF Held(h) THEN 1 ELSE 0

StreamRuns(h) ==
    LET w == Len(memory[h])
        o == w + Load(elastic[h])
        c == o + Load(output[h])
    IN  /\ memory[h] \in Seq(Nat) /\ Run(memory[h], 0)
        /\ BeatsRun(elastic[h], w) /\ BeatsRun(output[h], o) /\ BeatsRun(child[h], c)
        /\ Held(h) => Run(lanes[h][ui[h].bank], c + Load(child[h]))

BanksRun(h, k) ==
    \A i \in First(h) .. k - 1 :
        /\ Run(lanes[h][At(h, i)], Base(h) + Full(i - First(h)))
        /\ i < k - 1 \/ ~side[h].flushAck => Len(lanes[h][At(h, i)]) = BankRecords

QueueRuns(h, k) ==
    /\ Len(queue[h]) <= produced[h] /\ Run(queue[h], produced[h] - Len(queue[h]))
    /\ ~side[h].flushAck /\ side[h].valid =>
          /\ Run(lanes[h][At(h, k)], Base(h) + Full(k - First(h)))
          /\ produced[h] - Len(queue[h]) =
                Base(h) + Full(k - First(h)) + Len(lanes[h][At(h, k)])
    /\ ~side[h].flushAck /\ ~side[h].valid =>
          produced[h] - Len(queue[h]) = Base(h) + Full(k - First(h))
    /\ side[h].flushAck =>
          produced[h] = IF k = First(h) THEN Base(h)
                        ELSE Base(h) + Full(k - 1 - First(h)) + Len(lanes[h][At(h, k - 1)])

Counted(h) ==
    ~axiError => writtenRecords[h] + (IF activeHart = h /\ state \in {"W", "B"} THEN sent ELSE 0)
                 = Len(memory[h])

LogInv ==
    /\ Closing /\ writtenRecords \in [Harts -> Nat] /\ memory \in [Harts -> Seq(Nat)]
    /\ \A h \in Harts :
          /\ StreamRuns(h) /\ Counted(h)
          /\ \E k, m \in Nat : Ring(h, k, m) /\ BanksRun(h, k) /\ QueueRuns(h, k)

-----------------------------------------------------------------------------
(* The positions on the ring from a bank on.                                 *)
LEMMA Positions ==
    ASSUME NEW p \in Banks
    PROVE  /\ \A i \in 0 .. BankCount : OnFrom(p, i) \in Banks
           /\ OnFrom(p, 0) = p
           /\ \A i, j \in 0 .. BankCount - 1 : OnFrom(p, i) = OnFrom(p, j) => i = j
           /\ \A b \in Banks : \E i \in 0 .. BankCount - 1 : OnFrom(p, i) = b
           /\ \A i, j \in 0 .. BankCount : i + j <= BankCount =>
                 OnFrom(OnFrom(p, i), j) = OnFrom(p, i + j)
           /\ \A i, j \in 0 .. BankCount : i + j >= BankCount =>
                 OnFrom(OnFrom(p, i), j) = OnFrom(p, i + j - BankCount)
<1>0. BankCount \in Nat /\ BankCount >= 2 /\ Banks = 0 .. BankCount - 1 /\ p \in Int
  BY Sizes
<1>1. \A i \in 0 .. BankCount :
         /\ OnFrom(p, i) = IF p + i < BankCount THEN p + i ELSE p + i - BankCount
         /\ OnFrom(p, i) \in Banks
  BY RingStep
<1>2. \A b \in Banks : \E i \in 0 .. BankCount - 1 : OnFrom(p, i) = b
  <2> SUFFICES ASSUME NEW b \in Banks
               PROVE  \E i \in 0 .. BankCount - 1 : OnFrom(p, i) = b
    OBVIOUS
  <2> DEFINE i == IF b >= p THEN b - p ELSE b - p + BankCount
  <2>1. i \in 0 .. BankCount - 1 /\ OnFrom(p, i) = b
    BY <1>0, <1>1
  <2> QED
    BY <2>1
<1>3. ASSUME NEW i \in 0 .. BankCount, NEW j \in 0 .. BankCount
      PROVE  /\ i + j <= BankCount => OnFrom(OnFrom(p, i), j) = OnFrom(p, i + j)
             /\ i + j >= BankCount => OnFrom(OnFrom(p, i), j) = OnFrom(p, i + j - BankCount)
  <2> DEFINE q == OnFrom(p, i)
  <2>1. q \in Banks /\ q = IF p + i < BankCount THEN p + i ELSE p + i - BankCount
    BY <1>1
  <2> HIDE DEF q
  <2>2. OnFrom(q, j) = IF q + j < BankCount THEN q + j ELSE q + j - BankCount
    BY <2>1, RingStep
  <2>3. i + j <= BankCount => OnFrom(q, j) = OnFrom(p, i + j)
    BY <1>0, <1>1, <2>1, <2>2
  <2>4. i + j >= BankCount => OnFrom(q, j) = OnFrom(p, i + j - BankCount)
    BY <1>0, <1>1, <2>1, <2>2
  <2> QED
    BY <2>3, <2>4 DEF q
<1>4. \A i, j \in 0 .. BankCount - 1 : OnFrom(p, i) = OnFrom(p, j) => i = j
  BY SMTT(30), <1>0, <1>1
<1>5. OnFrom(p, 0) = p
  BY <1>0, <1>1
<1> QED
  BY <1>1, <1>2, <1>3, <1>4, <1>5

(* ... and from the reader's pointer on.                                     *)
LEMMA Places ==
    ASSUME LogTypes, NEW h \in Harts
    PROVE  /\ ui[h].pointer \in Banks /\ At(h, 0) = ui[h].pointer
           /\ \A i \in 0 .. BankCount : At(h, i) \in Banks
           /\ \A i, j \in 0 .. BankCount - 1 : At(h, i) = At(h, j) => i = j
           /\ \A b \in Banks : \E i \in 0 .. BankCount - 1 : At(h, i) = b
           /\ \A i, j \in 0 .. BankCount : i + j <= BankCount =>
                 OnFrom(At(h, i), j) = At(h, i + j)
           /\ \A i, j \in 0 .. BankCount : i + j >= BankCount =>
                 OnFrom(At(h, i), j) = At(h, i + j - BankCount)
<1>1. ui[h].pointer \in Banks
  BY StateTypes, ReaderFields
<1> QED
  BY <1>1, Positions DEF At

-----------------------------------------------------------------------------
Freezes(h) == \/ Fills(side[h], Offered(h))
              \/ FreezesTail(side[h], Offered(h), pipelineDone)

(* Which bank the writer goes on with.                                       *)
GoesOn(c, n, released, flush, d) ==
    /\ d.flushAck <=> c.flushAck \/ flush
    /\ d.owned = (c.owned \ released)
                     \cup (IF Fills(c, n) \/ FreezesTail(c, n, flush) THEN {c.bank} ELSE {})
    /\ Fills(c, n) => /\ d.valid <=> NextFree(c) # {} /\ ~FreezesTail(c, n, flush)
                      /\ d.valid => d.bank \in NextFree(c)
    /\ ~Fills(c, n) /\ c.valid => /\ d.valid <=> ~FreezesTail(c, n, flush)
                                  /\ d.bank = c.bank
    /\ ~c.valid => /\ Accepted(c, n) = 0 /\ ~Fills(c, n) /\ ~FreezesTail(c, n, flush)
                   /\ released # {} => d.valid /\ d.bank \in released
                   /\ released = {} => /\ d.valid <=> Free(c) # {}
                                       /\ d.valid => d.bank \in Free(c)
(* An edge of the writer, whatever it is offered.                            *)
LEMMA WriterSteps ==
    ASSUME NEW c, WriterSide(c), NEW n \in 0 .. WritePorts,
           NEW released \in SUBSET c.owned, NEW flush \in BOOLEAN
    PROVE  GoesOn(c, n, released, flush, CoreStep(c, n, released, flush))
<1> DEFINE d == CoreStep(c, n, released, flush)
           tail == FreezesTail(c, n, flush)
           F == IF Fills(c, n) \/ tail THEN {c.bank} ELSE {}
           sel == Selected(c, n, released)
           count == [b \in Banks |-> IF WrittenTo(c, n)[b] # 0
                                     THEN c.count[b] + WrittenTo(c, n)[b]
                                     ELSE IF b \in released THEN 0 ELSE c.count[b]]
<1>1. d = [owned |-> (c.owned \ released) \cup F, ready |-> (c.ready \ released) \cup F,
           count |-> count, bank |-> IF sel = {} THEN c.bank ELSE Max(sel),
           valid |-> sel # {} /\ ~tail, flushAck |-> c.flushAck \/ flush]
  BY DEF CoreStep
<1>2. /\ d.owned = (c.owned \ released) \cup F /\ d.flushAck = (c.flushAck \/ flush)
      /\ d.bank = (IF sel = {} THEN c.bank ELSE Max(sel)) /\ d.valid = (sel # {} /\ ~tail)
  BY <1>1
<1> HIDE DEF d
<1>3. /\ c \in CoreSide /\ c.owned \in SUBSET Banks /\ c.bank \in Banks
      /\ c.valid \in BOOLEAN /\ c.flushAck \in BOOLEAN
      /\ Free(c) \subseteq Banks /\ released \subseteq Banks
  BY SideFields, NextIsFree DEF WriterSide
<1>4. c.bank \in Int /\ \A b \in Banks : b \in Int
  BY <1>3, Sizes
<1>5. /\ Here(c, n) \in Nat /\ There(c, n) \in Nat
      /\ Here(c, n) # 0 \/ Fills(c, n) => c.valid /\ c.bank \notin c.owned
      /\ There(c, n) # 0 => Fills(c, n) /\ NextFree(c) # {}
      /\ Fills(c, n) => Here(c, n) # 0
  BY <1>3, Shares
<1>6. /\ Fills(c, n) => Accepted(c, n) # 0
      /\ ~c.valid => Accepted(c, n) = 0 /\ ~Fills(c, n) /\ ~tail
  BY <1>5 DEF Accepted, FreezesTail
<1>7. tail \in BOOLEAN
  BY DEF FreezesTail
<1> HIDE DEF tail, F, count
<1>8. ASSUME Fills(c, n)
      PROVE  /\ d.valid <=> NextFree(c) # {} /\ ~tail
             /\ d.valid => d.bank \in NextFree(c)
  <2>1. sel = NextFree(c)
    BY <1>6, <1>8 DEF Selected
  <2>2. NextFree(c) # {} => Max(NextFree(c)) \in NextFree(c)
    <3>1. NextFree(c) \subseteq Banks
      BY <1>3, NextIsFree
    <3> QED
      BY <3>1, AmongBanks
  <2> QED
    BY <1>2, <2>1, <2>2
<1>9. ASSUME ~Fills(c, n), c.valid PROVE (d.valid <=> ~tail) /\ d.bank = c.bank
  <2>1. sel = {c.bank}
    BY <1>9 DEF Selected
  <2>2. Max(sel) = c.bank
    BY <1>4, <2>1, OnlyOne
  <2> QED
    BY <1>2, <2>1, <2>2
<1>10. ASSUME ~c.valid, released # {} PROVE d.valid /\ d.bank \in released
  <2>1. sel = {Max(released)}
    BY <1>6, <1>10 DEF Selected
  <2>2. Max(released) \in released /\ Max(released) \in Int
    BY <1>3, <1>4, <1>10, AmongBanks
  <2>3. Max(sel) = Max(released)
    BY <2>1, <2>2, OnlyOne
  <2> QED
    BY <1>2, <1>6, <1>10, <2>1, <2>2, <2>3
<1>11. ASSUME ~c.valid, released = {}
       PROVE  (d.valid <=> Free(c) # {}) /\ (d.valid => d.bank \in Free(c))
  <2>1. CASE Free(c) = {}
    <3>1. sel = {}
      BY <1>6, <1>11, <2>1 DEF Selected
    <3> QED
      BY <1>2, <2>1, <3>1
  <2>2. CASE Free(c) # {}
    <3>1. sel = {Min(Free(c))}
      BY <1>6, <1>11, <2>2 DEF Selected
    <3>2. Min(Free(c)) \in Free(c) /\ Min(Free(c)) \in Int
      BY <1>3, <1>4, <2>2, AmongBanks
    <3>3. Max(sel) = Min(Free(c))
      BY <3>1, <3>2, OnlyOne
    <3> QED
      BY <1>2, <1>6, <1>11, <2>2, <3>1, <3>2, <3>3
  <2> QED
    BY <2>1, <2>2
<1> HIDE DEF d
<1> QED
  BY <1>2, <1>6, <1>8, <1>9, <1>10, <1>11 DEF tail, F, d, GoesOn

(* An edge of the core clock, as the writer of a hart takes it.              *)
LEMMA WriterEdge ==
    ASSUME HandInv, CoreEdge, NEW h \in Harts
    PROVE  /\ side'[h] = CoreStep(side[h], Offered(h), Released(h), pipelineDone)
           /\ WriterSide(side[h]) /\ WriterSide(side'[h]) /\ side[h] \in CoreSide
           /\ Offered(h) \in 0 .. WritePorts /\ Released(h) \in SUBSET side[h].owned
           /\ pipelineDone \in BOOLEAN
<1>1. side'[h] = CoreStep(side[h], Offered(h), Released(h), pipelineDone)
  BY DEF CoreEdge
<1>2. LogTypes /\ WriterSide(side[h]) /\ Offered(h) \in 0 .. WritePorts /\ pipelineDone \in BOOLEAN
  BY StateTypes, OfferedFits DEF HandInv, Frozen, WriterSide
<1>3. Released(h) \in SUBSET side[h].owned
  BY ReleasedReturns
<1> QED
  BY <1>1, <1>2, <1>3, CoreEdgeOnBank DEF WriterSide

(* What the writer does next, and that a released bank no longer returns.    *)
LEMMA WriterGoesOn ==
    ASSUME HandInv, CoreEdge, NEW h \in Harts
    PROVE  LET c == side[h]
               d == side'[h]
               n == Offered(h)
           IN  /\ d.flushAck <=> c.flushAck \/ pipelineDone
               /\ \A b \in Banks : b \in d.owned <=> \/ b \in c.owned /\ b \notin Released(h)
                                                     \/ Freezes(h) /\ b = c.bank
               /\ Freezes(h) => c.valid /\ c.bank \notin c.owned
               /\ Fills(c, n) => /\ d.valid <=> /\ NextFree(c) # {}
                                                /\ ~FreezesTail(c, n, pipelineDone)
                                 /\ d.valid => d.bank \in NextFree(c)
               /\ ~Fills(c, n) /\ c.valid => /\ d.valid <=> ~FreezesTail(c, n, pipelineDone)
                                             /\ d.bank = c.bank
               /\ ~c.valid => /\ Accepted(c, n) = 0 /\ ~Freezes(h)
                              /\ Released(h) # {} => d.valid /\ d.bank \in Released(h)
                              /\ Released(h) = {} => /\ d.valid <=> Free(c) # {}
                                                     /\ d.valid => d.bank \in Free(c)
<1> DEFINE c == side[h]
           d == side'[h]
           n == Offered(h)
           R == Released(h)
<1>1. /\ WriterSide(c) /\ n \in 0 .. WritePorts /\ R \in SUBSET c.owned /\ pipelineDone \in BOOLEAN
      /\ d = CoreStep(c, n, R, pipelineDone) /\ c \in CoreSide
  BY WriterEdge
<1>5. GoesOn(c, n, R, pipelineDone, d)
  <2> HIDE DEF c, n, R
  <2> QED
    BY <1>1, WriterSteps
<1>2. /\ d.flushAck <=> c.flushAck \/ pipelineDone
      /\ d.owned = (c.owned \ R) \cup (IF Freezes(h) THEN {c.bank} ELSE {})
  BY <1>5 DEF GoesOn, Freezes
<1>3. Freezes(h) => c.valid /\ c.bank \notin c.owned
  BY <1>1, Shares DEF Freezes, FreezesTail
<1>4. /\ Fills(c, n) => /\ d.valid <=> NextFree(c) # {} /\ ~FreezesTail(c, n, pipelineDone)
                        /\ d.valid => d.bank \in NextFree(c)
      /\ ~Fills(c, n) /\ c.valid => /\ d.valid <=> ~FreezesTail(c, n, pipelineDone)
                                    /\ d.bank = c.bank
      /\ ~c.valid => /\ Accepted(c, n) = 0
                     /\ ~Fills(c, n) /\ ~FreezesTail(c, n, pipelineDone)
                     /\ R # {} => d.valid /\ d.bank \in R
                     /\ R = {} => /\ d.valid <=> Free(c) # {}
                                  /\ d.valid => d.bank \in Free(c)
  <2> HIDE DEF c, d, n, R
  <2> QED
    BY <1>5 DEF GoesOn
<1> QED
  BY <1>2, <1>3, <1>4 DEF Freezes

(* Nothing is offered once the queues are known to be empty.                 *)
LEMMA NothingOffered ==
    ASSUME HandInv, Closing, pipelineDone, NEW h \in Harts
    PROVE  /\ queue[h] = <<>> /\ Offered(h) = 0 /\ captureDone
           /\ ~Fills(side[h], 0) /\ Here(side[h], 0) = 0 /\ There(side[h], 0) = 0
           /\ Taken(h) = 0
<1>1. queue[h] = <<>> /\ captureDone
  BY DEF Closing
<1>2. Offered(h) = 0
  BY <1>1, Sizes DEF Offered
<1>3. side[h] \in CoreSide /\ 0 \in 0 .. WritePorts
  BY StateTypes, Sizes DEF HandInv
<1>4. Here(side[h], 0) = 0 /\ There(side[h], 0) = 0
  <2>1. Here(side[h], 0) \in 0 .. 0 /\ There(side[h], 0) \in 0 .. 0
    BY <1>3, Shares
  <2> QED
    BY <2>1
<1>5. ~Fills(side[h], 0)
  BY <1>3, <1>4, Shares
<1>6. Taken(h) = 0
  BY <1>2, <1>4 DEF Taken, Accepted
<1> QED
  BY <1>1, <1>2, <1>4, <1>5, <1>6

(* The end of capture, at an edge of the core clock.                         *)
LEMMA CoreKeepsClosing ==
    ASSUME HandInv, Closing, CoreEdge
    PROVE  Closing'
<1>1. /\ ui' = ui /\ doneSync' = doneSync /\ ackSync' = ackSync /\ uiEdges' = 0
      /\ captureDone' \in {captureDone, TRUE} /\ pipelineDone' = Drained
  BY DEF CoreEdge, uiVars
<1>2. PICK new \in [Harts -> 0 .. WritePorts] :
        /\ \A h \in Harts : new[h] \in Bundles(h)
        /\ queue' = [h \in Harts |-> SubSeq(queue[h], Taken(h) + 1, Len(queue[h]))
                                         \o Numbered(produced[h], new[h])]
  BY DEF CoreEdge
<1>3. LogTypes
  BY DEF HandInv
<1>4. uiEdges' \in 0 .. MaxUiEdges /\ captureDone' \in BOOLEAN
  <2>1. captureDone' \in BOOLEAN
    BY <1>1 DEF Closing
  <2>2. MaxUiEdges \in Nat
    BY LogWriteAssumption DEF LogWriteAssumption
  <2> QED
    BY <1>1, <2>1, <2>2
<1>5. ASSUME pipelineDone' PROVE captureDone' /\ \A h \in Harts : queue'[h] = <<>>
  <2>1. captureDone /\ \A h \in Harts : queue[h] = <<>>
    BY <1>1, <1>5 DEF Drained
  <2>2. ASSUME NEW h \in Harts PROVE queue'[h] = <<>>
    <3>1. new[h] = 0
      BY <1>2, <2>1 DEF Bundles
    <3>2. Numbered(produced[h], 0) = <<>>
      BY DEF Numbered
    <3>3. Taken(h) = 0
      <4>1. Offered(h) = 0 /\ side[h] \in CoreSide /\ 0 \in 0 .. WritePorts
        BY <1>3, <2>1, StateTypes, Sizes DEF Offered
      <4>2. Here(side[h], 0) \in 0 .. 0 /\ There(side[h], 0) \in 0 .. 0
        BY <4>1, Shares
      <4> QED
        BY <4>1, <4>2 DEF Taken, Accepted
    <3>4. queue'[h] = SubSeq(<<>>, 1, 0) \o <<>>
      <4>1. queue'[h] = SubSeq(queue[h], Taken(h) + 1, Len(queue[h]))
                            \o Numbered(produced[h], new[h])
        BY <1>2
      <4>2. Len(<<>>) = 0 /\ 0 + 1 = 1
        OBVIOUS
      <4> QED
        BY <2>1, <3>1, <3>2, <3>3, <4>1, <4>2
    <3> QED
      BY <3>4
  <2> QED
    BY <1>1, <2>1, <2>2
<1>6. pipelineDone => pipelineDone'
  BY <1>1 DEF Drained, Closing
<1>7. \A h \in Harts : side'[h].flushAck <=> side[h].flushAck \/ pipelineDone
  BY WriterGoesOn
<1>8. /\ doneSync'[1] => pipelineDone'
      /\ doneSync'[2] => doneSync'[1]
  BY <1>1, <1>6 DEF Closing
<1>9. ASSUME NEW h \in Harts
      PROVE  /\ side'[h].flushAck => pipelineDone'
             /\ ackSync'[h][1] => side'[h].flushAck
             /\ ackSync'[h][2] => ackSync'[h][1]
             /\ ackSync'[h][3] => ackSync'[h][2]
             /\ ui'[h].guard # 0 => ackSync'[h][3]
  BY <1>1, <1>6, <1>7 DEF Closing
<1> QED
  BY <1>4, <1>5, <1>8, <1>9 DEF Closing

(* The releases on their way, and the one that arrives.                      *)
LEMMA ReleaseArrives ==
    ASSUME HandInv, NEW h \in Harts, NEW k, NEW m, Ring(h, k, m)
    PROVE  /\ BankCount \in Nat /\ BankCount >= 2 /\ k \in Nat /\ m \in 0 .. 2
           /\ k + m <= BankCount
           /\ Released(h) = {} \/ (m \in {1, 2} /\ Released(h) = {At(h, BankCount - m)})
           /\ m = 2 => Released(h) # {}
<1>1. LogTypes /\ Arc(h, k, m) /\ Apart(h, m)
  BY DEF HandInv, Ring
<1>2. BankCount \in Nat /\ BankCount >= 2 /\ k \in Nat /\ m \in 0 .. 2 /\ k + m <= BankCount
  BY <1>1, Sizes DEF Arc
<1>3. ASSUME NEW b \in Released(h) PROVE m \in {1, 2} /\ b = At(h, BankCount - m)
  <2>1. b \in Banks /\ OnItsWay(h, b) /\ ~Unsampled(h, b)
    BY ReleasedReturns DEF Unsampled
  <2>2. PICK i \in 0 .. BankCount - 1 : At(h, i) = b
    BY <1>1, <2>1, Places
  <2>3. i >= BankCount - m
    BY <1>1, <2>1, <2>2 DEF Arc
  <2>4. m # 0
    BY <1>2, <2>3
  <2>5. m = 2 => i # BankCount - 1
    BY <1>1, <2>1, <2>2 DEF Apart
  <2>6. i = BankCount - m
    BY <1>2, <2>3, <2>4, <2>5
  <2> QED
    BY <1>2, <2>2, <2>4, <2>6
<1>4. m = 2 => Released(h) # {}
  <2> SUFFICES ASSUME m = 2 PROVE Released(h) # {}
    OBVIOUS
  <2>1. Pulse(releaseSync[h][At(h, BankCount - 2)])
    BY <1>1 DEF Apart
  <2>2. BankCount - 2 \in 0 .. BankCount
    BY <1>2
  <2>3. At(h, BankCount - 2) \in Banks
    BY <1>1, <2>2, Places
  <2> QED
    BY <2>1, <2>3 DEF Released
<1> QED
  BY <1>2, <1>3, <1>4

(* An edge of the core clock moves every release on by one stage.            *)
LEMMA ReleasesMove ==
    ASSUME HandInv, CoreEdge, NEW h \in Harts, NEW b \in Banks
    PROVE  /\ OnItsWay(h, b)' <=> OnItsWay(h, b) /\ b \notin Released(h)
           /\ Unsampled(h, b)' <=> b \in ui[h].release
           /\ Pulse(releaseSync'[h][b]) <=> releaseSync[h][b][1] # releaseSync[h][b][2]
           /\ Pulse(releaseSync'[h][b]) =>
                 OnItsWay(h, b) /\ ~Unsampled(h, b) /\ b \notin Released(h)
           /\ ui'[h] = ui[h] /\ At(h, 0)' = At(h, 0)
<1> DEFINE t == releaseSource[h][b].toggle
           s == releaseSync[h][b]
<1>1. /\ ui' = ui /\ releaseSource' = releaseSource
      /\ releaseSync'[h][b] = Shift(s, t)
  BY CoreEdgeOnBank DEF CoreEdge, uiVars
<1>2. releaseSync'[h][b][1] = t /\ releaseSync'[h][b][2] = s[1] /\ releaseSync'[h][b][3] = s[2]
  BY <1>1, ShiftGives
<1>3. LogTypes /\ ReleaseChain(h, b)
  BY DEF HandInv, BankInv
<1>4. t \in {0, 1} /\ s[1] \in {0, 1} /\ s[2] \in {0, 1} /\ s[3] \in {0, 1}
  BY <1>3, BankTypes
<1>5. /\ t = s[3] => s[1] = t /\ s[2] = t
      /\ s[2] = t => s[1] = t
      /\ b \in ui[h].release => t = s[3]
  BY <1>3 DEF ReleaseChain
<1>6. b \in Released(h) <=> s[3] # s[2]
  BY DEF Released, Pulse
<1>7. /\ OnItsWay(h, b) <=> b \in ui[h].release \/ t # s[3]
      /\ OnItsWay(h, b)' <=> b \in ui[h].release \/ t # s[2]
  BY <1>1, <1>2 DEF OnItsWay
<1>8. Unsampled(h, b) <=> b \in ui[h].release \/ t # s[1]
  BY DEF Unsampled
<1>9. Unsampled(h, b)' <=> b \in ui[h].release
  BY <1>1, <1>2 DEF Unsampled
<1>10. Pulse(releaseSync'[h][b]) <=> s[2] # s[1]
  BY <1>2 DEF Pulse
<1>11. ui'[h] = ui[h] /\ At(h, 0)' = At(h, 0)
  BY <1>1 DEF At
<1> HIDE DEF t, s
<1>12. OnItsWay(h, b)' <=> OnItsWay(h, b) /\ b \notin Released(h)
  BY <1>4, <1>5, <1>6, <1>7
<1>13. s[2] # s[1] => OnItsWay(h, b) /\ ~Unsampled(h, b) /\ b \notin Released(h)
  BY <1>4, <1>5, <1>6, <1>7, <1>8
<1> QED
  BY <1>9, <1>10, <1>11, <1>12, <1>13 DEF s

-----------------------------------------------------------------------------
(* Only the bank after those to be read is frozen, and not after the end.    *)
LEMMA FreezesNext ==
    ASSUME HandInv, Closing, CoreEdge, NEW h \in Harts, NEW k, NEW m, Ring(h, k, m), Freezes(h)
    PROVE  /\ ~side[h].flushAck /\ side[h].valid /\ side[h].bank = At(h, k)
           /\ k + m < BankCount /\ At(h, k) \notin side[h].owned
<1>1. side[h].valid /\ side[h].bank \notin side[h].owned /\ side[h].bank \in Banks
  BY WriterGoesOn, WriterEdge, SideFields
<1>2. ASSUME side[h].flushAck PROVE FALSE
  <2>1. pipelineDone
    BY <1>2 DEF Closing
  <2>2. Offered(h) = 0 /\ ~Fills(side[h], 0) /\ Here(side[h], 0) = 0
    BY <2>1, NothingOffered
  <2>3. side[h].count[side[h].bank] + 0 # 0
    BY <2>2 DEF Freezes, FreezesTail
  <2>4. side[h].count[side[h].bank] = 0
    BY <1>1, <1>2 DEF Ring, Filling
  <2> QED
    BY <2>3, <2>4
<1> QED
  BY <1>1, <1>2 DEF Ring, Filling

(* The bank after the one being filled, if it is free.                       *)
LEMMA FreeAhead ==
    ASSUME HandInv, NEW h \in Harts, NEW k, NEW m, Ring(h, k, m),
           ~side[h].flushAck, side[h].valid
    PROVE  /\ k + 1 + m < BankCount => NextFree(side[h]) = {At(h, k + 1)}
           /\ k + 1 + m = BankCount => NextFree(side[h]) = {}
<1> DEFINE c == side[h]
           near == {i \in 1 .. BankCount - 1 : OnFrom(c.bank, i) \in Free(c)}
<1>1. NextFree(c) = IF near = {} THEN {} ELSE {OnFrom(c.bank, Min(near))}
  BY DEF NextFree
<1>2. /\ LogTypes /\ BankCount \in Nat /\ BankCount >= 2 /\ k \in Nat /\ m \in 0 .. 2
      /\ k + m < BankCount /\ c.bank = At(h, k)
      /\ \A i \in 0 .. BankCount - 1 :
            At(h, i) \in c.owned <=> i < k \/ i >= BankCount - m
  BY ReleaseArrives DEF HandInv, Ring, Arc, Filling
<1>3. \A b \in Banks : b # At(h, k) /\ b \notin c.owned => b \in Free(c)
  BY <1>2 DEF Ring, Filling, Free
<1>4. ASSUME k + 1 + m < BankCount PROVE NextFree(c) = {At(h, k + 1)}
  <2>1. /\ k \in 0 .. BankCount - 1 /\ k + 1 \in 0 .. BankCount - 1 /\ k # k + 1
        /\ ~(k + 1 < k \/ k + 1 >= BankCount - m) /\ 1 \in 1 .. BankCount - 1
        /\ k \in 0 .. BankCount /\ 1 \in 0 .. BankCount /\ k + 1 <= BankCount
    BY <1>2, <1>4
  <2>2. At(h, k + 1) \in Banks /\ At(h, k + 1) # At(h, k) /\ OnFrom(At(h, k), 1) = At(h, k + 1)
    <3>1. At(h, k + 1) \in Banks
      BY <1>2, <2>1, Places
    <3>2. At(h, k + 1) # At(h, k)
      BY <1>2, <2>1, Places
    <3> QED
      BY <1>2, <2>1, <3>1, <3>2, Places
  <2>3. 1 \in near
    BY <1>2, <1>3, <2>1, <2>2
  <2>4. near \subseteq Int /\ \A i \in near : 1 <= i
    OBVIOUS
  <2> HIDE DEF near
  <2>5. Min(near) = 1
    <3>1. \E x \in near : \A y \in near : x <= y
      BY <2>3, <2>4
    <3>2. Min(near) \in near /\ \A y \in near : Min(near) <= y
      BY <3>1 DEF Min
    <3> DEFINE x == Min(near)
    <3> HIDE DEF x
    <3>3. x \in Int /\ x <= 1 /\ 1 <= x
      BY <2>3, <2>4, <3>2 DEF x
    <3>4. x = 1
      BY <3>3
    <3> QED
      BY <3>4 DEF x
  <2> QED
    BY <1>1, <1>2, <2>2, <2>3, <2>5
<1>5. ASSUME k + 1 + m = BankCount PROVE NextFree(c) = {}
  <2>1. ASSUME NEW i \in near PROVE FALSE
    <3>1. i \in 1 .. BankCount - 1 /\ OnFrom(At(h, k), i) \notin c.owned
      BY <1>2, <2>1 DEF Free
    <3>2. k \in 0 .. BankCount /\ i \in 0 .. BankCount
      BY <1>2, <3>1
    <3>3. CASE k + i < BankCount
      <4>1. k + i \in 0 .. BankCount - 1 /\ k + i >= BankCount - m /\ k + i <= BankCount
        BY <1>2, <1>5, <3>1, <3>3
      <4>2. OnFrom(At(h, k), i) = At(h, k + i)
        BY <1>2, <3>2, <4>1, Places
      <4> QED
        BY <1>2, <3>1, <4>1, <4>2
    <3>4. CASE k + i >= BankCount
      <4>1. k + i - BankCount \in 0 .. BankCount - 1 /\ k + i - BankCount < k
        BY <1>2, <3>1, <3>4
      <4>2. OnFrom(At(h, k), i) = At(h, k + i - BankCount)
        BY <1>2, <3>2, <3>4, Places
      <4> QED
        BY <1>2, <3>1, <4>1, <4>2
    <3>5. k \in Int /\ i \in Int /\ BankCount \in Int
      BY <1>2, <3>1
    <3> QED
      BY <3>3, <3>4, <3>5
  <2>2. near = {}
    BY <2>1
  <2> QED
    BY <1>1, <2>2
<1> QED
  BY <1>4, <1>5

-----------------------------------------------------------------------------
(* How the banks to be read and those on their way back change in number at  *)
(* an edge of the core clock.                                                *)
CoreTurn(h, k, m, kk, mm) == /\ kk = IF Freezes(h) THEN k + 1 ELSE k
                             /\ mm = IF Released(h) = {} THEN m ELSE m - 1

(* What an edge of the core clock does to the arcs of the ring.              *)
LEMMA CoreTurns ==
    ASSUME HandInv, Closing, CoreEdge, NEW h \in Harts, NEW k, NEW m, Ring(h, k, m),
           NEW kk, NEW mm, CoreTurn(h, k, m, kk, mm)
    PROVE  /\ BankCount \in Nat /\ BankCount >= 2 /\ k \in Nat /\ m \in 0 .. 2 /\ k + m <= BankCount
           /\ kk \in Nat /\ mm \in 0 .. 1 /\ kk + mm <= BankCount
           /\ \A i \in 0 .. BankCount : At(h, i)' = At(h, i)
           /\ \A i \in 0 .. BankCount - 1 :
                 At(h, i) \in Released(h) <=> i >= BankCount - m /\ i < BankCount - mm
           /\ \A i \in 0 .. BankCount - 1 : Freezes(h) /\ At(h, i) = side[h].bank <=> i >= k /\ i < kk
           /\ Freezes(h) => k + m < BankCount /\ k \in 0 .. BankCount - 1
<1>0. LogTypes
  BY DEF HandInv
<1>1. /\ BankCount \in Nat /\ BankCount >= 2 /\ k \in Nat /\ m \in 0 .. 2 /\ k + m <= BankCount
      /\ Released(h) = {} \/ (m \in {1, 2} /\ Released(h) = {At(h, BankCount - m)})
      /\ m = 2 => Released(h) # {}
  BY ReleaseArrives
<1>2. Freezes(h) => k + m < BankCount /\ side[h].bank = At(h, k)
  BY FreezesNext
<1>3. Freezes(h) => k \in 0 .. BankCount - 1
  BY <1>1, <1>2
<1>4. mm \in 0 .. 1 /\ kk \in Nat /\ kk + mm <= BankCount
  BY <1>1, <1>2 DEF CoreTurn
<1>5. \A i \in 0 .. BankCount : At(h, i)' = At(h, i)
  BY DEF CoreEdge, uiVars, At
<1>6. ASSUME NEW i \in 0 .. BankCount - 1
      PROVE  At(h, i) \in Released(h) <=> i >= BankCount - m /\ i < BankCount - mm
  <2>1. CASE Released(h) = {}
    <3>1. mm = m
      BY <2>1 DEF CoreTurn
    <3> QED
      BY <1>1, <2>1, <3>1
  <2>2. CASE Released(h) # {}
    <3>1. m \in {1, 2} /\ Released(h) = {At(h, BankCount - m)} /\ mm = m - 1
      BY <1>1, <2>2 DEF CoreTurn
    <3>2. BankCount - m \in 0 .. BankCount - 1
      BY <1>1, <3>1
    <3>3. At(h, i) = At(h, BankCount - m) <=> i = BankCount - m
      BY <1>0, <3>2, Places
    <3>4. i = BankCount - m <=> i >= BankCount - m /\ i < BankCount - mm
      BY <1>1, <3>1
    <3> QED
      BY <3>1, <3>3, <3>4
  <2> QED
    BY <2>1, <2>2
<1>7. ASSUME NEW i \in 0 .. BankCount - 1
      PROVE  Freezes(h) /\ At(h, i) = side[h].bank <=> i >= k /\ i < kk
  <2>1. CASE Freezes(h)
    <3>1. kk = k + 1 /\ side[h].bank = At(h, k) /\ k \in 0 .. BankCount - 1
      BY <1>2, <1>3, <2>1 DEF CoreTurn
    <3>2. At(h, i) = At(h, k) <=> i = k
      BY <1>0, <3>1, Places
    <3> QED
      BY <2>1, <3>1, <3>2
  <2>2. CASE ~Freezes(h)
    <3>1. kk = k
      BY <2>2 DEF CoreTurn
    <3> QED
      BY <1>1, <2>2, <3>1
  <2> QED
    BY <2>1, <2>2
<1> QED
  BY <1>1, <1>2, <1>3, <1>4, <1>5, <1>6, <1>7

(* A bank that freezes joins the arc to be read, a freed one leaves the      *)
(* ring.                                                                     *)
LEMMA CoreKeepsArc ==
    ASSUME HandInv, Closing, CoreEdge, NEW h \in Harts, NEW k, NEW m, Ring(h, k, m),
           NEW kk, NEW mm, CoreTurn(h, k, m, kk, mm)
    PROVE  Arc(h, kk, mm)'
<1>0. LogTypes
  BY DEF HandInv
<1>1. /\ BankCount \in Nat /\ BankCount >= 2 /\ k \in Nat /\ m \in 0 .. 2 /\ k + m <= BankCount
      /\ kk \in Nat /\ mm \in 0 .. 1 /\ kk + mm <= BankCount
      /\ \A i \in 0 .. BankCount : At(h, i)' = At(h, i)
      /\ Freezes(h) => k + m < BankCount
  BY CoreTurns
<1>2. ASSUME NEW i \in 0 .. BankCount - 1
      PROVE  /\ At(h, i)' \in side'[h].owned <=> i < kk \/ i >= BankCount - mm
             /\ OnItsWay(h, At(h, i))' <=> i >= BankCount - mm
  <2> DEFINE b == At(h, i)
  <2>1. b \in Banks /\ At(h, i)' = b
    BY <1>0, <1>1, Places
  <2>2. /\ b \in side[h].owned <=> i < k \/ i >= BankCount - m
        /\ OnItsWay(h, b) <=> i >= BankCount - m
        /\ b \in Released(h) <=> i >= BankCount - m /\ i < BankCount - mm
        /\ Freezes(h) /\ b = side[h].bank <=> i >= k /\ i < kk
    BY CoreTurns DEF Ring, Arc
  <2>3. b \in side'[h].owned <=> \/ b \in side[h].owned /\ b \notin Released(h)
                                 \/ Freezes(h) /\ b = side[h].bank
    BY <2>1, WriterGoesOn
  <2>4. (b \in ui'[h].release \/ releaseSource'[h][b].toggle # releaseSync'[h][b][3])
          <=> OnItsWay(h, b) /\ b \notin Released(h)
    <3>1. \A a \in Banks :
            (a \in ui'[h].release \/ releaseSource'[h][a].toggle # releaseSync'[h][a][3])
              <=> OnItsWay(h, a) /\ a \notin Released(h)
      BY ReleasesMove DEF OnItsWay
    <3> HIDE DEF b
    <3> QED
      BY <2>1, <3>1
  <2>5. OnItsWay(h, At(h, i))' <=> OnItsWay(h, b) /\ b \notin Released(h)
    BY <2>1, <2>4 DEF OnItsWay
  <2>6. kk = k \/ (kk = k + 1 /\ k + m < BankCount)
    BY <1>1 DEF CoreTurn
  <2>7. mm <= m
    BY <1>1 DEF CoreTurn
  <2> HIDE DEF b
  <2>8. b \in side'[h].owned <=> i < kk \/ i >= BankCount - mm
    BY <1>1, <2>2, <2>3, <2>6, <2>7
  <2>9. OnItsWay(h, At(h, i))' <=> i >= BankCount - mm
    BY <1>1, <2>2, <2>5, <2>7
  <2> QED
    BY <2>1, <2>8, <2>9 DEF b
<1> QED
  BY <1>1, <1>2 DEF Arc

(* A core edge samples a release or passes it on, and keeps them apart.      *)
LEMMA CoreKeepsApart ==
    ASSUME HandInv, Closing, CoreEdge, NEW h \in Harts, NEW k, NEW m, Ring(h, k, m),
           NEW kk, NEW mm, CoreTurn(h, k, m, kk, mm)
    PROVE  Apart(h, mm)'
<1>1. mm # 2
  BY CoreTurns
<1>2. ui' = ui /\ uiEdges' = 0 /\ LogTypes
  BY DEF CoreEdge, uiVars, HandInv
<1>3. uiEdges \in 0 .. MaxUiEdges /\ MaxUiEdges \in Nat
  BY LogWriteAssumption DEF Closing, LogWriteAssumption
<1>4. ui[h].stable \in Int
  BY <1>2, StateTypes, ReaderFields, Sizes
<1>5. ASSUME NEW b \in Banks, OnItsWay(h, b)', ui'[h].active
      PROVE  /\ Unsampled(h, b)' => ui'[h].stable <= uiEdges'
             /\ ~Pulse(releaseSync'[h][b]) => ui'[h].stable <= MaxUiEdges + uiEdges'
  <2>1. /\ OnItsWay(h, b) /\ b \notin Released(h)
        /\ Unsampled(h, b)' <=> b \in ui[h].release
        /\ Pulse(releaseSync'[h][b]) <=> releaseSync[h][b][1] # releaseSync[h][b][2]
    BY <1>5, ReleasesMove
  <2>2. b \notin ui[h].release
    BY <1>2, <1>5 DEF HandInv, BankInv, ReleaseChain
  <2>3. ASSUME ~Pulse(releaseSync'[h][b]) PROVE ui[h].stable <= uiEdges
    <3>1. releaseSync[h][b][2] = releaseSync[h][b][3]
      BY <2>1 DEF Released, Pulse
    <3>2. releaseSource[h][b].toggle # releaseSync[h][b][3]
      BY <2>1, <2>2 DEF OnItsWay
    <3>3. Unsampled(h, b)
      BY <2>1, <2>3, <3>1, <3>2 DEF Unsampled
    <3> QED
      BY <1>2, <1>5, <2>1, <3>3 DEF Ring, Apart
  <2>4. ~Pulse(releaseSync'[h][b]) => ui[h].stable <= MaxUiEdges + 0
    BY <1>3, <1>4, <2>3
  <2> QED
    BY <1>2, <2>1, <2>2, <2>4
<1> QED
  BY <1>1, <1>5 DEF Apart

(* A core edge raises the level of the last bank only.                       *)
LEMMA CoreKeepsRising ==
    ASSUME HandInv, Closing, CoreEdge, Paced, NEW h \in Harts, NEW k, NEW m, Ring(h, k, m),
           NEW kk, NEW mm, CoreTurn(h, k, m, kk, mm)
    PROVE  Rising(h, kk)' /\ LastSeen(h, kk)'
<1>0. LogTypes /\ Frozen(h)
  BY DEF HandInv
<1>1. /\ ui' = ui /\ readySync' = readySync /\ ackSync' = ackSync /\ uiEdges' = 0
      /\ uiEdges >= MinUiEdges
  BY DEF CoreEdge, uiVars
<1>2. /\ BankCount \in Nat /\ BankCount >= 2 /\ k \in Nat /\ m \in 0 .. 2 /\ k + m <= BankCount
      /\ kk \in Nat /\ mm \in 0 .. 1 /\ kk + mm <= BankCount
      /\ \A i \in 0 .. BankCount : At(h, i)' = At(h, i)
      /\ Freezes(h) => k \in 0 .. BankCount - 1
  BY CoreTurns
<1>3. uiEdges >= 2
  BY <1>1, LogWriteAssumption DEF Paced, LogWriteAssumption, Closing
<1>4. \A b \in Banks : readySync[h][b][1] <=> b \in side[h].ready
  BY <1>3 DEF Ring, Rising
<1>5. ASSUME NEW i \in 0 .. kk - 1
      PROVE  /\ i \in 0 .. BankCount - 1 /\ At(h, i)' = At(h, i)
             /\ i < k => Shown(h, At(h, i), 1)
             /\ i >= k => Freezes(h) /\ i = k /\ \A n : ~Shown(h, At(h, i), n)
  <2>1. i \in 0 .. BankCount - 1 /\ At(h, i)' = At(h, i) /\ At(h, i) \in Banks
    <3>1. i \in 0 .. BankCount - 1 /\ i \in 0 .. BankCount
      BY <1>2
    <3> QED
      BY <1>0, <1>2, <3>1, Places
  <2>2. ASSUME i < k PROVE Shown(h, At(h, i), 1)
    <3>1. At(h, i) \in side[h].ready
      BY <1>0, <2>1, <2>2 DEF Ring, Arc, Frozen
    <3> QED
      BY <1>4, <2>1, <3>1 DEF Shown
  <2>3. ASSUME i >= k PROVE Freezes(h) /\ i = k /\ \A n : ~Shown(h, At(h, i), n)
    <3>1. Freezes(h) /\ i = k
      BY <1>2, <2>3 DEF CoreTurn
    <3>2. At(h, i) \notin side[h].ready
      BY <1>0, <3>1, FreezesNext DEF Frozen
    <3> QED
      BY <1>4, <2>1, <3>1, <3>2 DEF Shown
  <2> QED
    BY <2>1, <2>2, <2>3
<1>6. \A b, n : Shown(h, b, n)' <=> Shown(h, b, n)
  BY <1>1 DEF Shown
<1>7. ASSUME NEW i \in 0 .. kk - 1
      PROVE  /\ i < kk - 1 => Shown(h, At(h, i), 1)
             /\ Shown(h, At(h, i), 3) => At(h, i) \notin ui[h].completed
             /\ \A j \in 0 .. i - 1 : \A n \in 1 .. 3 :
                   Shown(h, At(h, i), n) => Shown(h, At(h, j), n)
  <2>1. CASE i < k
    <3>1. i \in 0 .. k - 1
      BY <1>2, <2>1
    <3> QED
      BY <1>5, <2>1, <3>1 DEF Ring, Rising
  <2>2. CASE i >= k
    <3>1. kk <= k + 1
      BY <1>2 DEF CoreTurn
    <3>2. ~(i < kk - 1)
      BY <1>2, <2>2, <3>1
    <3> QED
      BY <1>5, <2>2, <3>2
  <2>3. i \in Int /\ k \in Int
    BY <1>2
  <2> QED
    BY <2>1, <2>2, <2>3
<1>8. Rising(h, kk)'
  <2>1. \A i \in 0 .. kk - 1 : At(h, i)' = At(h, i)
    BY <1>5
  <2>2. \A i \in 0 .. kk - 1 : \A j \in 0 .. i - 1 : At(h, j)' = At(h, j)
    BY <1>2
  <2>3. \A i \in 0 .. kk - 1 : \A n : Shown(h, At(h, i), n)' <=> Shown(h, At(h, i), n)
    BY <1>1, <2>1 DEF Shown
  <2>4. \A i \in 0 .. kk - 1 : \A j \in 0 .. i - 1 : \A n :
           Shown(h, At(h, j), n)' <=> Shown(h, At(h, j), n)
    BY <1>1, <2>2 DEF Shown
  <2> QED
    BY <1>1, <1>7, <2>1, <2>3, <2>4 DEF Rising
<1>9. LastSeen(h, kk)'
  <2>1. ASSUME ackSync[h][1] PROVE kk = k
    <3>1. side[h].flushAck
      BY <2>1 DEF Closing
    <3> QED
      BY <3>1, FreezesNext DEF CoreTurn
  <2>2. /\ ackSync[h][2] => ackSync[h][1]
        /\ ackSync[h][3] => ackSync[h][2]
        /\ ui[h].guard # 0 => ackSync[h][3]
    BY DEF Closing
  <2>3. ASSUME NEW i \in 0 .. kk - 1
        PROVE  /\ ackSync[h][1] => Shown(h, At(h, i), 1)
               /\ ackSync[h][2] => Shown(h, At(h, i), 1)
               /\ ackSync[h][3] => Shown(h, At(h, i), 2)
               /\ ui[h].guard # 0 => Shown(h, At(h, i), 3)
    <3>1. CASE ackSync[h][1]
      <4>1. i \in 0 .. k - 1 /\ i < k
        BY <1>2, <2>1, <3>1
      <4> QED
        BY <1>5, <4>1 DEF Ring, LastSeen
    <3>2. CASE ~ackSync[h][1]
      BY <2>2, <3>2
    <3> QED
      BY <3>1, <3>2
  <2>4. \A i \in 0 .. kk - 1 : \A n : Shown(h, At(h, i), n)' <=> Shown(h, At(h, i), n)
    BY <1>1, <1>5 DEF Shown
  <2> QED
    BY <1>1, <2>3, <2>4 DEF LastSeen
<1> QED
  BY <1>8, <1>9

(* The bank the writer goes on with is the first free one.                   *)
LEMMA CoreKeepsFilling ==
    ASSUME HandInv, Closing, CoreEdge, NEW h \in Harts, NEW k, NEW m, Ring(h, k, m),
           NEW kk, NEW mm, CoreTurn(h, k, m, kk, mm)
    PROVE  Filling(h, kk, mm)'
<1> DEFINE c == side[h]
           d == side'[h]
           n == Offered(h)
<1>0. /\ LogTypes /\ c \in CoreSide /\ n \in 0 .. WritePorts /\ d \in CoreSide
      /\ c.bank \in Banks /\ d.bank \in Banks /\ c.valid \in BOOLEAN
  BY WriterEdge, SideFields DEF HandInv, WriterSide
<1>1. /\ BankCount \in Nat /\ BankCount >= 2 /\ k \in Nat /\ m \in 0 .. 2 /\ k + m <= BankCount
      /\ kk \in Nat /\ mm \in 0 .. 1 /\ kk + mm <= BankCount
      /\ \A i \in 0 .. BankCount : At(h, i)' = At(h, i)
  BY CoreTurns
<1>2. /\ d.flushAck <=> c.flushAck \/ pipelineDone
      /\ \A b \in Banks : b \in d.owned <=> \/ b \in c.owned /\ b \notin Released(h)
                                            \/ Freezes(h) /\ b = c.bank
      /\ Freezes(h) => c.valid /\ c.bank \notin c.owned
      /\ Fills(c, n) => /\ d.valid <=> /\ NextFree(c) # {}
                                       /\ ~FreezesTail(c, n, pipelineDone)
                        /\ d.valid => d.bank \in NextFree(c)
      /\ ~Fills(c, n) /\ c.valid => /\ d.valid <=> ~FreezesTail(c, n, pipelineDone)
                                    /\ d.bank = c.bank
      /\ ~c.valid => /\ ~Freezes(h)
                     /\ Released(h) # {} => d.valid /\ d.bank \in Released(h)
                     /\ Released(h) = {} => /\ d.valid <=> Free(c) # {}
                                            /\ d.valid => d.bank \in Free(c)
  BY WriterGoesOn
<1>3. ASSUME NEW b \in Banks
      PROVE  /\ d.count[b] = IF b \in Released(h) THEN 0 ELSE c.count[b] + WrittenTo(c, n)[b]
             /\ WrittenTo(c, n)[b] = IF b = c.bank THEN Here(c, n)
                                     ELSE IF b \in NextFree(c) THEN There(c, n) ELSE 0
             /\ c.count[b] \in Nat
  <2>1. c.count[b] \in Nat
    BY <1>0, SideFields, Sizes
  <2> QED
    BY <1>0, <2>1, CoreEdgeOnBank, PortionGives, Writes
<1>4. /\ Here(c, n) \in Nat /\ There(c, n) \in Nat
      /\ Here(c, n) # 0 => c.valid
      /\ There(c, n) # 0 => Fills(c, n) /\ NextFree(c) # {}
      /\ Fills(c, n) => c.valid
  BY <1>0, Shares
<1>5. \A b \in Banks \ c.owned : c.count[b] # 0 => c.valid /\ c.bank = b /\ ~c.flushAck
  BY DEF Ring, Filling
<1>6. ~pipelineDone => ~FreezesTail(c, n, pipelineDone)
  BY DEF FreezesTail
<1>7. Freezes(h) <=> Fills(c, n) \/ FreezesTail(c, n, pipelineDone)
  BY DEF Freezes
<1>8. c.flushAck => pipelineDone
  BY DEF Closing
<1>9. pipelineDone => n = 0 /\ Here(c, n) = 0 /\ There(c, n) = 0
  BY NothingOffered
<1>10. \A x \in NextFree(c) : NextFree(c) = {x}
  BY <1>0, NextIsFree
<1>11. FreezesTail(c, n, pipelineDone) <=> /\ pipelineDone /\ c.valid /\ c.bank \notin c.owned
                                           /\ c.count[c.bank] + Here(c, n) # 0
  BY DEF FreezesTail
<1>12. ~c.flushAck /\ c.valid => c.bank = At(h, k) /\ k + m < BankCount
  BY DEF Ring, Filling
<1>13. ~c.flushAck /\ ~c.valid => /\ k + m >= BankCount - 1
                                  /\ k + m < BankCount => Released(h) = {}
  BY DEF Ring, Filling, Released
<1>14. \A i \in 0 .. BankCount - 1 : At(h, i) \in c.owned <=> i < k \/ i >= BankCount - m
  BY DEF Ring, Arc
<1>15. ~c.flushAck /\ c.valid => /\ k + 1 + m < BankCount => NextFree(c) = {At(h, k + 1)}
                                 /\ k + 1 + m = BankCount => NextFree(c) = {}
  BY FreeAhead
<1>16. Released(h) = {} \/ (m \in {1, 2} /\ Released(h) = {At(h, BankCount - m)})
  BY ReleaseArrives
<1>17. (kk = IF Freezes(h) THEN k + 1 ELSE k) /\ (mm = IF Released(h) = {} THEN m ELSE m - 1)
  BY DEF CoreTurn
<1>18. ASSUME mm # m, NEW b \in Banks PROVE ~Pulse(releaseSync'[h][b])
  <2>1. Released(h) # {} /\ mm = m - 1
    BY <1>17, <1>18
  <2>2. SUFFICES ASSUME OnItsWay(h, b), ~Unsampled(h, b), b \notin Released(h)
                 PROVE  FALSE
    BY ReleasesMove
  <2>3. PICK i \in 0 .. BankCount - 1 : At(h, i) = b
    BY <1>0, Places
  <2>4. i >= BankCount - m /\ i # BankCount - m
    BY <1>16, <2>1, <2>2, <2>3 DEF Ring, Arc
  <2>5. m = 2 /\ i = BankCount - 1
    BY <1>1, <2>3, <2>4
  <2>6. Unsampled(h, At(h, BankCount - 1))
    BY <2>5 DEF Ring, Apart
  <2> QED
    BY <2>2, <2>3, <2>5, <2>6
<1> HIDE DEF c, d, n
<1>19. ASSUME NEW b \in Banks, b \notin d.owned, d.count[b] # 0
       PROVE  d.valid /\ d.bank = b /\ ~d.flushAck
  <2>1. b \notin Released(h) /\ c.count[b] + WrittenTo(c, n)[b] # 0
    BY <1>3, <1>19
  <2>2. b \notin c.owned /\ (Freezes(h) => b # c.bank)
    BY <1>2, <1>19, <2>1
  <2>3. c.count[b] # 0 => c.valid /\ c.bank = b /\ ~c.flushAck
    BY <1>5, <2>2
  <2>4. WrittenTo(c, n)[b] # 0 => \/ b = c.bank /\ Here(c, n) # 0
                                  \/ b # c.bank /\ b \in NextFree(c) /\ There(c, n) # 0
    BY <1>3
  <2>5. c.count[b] # 0 \/ WrittenTo(c, n)[b] # 0
    BY <2>1
  <2>6. c.valid
    BY <1>4, <2>3, <2>4, <2>5
  <2>7. ~pipelineDone
    <3> SUFFICES ASSUME pipelineDone PROVE FALSE
      OBVIOUS
    <3>1. c.count[b] # 0 /\ c.bank = b
      BY <1>9, <2>3, <2>4, <2>5
    <3>2. c.count[b] + Here(c, n) # 0
      BY <1>3, <1>4, <3>1
    <3> QED
      BY <1>7, <1>11, <2>2, <2>6, <3>1, <3>2
  <2>8. CASE Fills(c, n)
    <3>1. b # c.bank
      BY <1>7, <2>2, <2>8
    <3>2. b \in NextFree(c)
      BY <2>3, <2>4, <2>5, <3>1
    <3> QED
      BY <1>2, <1>6, <1>8, <1>10, <2>7, <2>8, <3>2
  <2>9. CASE ~Fills(c, n)
    <3>1. b = c.bank
      BY <1>4, <2>3, <2>4, <2>5, <2>9
    <3> QED
      BY <1>2, <1>6, <1>8, <2>6, <2>7, <2>9, <3>1
  <2> QED
    BY <2>8, <2>9
<1>20. ASSUME ~d.flushAck
       PROVE  /\ d.valid => d.bank = At(h, kk) /\ kk + mm < BankCount
              /\ ~d.valid => kk + mm >= BankCount - 1
              /\ ~d.valid /\ kk + mm < BankCount => \A b \in Banks : ~Pulse(releaseSync'[h][b])
  <2>1. ~c.flushAck /\ ~pipelineDone /\ ~FreezesTail(c, n, pipelineDone)
    BY <1>2, <1>6, <1>20
  <2>2. mm <= m /\ mm >= m - 1
    BY <1>1, <1>17
  <2>3. CASE Fills(c, n)
    <3>1. c.valid /\ kk = k + 1 /\ k + m < BankCount
      BY <1>4, <1>7, <1>12, <1>17, <2>1, <2>3
    <3>2. CASE k + 1 + m < BankCount
      <4>1. d.valid /\ d.bank = At(h, k + 1)
        BY <1>2, <1>15, <2>1, <2>3, <3>1, <3>2
      <4> QED
        BY <1>1, <2>2, <3>1, <3>2, <4>1
    <3>3. CASE k + 1 + m = BankCount
      <4>1. ~d.valid
        BY <1>2, <1>15, <2>1, <2>3, <3>1, <3>3
      <4>2. kk + mm >= BankCount - 1 /\ (kk + mm < BankCount => mm # m)
        BY <1>1, <2>2, <3>1, <3>3
      <4> QED
        BY <1>18, <4>1, <4>2
    <3> QED
      BY <1>1, <3>1, <3>2, <3>3
  <2>4. CASE ~Fills(c, n) /\ c.valid
    <3>1. d.valid /\ d.bank = At(h, k) /\ kk = k /\ k + m < BankCount
      BY <1>2, <1>7, <1>12, <1>17, <2>1, <2>4
    <3> QED
      BY <1>1, <2>2, <3>1
  <2>5. CASE ~c.valid
    <3>1. kk = k /\ k + m >= BankCount - 1 /\ (k + m < BankCount => Released(h) = {})
      BY <1>2, <1>13, <1>17, <2>1, <2>5
    <3>2. CASE Released(h) # {}
      <4>1. k + m = BankCount /\ mm = m - 1 /\ m \in {1, 2} /\ Released(h) = {At(h, BankCount - m)}
        BY <1>1, <1>16, <1>17, <3>1, <3>2
      <4>2. BankCount - m = k
        BY <1>1, <4>1
      <4>3. d.valid /\ d.bank = At(h, k)
        BY <1>2, <2>5, <3>2, <4>1, <4>2
      <4> QED
        BY <1>1, <3>1, <4>1, <4>3
    <3>3. CASE Released(h) = {}
      <4>0. mm = m /\ (d.valid <=> Free(c) # {}) /\ (d.valid => d.bank \in Free(c))
        BY <1>2, <1>17, <2>5, <3>3
      <4>1. \A b \in Banks : b \in Free(c) <=> b \notin c.owned
        BY <1>5, <2>5 DEF Free
      <4>2. Free(c) \subseteq Banks
        BY DEF Free
      <4>3. ASSUME NEW b \in Free(c) PROVE k + m = BankCount - 1 /\ b = At(h, k)
        <5>1. b \in Banks /\ b \notin c.owned
          BY <4>1, <4>2, <4>3
        <5>2. PICK i \in 0 .. BankCount - 1 : At(h, i) = b
          BY <1>0, <5>1, Places
        <5>3. i >= k /\ i < BankCount - m
          BY <1>1, <1>14, <5>1, <5>2
        <5>4. i = k /\ k + m = BankCount - 1
          BY <1>1, <3>1, <5>2, <5>3
        <5> QED
          BY <5>2, <5>4
      <4>4. ASSUME k + m = BankCount - 1 PROVE Free(c) # {}
        <5>1. k \in 0 .. BankCount - 1 /\ ~(k < k \/ k >= BankCount - m)
          BY <1>1, <4>4
        <5>2. At(h, k) \notin c.owned
          BY <1>14, <5>1
        <5>3. At(h, k) \in Banks
          <6>1. k \in 0 .. BankCount
            BY <1>1, <5>1
          <6> QED
            BY <1>0, <6>1, Places
        <5> QED
          BY <4>1, <5>2, <5>3
      <4>5. CASE d.valid
        BY <1>1, <3>1, <4>0, <4>3, <4>5
      <4>6. CASE ~d.valid
        <5>1. k + m = BankCount
          BY <1>1, <3>1, <4>0, <4>4, <4>6
        <5> QED
          BY <1>1, <3>1, <4>0, <4>6, <5>1
      <4> QED
        BY <4>5, <4>6
    <3> QED
      BY <3>2, <3>3
  <2> QED
    BY <2>3, <2>4, <2>5
<1>21. At(h, kk)' = At(h, kk)
  BY <1>1
<1> QED
  BY <1>19, <1>20, <1>21 DEF c, d, Filling

(* An edge of the core clock keeps the order of the ring.                    *)
LEMMA CoreKeepsRing ==
    ASSUME HandInv, Closing, CoreEdge, Paced, NEW h \in Harts, NEW k, NEW m, Ring(h, k, m),
           NEW kk, NEW mm, CoreTurn(h, k, m, kk, mm)
    PROVE  Ring(h, kk, mm)'
<1>1. Arc(h, kk, mm)'
  BY CoreKeepsArc
<1>2. Apart(h, mm)'
  BY CoreKeepsApart
<1>3. Rising(h, kk)' /\ LastSeen(h, kk)'
  BY CoreKeepsRising
<1>4. Reading(h)'
  <2>1. ui' = ui
    BY DEF CoreEdge, uiVars
  <2> QED
    BY <2>1 DEF Ring, Reading
<1>5. Filling(h, kk, mm)'
  BY CoreKeepsFilling
<1> QED
  BY <1>1, <1>2, <1>3, <1>4, <1>5 DEF Ring

-----------------------------------------------------------------------------
(* What an edge of the reader's clock leaves of the synchronisers.           *)
LEMMA Sampled ==
    ASSUME LogTypes, NEW axi, UiEdgeWith(axi), NEW h \in Harts, NEW b \in Banks
    PROVE  /\ uiEdges # 0 => readySync'[h][b][1] = (b \in side[h].ready)
           /\ \/ readySync'[h][b][1] = readySync[h][b][1]
              \/ readySync'[h][b][1] = (b \in side[h].ready)
           /\ readySync'[h][b][2] = readySync[h][b][1]
           /\ readySync'[h][b][3] = readySync[h][b][2]
<1>1. PICK missed \in SUBSET Moving :
        readySync' = [g \in Harts |-> [c \in Banks |->
                         Shift(readySync[g][c], Seen(<<"ready", g, c>>, missed))]]
  BY DEF UiEdgeWith
<1>2. readySync'[h][b] = Shift(readySync[h][b], Seen(<<"ready", h, b>>, missed))
  BY <1>1
<1>3. /\ readySync'[h][b][1] = Seen(<<"ready", h, b>>, missed)
      /\ readySync'[h][b][2] = readySync[h][b][1] /\ readySync'[h][b][3] = readySync[h][b][2]
  BY <1>2, ShiftGives
<1>4. Source(<<"ready", h, b>>) = (b \in side[h].ready)
  BY DEF Source
<1>5. uiEdges # 0 => Seen(<<"ready", h, b>>, missed) = (b \in side[h].ready)
  <2>1. uiEdges # 0 => <<"ready", h, b>> \notin missed
    BY <1>1 DEF Moving
  <2> QED
    BY <1>4, <2>1 DEF Seen
<1> QED
  BY <1>3, <1>5, SeenLevels

(* The level of a frozen bank moves on by a stage.                           *)
LEMMA Rises ==
    ASSUME LogTypes, NEW axi, UiEdgeWith(axi), NEW h \in Harts, NEW b \in side[h].ready
    PROVE  /\ Shown(h, b, 1) \/ uiEdges # 0 => Shown(h, b, 1)'
           /\ Shown(h, b, 2)' <=> Shown(h, b, 1)
           /\ Shown(h, b, 3)' <=> Shown(h, b, 2)
           /\ b \in Banks
<1>1. b \in Banks
  BY StateTypes, SideFields
<1> DEFINE x == readySync'[h][b][1]
           y == readySync[h][b]
<1>2. /\ uiEdges # 0 => x = TRUE
      /\ x = y[1] \/ x = TRUE
      /\ readySync'[h][b][2] = y[1] /\ readySync'[h][b][3] = y[2]
  BY <1>1, Sampled
<1>3. /\ Shown(h, b, 1)' <=> x
      /\ Shown(h, b, 2)' <=> x /\ y[1]
      /\ Shown(h, b, 3)' <=> x /\ y[1] /\ y[2]
  <2>1. /\ Shown(h, b, 1)' <=> x
        /\ Shown(h, b, 2)' <=> x /\ readySync'[h][b][2]
        /\ Shown(h, b, 3)' <=> x /\ readySync'[h][b][2] /\ readySync'[h][b][3]
    BY DEF Shown
  <2> QED
    BY <1>2, <2>1
<1>4. /\ Shown(h, b, 1) <=> y[1]
      /\ Shown(h, b, 2) <=> y[1] /\ y[2]
  BY DEF Shown
<1>5. y[1] \in BOOLEAN /\ y[2] \in BOOLEAN /\ x \in BOOLEAN
  <2>1. y[1] \in BOOLEAN /\ y[2] \in BOOLEAN
    BY <1>1, BankTypes
  <2> QED
    BY <1>2, <2>1
<1> HIDE DEF x, y
<1> QED
  BY <1>1, <1>2, <1>3, <1>4, <1>5

(* An edge of the UI clock passes the end of capture on in order.            *)
LEMMA UiKeepsClosing ==
    ASSUME HandInv, Closing, NEW axi, UiEdgeWith(axi)
    PROVE  Closing'
<1>1. LogTypes
  BY DEF HandInv
<1>2. /\ uiEdges < MaxUiEdges /\ uiEdges' = uiEdges + 1
      /\ captureDone' = captureDone /\ pipelineDone' = pipelineDone /\ queue' = queue
      /\ side' = side
  BY DEF UiEdgeWith, coreVars
<1>3. uiEdges' \in 0 .. MaxUiEdges
  BY <1>2, LogWriteAssumption DEF Closing, LogWriteAssumption
<1>4. doneSync'[2] = doneSync[1] /\ (doneSync'[1] = doneSync[1] \/ doneSync'[1] = pipelineDone)
  <2>1. 0 \in Harts
    BY DEF Harts
  <2>2. \/ doneSync' = Shift(doneSync, doneSync[1])
        \/ doneSync' = Shift(doneSync, pipelineDone)
    BY <1>1, <2>1, UiEdgeOnFifo
  <2> QED
    BY <2>2, ShiftGives
<1>5. /\ doneSync'[1] => pipelineDone
      /\ doneSync'[2] => doneSync'[1]
  <2>1. doneSync[1] => pipelineDone
    BY DEF Closing
  <2> QED
    BY <1>4, <2>1
<1>6. ASSUME NEW h \in Harts
      PROVE  /\ side[h].flushAck => pipelineDone
             /\ ackSync'[h][1] => side[h].flushAck
             /\ ackSync'[h][2] => ackSync'[h][1]
             /\ ackSync'[h][3] => ackSync'[h][2]
             /\ ui'[h].guard # 0 => ackSync'[h][3]
  <2>1. /\ side[h].flushAck => pipelineDone
        /\ ackSync[h][1] => side[h].flushAck
        /\ ackSync[h][2] => ackSync[h][1]
        /\ ackSync[h][3] => ackSync[h][2]
        /\ ui[h].guard # 0 => ackSync[h][3]
    BY DEF Closing
  <2>2. /\ ackSync'[h][2] = ackSync[h][1] /\ ackSync'[h][3] = ackSync[h][2]
        /\ ackSync'[h][1] = ackSync[h][1] \/ ackSync'[h][1] = side[h].flushAck
    <3>1. \/ ackSync'[h] = Shift(ackSync[h], ackSync[h][1])
          \/ ackSync'[h] = Shift(ackSync[h], side[h].flushAck)
      BY <1>1, UiEdgeOnFifo
    <3> QED
      BY <3>1, ShiftGives
  <2>3. ui'[h].guard = Guarded(ui[h], SyncOut(ackSync[h]))
    BY <1>1, UiEdgeOnFifo DEF UiStepped
  <2>4. ui'[h].guard # 0 => ui[h].guard # 0 \/ ackSync[h][3]
    BY <2>3 DEF Guarded, SyncOut
  <2> QED
    BY <2>1, <2>2, <2>4
<1>7. /\ pipelineDone => captureDone /\ \A h \in Harts : queue[h] = <<>>
      /\ captureDone \in BOOLEAN
  BY DEF Closing
<1> QED
  BY <1>2, <1>3, <1>5, <1>6, <1>7 DEF Closing

-----------------------------------------------------------------------------
(* The bank that ends is the first one to be read, and goes to the back.     *)
UiTurn(h, k, m, kk, mm) ==
    /\ kk = IF Ends(ui[h], batchDone[h]) THEN k - 1 ELSE k
    /\ mm = IF Ends(ui[h], batchDone[h]) THEN m + 1 ELSE m

(* By then the releases before it have come through, or nearly so.           *)
LEMMA EndsApart ==
    ASSUME HandInv, Closing, Paced, NEW axi, UiEdgeWith(axi), NEW h \in Harts,
           NEW k, NEW m, Ring(h, k, m), Ends(ui[h], batchDone[h])
    PROVE  /\ k >= 1 /\ m # 2 /\ ui[h].bank = At(h, 0) /\ At(h, 0) \in side[h].owned
           /\ m = 1 => Pulse(releaseSync[h][At(h, BankCount - 1)])
<1>1. LogTypes /\ Frozen(h) /\ BankInv(h)
  BY DEF HandInv
<1>2. ui[h].active /\ ui[h].claimed
  BY DEF Ends
<1>3. /\ ui[h].bank = At(h, 0) /\ ui[h].stable = StableCycles
      /\ At(h, 0) \in Banks /\ 0 \in 0 .. BankCount - 1 /\ BankCount - 1 \in 0 .. BankCount - 1
      /\ At(h, BankCount - 1) \in Banks
  <2>1. ui[h].bank = ui[h].pointer /\ ui[h].stable = StableCycles
    BY <1>2 DEF Ring, Reading
  <2>2. 0 \in 0 .. BankCount - 1 /\ BankCount - 1 \in 0 .. BankCount - 1
        /\ 0 \in 0 .. BankCount /\ BankCount - 1 \in 0 .. BankCount
    BY Sizes
  <2> QED
    BY <1>1, <2>1, <2>2, Places
<1>4. At(h, 0) \in side[h].owned /\ ~OnItsWay(h, At(h, 0))
  <2>1. Picked(h, At(h, 0))
    BY <1>2, <1>3 DEF Picked
  <2>2. ReadyChain(h, At(h, 0))
    BY <1>1, <1>3 DEF BankInv
  <2> QED
    BY <1>1, <2>1, <2>2 DEF ReadyChain, Frozen
<1>5. k \in Nat /\ m \in 0 .. 2
  BY DEF Ring, Arc
<1>6. k >= 1
  <2>1. 0 < k \/ 0 >= BankCount - m
    BY <1>3, <1>4 DEF Ring, Arc
  <2>2. ~(0 >= BankCount - m)
    BY <1>3, <1>4 DEF Ring, Arc
  <2> QED
    BY <1>5, <2>1, <2>2
<1>7. /\ uiEdges < MaxUiEdges /\ uiEdges \in Nat /\ MaxUiEdges \in Nat
      /\ 2 * MaxUiEdges <= StableCycles /\ StableCycles \in Nat
  BY LogWriteAssumption, Sizes DEF UiEdgeWith, Closing, LogWriteAssumption, Paced
<1>8. m # 2
  <2>1. SUFFICES ASSUME m = 2 PROVE FALSE
    OBVIOUS
  <2>2. BankCount - 1 >= BankCount - m
    BY <2>1, Sizes
  <2>3. OnItsWay(h, At(h, BankCount - 1)) /\ Unsampled(h, At(h, BankCount - 1))
    BY <1>3, <2>1, <2>2 DEF Ring, Arc, Apart
  <2>4. ui[h].stable <= uiEdges
    BY <1>2, <1>3, <2>3 DEF Ring, Apart
  <2> QED
    BY <1>3, <1>7, <2>4
<1>9. ASSUME m = 1 PROVE Pulse(releaseSync[h][At(h, BankCount - 1)])
  <2>1. BankCount - 1 >= BankCount - m
    BY <1>9, Sizes
  <2>2. OnItsWay(h, At(h, BankCount - 1))
    BY <1>3, <2>1 DEF Ring, Arc
  <2>3. ~Pulse(releaseSync[h][At(h, BankCount - 1)]) => ui[h].stable <= MaxUiEdges + uiEdges
    BY <1>2, <1>3, <2>2 DEF Ring, Apart
  <2> QED
    BY <1>3, <1>7, <2>3
<1> QED
  BY <1>3, <1>4, <1>6, <1>8, <1>9

(* What an edge of the UI clock does to the arcs of the ring.                *)
LEMMA UiTurns ==
    ASSUME HandInv, Closing, Paced, NEW axi, UiEdgeWith(axi), NEW h \in Harts,
           NEW k, NEW m, Ring(h, k, m), NEW kk, NEW mm, UiTurn(h, k, m, kk, mm)
    PROVE  /\ BankCount \in Nat /\ BankCount >= 2 /\ k \in Nat /\ m \in 0 .. 2 /\ k + m <= BankCount
           /\ kk \in Nat /\ mm \in 0 .. 2 /\ kk + mm = k + m /\ k - kk \in {0, 1}
           /\ k - kk = 1 <=> Ends(ui[h], batchDone[h])
           /\ \A i \in 0 .. BankCount - 1 : At(h, i)' = At(h, i + (k - kk))
           /\ At(h, BankCount) = At(h, 0)
<1>1. /\ LogTypes
      /\ BankCount \in Nat /\ BankCount >= 2 /\ k \in Nat /\ m \in 0 .. 2 /\ k + m <= BankCount
  BY Sizes DEF HandInv, Ring, Arc
<1>2. Ends(ui[h], batchDone[h]) => k >= 1 /\ m # 2 /\ ui[h].bank = At(h, 0)
  BY EndsApart
<1>3. Ends(ui[h], batchDone[h]) \in BOOLEAN
  BY <1>1, StateTypes, ReaderFields DEF Ends
<1>4. /\ kk \in Nat /\ mm \in 0 .. 2 /\ kk + mm = k + m /\ k - kk \in {0, 1}
      /\ k - kk = 1 <=> Ends(ui[h], batchDone[h])
  <2>1. CASE Ends(ui[h], batchDone[h])
    <3>1. kk = k - 1 /\ mm = m + 1
      BY <2>1 DEF UiTurn
    <3> QED
      BY <1>1, <1>2, <2>1, <3>1
  <2>2. CASE ~Ends(ui[h], batchDone[h])
    <3>1. kk = k /\ mm = m
      BY <2>2 DEF UiTurn
    <3> QED
      BY <1>1, <2>2, <3>1
  <2> QED
    BY <2>1, <2>2
<1>5. At(h, 0) = ui[h].pointer
  BY <1>1, Places
<1>6. ui'[h].pointer = IF Ends(ui[h], batchDone[h]) THEN OnFrom(ui[h].bank, 1) ELSE ui[h].pointer
  BY <1>1, UiEdgeOnFifo DEF UiStepped
<1>7. ui'[h].pointer = At(h, k - kk)
  <2>1. CASE Ends(ui[h], batchDone[h])
    <3>1. ui'[h].pointer = OnFrom(ui[h].pointer, 1) /\ k - kk = 1
      BY <1>2, <1>4, <1>5, <1>6, <2>1
    <3> QED
      BY <3>1 DEF At
  <2>2. CASE ~Ends(ui[h], batchDone[h])
    <3>1. k - kk = 0
      BY <1>4, <2>2
    <3> QED
      BY <1>5, <1>6, <2>2, <3>1
  <2> QED
    BY <2>1, <2>2
<1>8. ASSUME NEW i \in 0 .. BankCount - 1 PROVE At(h, i)' = At(h, i + (k - kk))
  <2>1. At(h, i)' = OnFrom(At(h, k - kk), i)
    BY <1>7 DEF At
  <2> DEFINE e == k - kk
  <2>2. e \in 0 .. BankCount /\ i \in 0 .. BankCount /\ e + i <= BankCount /\ e + i = i + e
    BY <1>1, <1>4
  <2> HIDE DEF e
  <2>3. OnFrom(At(h, e), i) = At(h, e + i)
    BY <1>1, <2>2, Places
  <2> QED
    BY <2>1, <2>2, <2>3 DEF e
<1>9. At(h, BankCount) = At(h, 0)
  <2>1. BankCount \in 0 .. BankCount /\ 0 \in 0 .. BankCount
    BY <1>1
  <2>2. ui[h].pointer \in Banks
    BY <1>1, StateTypes, ReaderFields
  <2> QED
    BY <2>1, <2>2, RingStep DEF At
<1> QED
  BY <1>1, <1>4, <1>8, <1>9

(* A bank that is given back goes from the front of the ring to its end.     *)
LEMMA UiKeepsArc ==
    ASSUME HandInv, Closing, Paced, NEW axi, UiEdgeWith(axi), NEW h \in Harts,
           NEW k, NEW m, Ring(h, k, m), NEW kk, NEW mm, UiTurn(h, k, m, kk, mm)
    PROVE  Arc(h, kk, mm)'
<1> DEFINE e == k - kk
<1>1. /\ BankCount \in Nat /\ BankCount >= 2 /\ k \in Nat /\ m \in 0 .. 2 /\ k + m <= BankCount
      /\ kk \in Nat /\ mm \in 0 .. 2 /\ kk + mm = k + m /\ e \in {0, 1}
      /\ e = 1 <=> Ends(ui[h], batchDone[h])
      /\ \A i \in 0 .. BankCount - 1 : At(h, i)' = At(h, i + e)
      /\ At(h, BankCount) = At(h, 0)
  BY UiTurns
<1>2. kk = k - e /\ mm = m + e
  BY <1>1
<1>3. LogTypes /\ side' = side
  BY DEF HandInv, UiEdgeWith, coreVars
<1>4. e = 1 => k >= 1 /\ ui[h].bank = At(h, 0) /\ At(h, 0) \in side[h].owned
  BY <1>1, EndsApart
<1>5. ui'[h].release = IF e = 1 THEN {At(h, 0)} ELSE {}
  <2>1. ui'[h].release = IF Ends(ui[h], batchDone[h]) THEN {ui[h].bank} ELSE {}
    BY <1>3, UiEdgeOnFifo DEF UiStepped
  <2> QED
    BY <1>1, <1>4, <2>1
<1>6. \A b \in Banks : /\ b \in ui'[h].release \/ releaseSource'[h][b].toggle # releaseSync'[h][b][3]
                          <=> OnItsWay(h, b) \/ b \in ui'[h].release
  <2> SUFFICES ASSUME NEW b \in Banks
               PROVE  b \in ui'[h].release \/ releaseSource'[h][b].toggle # releaseSync'[h][b][3]
                          <=> OnItsWay(h, b) \/ b \in ui'[h].release
    OBVIOUS
  <2>1. OnItsWay(h, b)' <=> OnItsWay(h, b) \/ b \in ui'[h].release
    BY UiKeepsChains
  <2> QED
    BY <2>1 DEF OnItsWay
<1> HIDE DEF e
<1>7. ASSUME NEW i \in 0 .. BankCount - 1
      PROVE  /\ At(h, i)' \in side'[h].owned <=> i < kk \/ i >= BankCount - mm
             /\ OnItsWay(h, At(h, i))' <=> i >= BankCount - mm
  <2> DEFINE j == i + e
             b == At(h, j)
  <2>1. At(h, i)' = b
    BY <1>1
  <2>2. j \in 0 .. BankCount /\ (j = BankCount => e = 1 /\ i = BankCount - 1)
    BY <1>1
  <2>3. b \in Banks
    BY <1>3, <2>2, Places
  <2>4. /\ side'[h].owned = side[h].owned
        /\ OnItsWay(h, At(h, i))' <=> OnItsWay(h, b) \/ b \in ui'[h].release
    <3>1. OnItsWay(h, At(h, i))' <=>
             b \in ui'[h].release \/ releaseSource'[h][b].toggle # releaseSync'[h][b][3]
      BY <2>1 DEF OnItsWay
    <3>2. b \in ui'[h].release \/ releaseSource'[h][b].toggle # releaseSync'[h][b][3]
             <=> OnItsWay(h, b) \/ b \in ui'[h].release
      BY <1>6, <2>3
    <3> QED
      BY <1>3, <3>1, <3>2
  <2>5. CASE j = BankCount
    <3>1. b = At(h, 0) /\ e = 1
      BY <1>1, <2>2, <2>5
    <3>2. i >= BankCount - mm
      BY <1>1, <1>2, <2>2, <2>5
    <3> QED
      BY <1>4, <1>5, <2>1, <2>4, <3>1, <3>2
  <2>6. CASE j \in 0 .. BankCount - 1
    <3>1. /\ b \in side[h].owned <=> j < k \/ j >= BankCount - m
          /\ OnItsWay(h, b) <=> j >= BankCount - m
      BY <2>6 DEF Ring, Arc
    <3>2. b \notin ui'[h].release
      <4>1. CASE e = 1
        <5>1. j # 0 /\ 0 \in 0 .. BankCount - 1
          BY <1>1, <4>1
        <5>2. b # At(h, 0)
          BY <1>3, <2>6, <5>1, Places
        <5> QED
          BY <1>5, <5>2
      <4>2. CASE e # 1
        BY <1>5, <4>2
      <4> QED
        BY <4>1, <4>2
    <3>3. /\ j < k <=> i < kk
          /\ j >= BankCount - m <=> i >= BankCount - mm
      BY <1>1, <1>2
    <3> QED
      BY <2>1, <2>4, <3>1, <3>2, <3>3
  <2> QED
    BY <1>1, <2>2, <2>5, <2>6
<1>8. kk \in Nat /\ mm \in 0 .. 2 /\ kk + mm <= BankCount
  BY <1>1
<1> QED
  BY <1>7, <1>8 DEF Arc

(* A bank cannot be given back before the one before it has been sampled.    *)
LEMMA UiKeepsApart ==
    ASSUME HandInv, Closing, Paced, NEW axi, UiEdgeWith(axi), NEW h \in Harts,
           NEW k, NEW m, Ring(h, k, m), NEW kk, NEW mm, UiTurn(h, k, m, kk, mm)
    PROVE  Apart(h, mm)'
<1>1. /\ BankCount \in Nat /\ BankCount >= 2 /\ m \in 0 .. 2 /\ LogTypes
      /\ k - kk = 1 <=> Ends(ui[h], batchDone[h])
      /\ k - kk \in {0, 1}
      /\ \A i \in 0 .. BankCount - 1 : At(h, i)' = At(h, i + (k - kk))
      /\ At(h, BankCount) = At(h, 0)
  BY UiTurns DEF HandInv
<1>2. releaseSync' = releaseSync /\ uiEdges' = uiEdges + 1 /\ uiEdges \in Nat
  BY DEF UiEdgeWith, coreVars, Closing
<1> DEFINE u == ui[h]
           v == ui'[h]
           E == Ends(ui[h], batchDone[h])
<1>3. PICK occ \in Counts(h) \cap (0 .. BankRecords) :
        UiStepped(u, ReadyUi(h), SyncOut(ackSync[h]), occ, Dma!Selects(h, Offering),
                  batchDone[h], v)
  BY <1>1, UiEdgeOnFifo
<1>4. u.stable \in Nat /\ u.active \in BOOLEAN /\ u.claimed \in BOOLEAN
  BY <1>1, StateTypes, ReaderFields, Sizes
<1>5. /\ v.release = IF E THEN {u.bank} ELSE {}
      /\ E => ~v.active
      /\ ~E /\ v.active => IF u.active THEN v.stable <= u.stable + 1 ELSE v.stable = 0
  BY <1>3, <1>4 DEF UiStepped
<1>6. ASSUME NEW b \in Banks
      PROVE  /\ Unsampled(h, b)' <=> b \in v.release \/ releaseSource'[h][b].toggle # releaseSync[h][b][1]
             /\ Unsampled(h, b) => releaseSource'[h][b].toggle # releaseSync[h][b][1]
             /\ Unsampled(h, b)' /\ b \notin v.release => Unsampled(h, b)
             /\ OnItsWay(h, b)' <=> OnItsWay(h, b) \/ b \in v.release
  <2> DEFINE t == releaseSource[h][b]
             s == releaseSync[h][b]
             x == releaseSource'[h][b]
             r == b \in u.release
  <2>1. Unsampled(h, b)' <=> b \in v.release \/ x.toggle # s[1]
    BY <1>2 DEF Unsampled
  <2>2. /\ t.toggle = s[3] => s[1] = t.toggle
        /\ r => t.toggle = s[3] /\ ~t.last
    BY DEF HandInv, BankInv, ReleaseChain
  <2>3. t.toggle \in {0, 1} /\ t \in EventSource /\ s[1] \in {0, 1} /\ r \in BOOLEAN
    BY <1>1, BankTypes
  <2>4. x = SourceStep(t, r)
    BY <1>1, UiEdgeOnFifo
  <2>5. Unsampled(h, b) <=> r \/ t.toggle # s[1]
    BY DEF Unsampled
  <2> HIDE DEF t, s, x, r
  <2>6. x.toggle = IF r /\ ~t.last THEN 1 - t.toggle ELSE t.toggle
    BY <2>3, <2>4, SourceStepGives
  <2>7. /\ r => x.toggle # s[1]
        /\ ~r => x.toggle = t.toggle
    BY <2>2, <2>3, <2>6
  <2>8. OnItsWay(h, b)' <=> OnItsWay(h, b) \/ b \in v.release
    BY UiKeepsChains
  <2> QED
    BY <2>1, <2>5, <2>7, <2>8 DEF x, s
<1>7. ASSUME mm = 2
      PROVE  /\ Unsampled(h, At(h, BankCount - 1))'
             /\ Pulse(releaseSync[h][At(h, BankCount - 2)'])
  <2>1. /\ BankCount - 1 \in 0 .. BankCount - 1 /\ BankCount - 2 \in 0 .. BankCount - 1
        /\ At(h, BankCount - 1) \in Banks
    <3>1. /\ BankCount - 1 \in 0 .. BankCount - 1 /\ BankCount - 2 \in 0 .. BankCount - 1
          /\ BankCount - 1 \in 0 .. BankCount
      BY <1>1
    <3> QED
      BY <1>1, <3>1, Places
  <2>2. CASE E
    <3>1. k - kk = 1 /\ m = 1 /\ u.bank = At(h, 0)
          /\ Pulse(releaseSync[h][At(h, BankCount - 1)])
      <4>1. m = 1
        BY <1>1, <1>7, <2>2 DEF UiTurn
      <4> QED
        BY <1>1, <2>2, <4>1, EndsApart
    <3>2. /\ At(h, BankCount - 1)' = At(h, (BankCount - 1) + 1)
          /\ At(h, BankCount - 2)' = At(h, (BankCount - 2) + 1)
      BY <1>1, <2>1, <3>1
    <3>3. (BankCount - 1) + 1 = BankCount /\ (BankCount - 2) + 1 = BankCount - 1
      BY <1>1
    <3>4. At(h, BankCount - 1)' = u.bank
      BY <1>1, <3>1, <3>2, <3>3
    <3> QED
      BY <1>5, <2>2, <3>1, <3>2, <3>3, <3>4 DEF Unsampled
  <2>3. CASE ~E
    <3>1. k - kk = 0 /\ m = 2
      BY <1>1, <1>7, <2>3 DEF UiTurn
    <3>2. /\ At(h, BankCount - 1)' = At(h, (BankCount - 1) + 0)
          /\ At(h, BankCount - 2)' = At(h, (BankCount - 2) + 0)
      BY <1>1, <2>1, <3>1
    <3>3. (BankCount - 1) + 0 = BankCount - 1 /\ (BankCount - 2) + 0 = BankCount - 2
      BY <1>1
    <3>4. Unsampled(h, At(h, BankCount - 1)) /\ Pulse(releaseSync[h][At(h, BankCount - 2)])
      BY <3>1 DEF Ring, Apart
    <3>5. releaseSource'[h][At(h, BankCount - 1)].toggle # releaseSync[h][At(h, BankCount - 1)][1]
      BY <1>6, <2>1, <3>4
    <3> QED
      BY <1>2, <3>2, <3>3, <3>4, <3>5 DEF Unsampled
  <2> QED
    BY <2>2, <2>3
<1>8. ASSUME NEW b \in Banks, OnItsWay(h, b)', v.active
      PROVE  /\ Unsampled(h, b)' => v.stable <= uiEdges'
             /\ ~Pulse(releaseSync'[h][b]) => v.stable <= MaxUiEdges + uiEdges'
  <2>1. ~E
    BY <1>5, <1>8
  <2>2. b \notin v.release
    BY <1>5, <2>1
  <2>3. OnItsWay(h, b) /\ (Unsampled(h, b)' => Unsampled(h, b))
    BY <1>6, <1>8, <2>2
  <2>4. MaxUiEdges \in Nat
    BY LogWriteAssumption DEF LogWriteAssumption
  <2>5. CASE u.active
    <3>1. /\ Unsampled(h, b) => u.stable <= uiEdges
          /\ ~Pulse(releaseSync[h][b]) => u.stable <= MaxUiEdges + uiEdges
      BY <2>3, <2>5 DEF Ring, Apart
    <3>2. v.stable <= u.stable + 1 /\ v.stable \in Nat
      <4>1. v \in UiSide
        BY <1>3 DEF UiStepped
      <4> HIDE DEF v
      <4>2. v.stable \in Nat
        BY <4>1, ReaderFields, Sizes
      <4> QED
        BY <1>5, <1>8, <2>1, <2>5, <4>2
    <3> HIDE DEF u, v
    <3> QED
      BY <1>2, <1>4, <2>3, <2>4, <3>1, <3>2
  <2>6. CASE ~u.active
    <3>1. v.stable = 0
      BY <1>5, <1>8, <2>1, <2>6
    <3> QED
      BY <1>2, <2>4, <3>1
  <2> QED
    BY <2>5, <2>6
<1>9. mm = 2 => Pulse(releaseSync'[h][At(h, BankCount - 2)'])
  BY <1>2, <1>7
<1> QED
  BY <1>7, <1>8, <1>9 DEF Apart

(* The banks that are still to be read after an edge were so before it.      *)
LEMMA StillToRead ==
    ASSUME HandInv, Closing, Paced, NEW axi, UiEdgeWith(axi), NEW h \in Harts,
           NEW k, NEW m, Ring(h, k, m), NEW kk, NEW mm, UiTurn(h, k, m, kk, mm),
           NEW i \in 0 .. kk - 1
    PROVE  \E p \in 0 .. k - 1, b \in side[h].ready :
              /\ p = i + (k - kk) /\ b = At(h, p) /\ b = At(h, i)'
              /\ b # ui[h].bank \/ ~Ends(ui[h], batchDone[h])
<1>1. /\ BankCount \in Nat /\ BankCount >= 2 /\ k \in Nat /\ m \in 0 .. 2 /\ k + m <= BankCount
      /\ kk \in Nat /\ k - kk \in {0, 1}
      /\ k - kk = 1 <=> Ends(ui[h], batchDone[h])
      /\ \A j \in 0 .. BankCount - 1 : At(h, j)' = At(h, j + (k - kk))
  BY UiTurns
<1> DEFINE p == i + (k - kk)
           b == At(h, p)
<1>2. p \in 0 .. k - 1 /\ p \in 0 .. BankCount - 1 /\ i \in 0 .. BankCount - 1
      /\ (k - kk = 1 => p # 0) /\ 0 \in 0 .. BankCount - 1
  BY <1>1
<1>3. At(h, i)' = b
  BY <1>1, <1>2
<1>4. LogTypes /\ Frozen(h)
  BY DEF HandInv
<1>5. b \in side[h].ready
  <2>1. b \in side[h].owned
    BY <1>2 DEF Ring, Arc
  <2> QED
    BY <1>4, <2>1 DEF Frozen
<1>6. b # ui[h].bank \/ ~Ends(ui[h], batchDone[h])
  <2>1. SUFFICES ASSUME Ends(ui[h], batchDone[h]) PROVE b # ui[h].bank
    OBVIOUS
  <2>2. ui[h].bank = At(h, 0) /\ p # 0
    BY <1>1, <1>2, <2>1, EndsApart
  <2> QED
    BY <1>2, <1>4, <2>2, Places
<1> QED
  BY <1>2, <1>3, <1>5, <1>6

(* The levels move through their chains one stage at a time, in the order of *)
(* the ring.                                                                 *)
LEMMA UiKeepsRising ==
    ASSUME HandInv, Closing, Paced, NEW axi, UiEdgeWith(axi), NEW h \in Harts,
           NEW k, NEW m, Ring(h, k, m), NEW kk, NEW mm, UiTurn(h, k, m, kk, mm)
    PROVE  Rising(h, kk)' /\ LastSeen(h, kk)'
<1>1. /\ LogTypes /\ k \in Nat /\ kk \in Nat /\ k - kk \in {0, 1}
      /\ side' = side /\ uiEdges' = uiEdges + 1 /\ uiEdges \in Nat
  <2>1. k \in Nat /\ kk \in Nat /\ k - kk \in {0, 1}
    BY UiTurns
  <2>2. /\ LogTypes /\ side' = side /\ uiEdges' = uiEdges + 1 /\ uiEdges \in Nat
    BY DEF HandInv, UiEdgeWith, coreVars, Closing
  <2> QED
    BY <2>1, <2>2
<1>2. uiEdges' >= 2 => \A b \in Banks : readySync'[h][b][1] <=> b \in side'[h].ready
  <2>1. SUFFICES ASSUME uiEdges' >= 2, NEW b \in Banks
                 PROVE  readySync'[h][b][1] <=> b \in side[h].ready
    BY <1>1
  <2>2. uiEdges # 0
    BY <1>1, <2>1
  <2>3. readySync'[h][b][1] = (b \in side[h].ready)
    BY <1>1, <2>2, Sampled
  <2> QED
    BY <2>3
<1>3. ASSUME NEW i \in 0 .. kk - 1
      PROVE  /\ i < kk - 1 => Shown(h, At(h, i), 1)'
             /\ Shown(h, At(h, i), 3)' => At(h, i)' \notin ui'[h].completed
  <2>1. PICK p \in 0 .. k - 1, b \in side[h].ready :
              /\ p = i + (k - kk) /\ b = At(h, p) /\ b = At(h, i)'
              /\ b # ui[h].bank \/ ~Ends(ui[h], batchDone[h])
    BY StillToRead
  <2>2. /\ Shown(h, b, 1) \/ uiEdges # 0 => Shown(h, b, 1)'
        /\ Shown(h, b, 3)' <=> Shown(h, b, 2)
        /\ b \in Banks
    BY <1>1, Rises
  <2>3. /\ Shown(h, At(h, i), 1)' <=> Shown(h, b, 1)'
        /\ Shown(h, At(h, i), 3)' <=> Shown(h, b, 3)'
    BY <2>1 DEF Shown
  <2>4. i < kk - 1 => Shown(h, b, 1)
    <3>1. i < kk - 1 => p < k - 1
      BY <1>1, <2>1
    <3> QED
      BY <2>1, <3>1 DEF Ring, Rising
  <2>5. Shown(h, b, 2) => b \notin ui'[h].completed
    <3>1. SUFFICES ASSUME Shown(h, b, 2), b \in ui'[h].completed PROVE FALSE
      OBVIOUS
    <3>2. ui'[h].completed = (ui[h].completed \cap ReadyUi(h))
             \cup (IF Ends(ui[h], batchDone[h]) THEN {ui[h].bank} ELSE {})
      BY <1>1, UiEdgeOnFifo DEF UiStepped
    <3>3. b \in ui[h].completed /\ readySync[h][b][3]
      BY <2>1, <3>1, <3>2 DEF ReadyUi, SyncOut
    <3>4. Shown(h, b, 3)
      BY <3>1, <3>3 DEF Shown
    <3> QED
      BY <2>1, <3>3, <3>4 DEF Ring, Rising
  <2> QED
    BY <2>1, <2>2, <2>3, <2>4, <2>5
<1>4. ASSUME NEW i \in 0 .. kk - 1, NEW j \in 0 .. i - 1, NEW n \in 1 .. 3, Shown(h, At(h, i), n)'
      PROVE  Shown(h, At(h, j), n)'
  <2>1. PICK p \in 0 .. k - 1, b \in side[h].ready :
              p = i + (k - kk) /\ b = At(h, p) /\ b = At(h, i)'
    BY StillToRead
  <2>2. j \in 0 .. kk - 1
    BY <1>1
  <2>3. PICK q \in 0 .. k - 1, c \in side[h].ready :
              q = j + (k - kk) /\ c = At(h, q) /\ c = At(h, j)'
    BY <2>2, StillToRead
  <2>4. q \in 0 .. p - 1 /\ q < k - 1
    BY <1>1, <2>1, <2>3
  <2>5. /\ Shown(h, c, 1)
        /\ \A l \in 1 .. 3 : Shown(h, b, l) => Shown(h, c, l)
    BY <2>1, <2>3, <2>4 DEF Ring, Rising
  <2>6. /\ Shown(h, c, 1) => Shown(h, c, 1)'
        /\ Shown(h, c, 2)' <=> Shown(h, c, 1)
        /\ Shown(h, c, 3)' <=> Shown(h, c, 2)
        /\ Shown(h, b, 2)' <=> Shown(h, b, 1)
        /\ Shown(h, b, 3)' <=> Shown(h, b, 2)
    BY <1>1, Rises
  <2>7. /\ Shown(h, At(h, i), n)' <=> Shown(h, b, n)'
        /\ Shown(h, At(h, j), n)' <=> Shown(h, c, n)'
    BY <2>1, <2>3 DEF Shown
  <2>8. CASE n = 1
    BY <2>5, <2>6, <2>7, <2>8
  <2>9. CASE n = 2
    BY <2>5, <2>6, <2>7, <2>9
  <2>10. CASE n = 3
    BY <1>4, <2>5, <2>6, <2>7, <2>10
  <2> QED
    BY <2>8, <2>9, <2>10
<1>5. Rising(h, kk)'
  BY <1>2, <1>3, <1>4 DEF Rising
<1>6. ASSUME NEW i \in 0 .. kk - 1
      PROVE  /\ ackSync'[h][2] => Shown(h, At(h, i), 1)'
             /\ ackSync'[h][3] => Shown(h, At(h, i), 2)'
             /\ ui'[h].guard # 0 => Shown(h, At(h, i), 3)'
  <2>1. PICK p \in 0 .. k - 1, b \in side[h].ready :
              p = i + (k - kk) /\ b = At(h, p) /\ b = At(h, i)'
    BY StillToRead
  <2>2. /\ ackSync[h][1] /\ uiEdges = 0 => Shown(h, b, 1)
        /\ ackSync[h][2] => Shown(h, b, 1)
        /\ ackSync[h][3] => Shown(h, b, 2)
        /\ ui[h].guard # 0 => Shown(h, b, 3)
        /\ ui[h].guard # 0 => ackSync[h][3]
    BY <2>1 DEF Ring, LastSeen, Closing
  <2>3. /\ Shown(h, b, 1) \/ uiEdges # 0 => Shown(h, b, 1)'
        /\ Shown(h, b, 2)' <=> Shown(h, b, 1)
        /\ Shown(h, b, 3)' <=> Shown(h, b, 2)
    BY <1>1, Rises
  <2>4. ackSync'[h][2] = ackSync[h][1] /\ ackSync'[h][3] = ackSync[h][2]
    <3>1. \/ ackSync'[h] = Shift(ackSync[h], ackSync[h][1])
          \/ ackSync'[h] = Shift(ackSync[h], side[h].flushAck)
      BY <1>1, UiEdgeOnFifo
    <3> QED
      BY <3>1, ShiftGives
  <2>5. ui'[h].guard # 0 => ui[h].guard # 0 \/ ackSync[h][3]
    <3>1. ui'[h].guard = Guarded(ui[h], SyncOut(ackSync[h]))
      BY <1>1, UiEdgeOnFifo DEF UiStepped
    <3> QED
      BY <3>1 DEF Guarded, SyncOut
  <2>6. /\ Shown(h, At(h, i), 1)' <=> Shown(h, b, 1)'
        /\ Shown(h, At(h, i), 2)' <=> Shown(h, b, 2)'
        /\ Shown(h, At(h, i), 3)' <=> Shown(h, b, 3)'
    BY <2>1 DEF Shown
  <2> QED
    BY <2>2, <2>3, <2>4, <2>5, <2>6
<1>7. LastSeen(h, kk)'
  <2>1. uiEdges' # 0
    BY <1>1
  <2> QED
    BY <1>6, <2>1 DEF LastSeen
<1> QED
  BY <1>5, <1>7

(* The reader picks the bank at its pointer and keeps to it.                 *)
LEMMA UiKeepsReading ==
    ASSUME HandInv, Closing, NEW axi, UiEdgeWith(axi), NEW h \in Harts,
           NEW k, NEW m, Ring(h, k, m)
    PROVE  Reading(h)'
<1> DEFINE u == ui[h]
           v == ui'[h]
           E == Ends(ui[h], batchDone[h])
<1>1. LogTypes /\ u \in UiSide /\ BankInv(h) /\ Settling(h) /\ Frozen(h)
  BY StateTypes DEF HandInv
<1>2. PICK occ \in Counts(h) \cap (0 .. BankRecords) :
        UiStepped(u, ReadyUi(h), SyncOut(ackSync[h]), occ, Dma!Selects(h, Offering),
                  batchDone[h], v)
  BY <1>1, UiEdgeOnFifo
<1>3. SUFFICES ASSUME v.active
               PROVE  v.bank = v.pointer /\ (v.claimed => v.stable = StableCycles)
  BY DEF Reading
<1>4. ~E /\ v.pointer = u.pointer
  BY <1>2, <1>3 DEF UiStepped
<1>5. CASE u.active
  <2>1. /\ v.bank = u.bank
        /\ v.claimed => u.claimed \/ BatchValid(u)
        /\ u.claimed => v.stable = u.stable
        /\ BatchValid(u) /\ occ = u.sample /\ u.bank \in ReadyUi(h) => v.stable = u.stable
    BY <1>2, <1>4, <1>5 DEF UiStepped
  <2>2. u.bank = u.pointer /\ (u.claimed => u.stable = StableCycles)
    BY <1>5 DEF Ring, Reading
  <2>3. ASSUME BatchValid(u)
        PROVE  occ = u.sample /\ u.bank \in ReadyUi(h) /\ u.stable = StableCycles
    <3>1. u.active /\ ~u.claimed /\ u.stable = StableCycles /\ u.sample # 0
      BY <2>3 DEF BatchValid
    <3>2. u.bank \in ReadyUi(h)
      <4>1. Picked(h, u.bank) /\ u.bank \in Banks
        BY <1>1, <1>5, ReaderFields DEF Picked
      <4>2. readySync[h][u.bank][3]
        BY <1>1, <4>1 DEF BankInv, ReadyChain
      <4> QED
        BY <4>1, <4>2 DEF ReadyUi, SyncOut
    <3>3. lag[h] \in Nat /\ CountLag \in Nat /\ CountLag <= StableCycles /\ StableCycles \in Nat
      BY <1>1, StateTypes, Sizes
    <3>4. u.sample = Len(lanes[h][u.bank]) /\ ~(lag[h] < CountLag)
      <4>1. /\ lag[h] < CountLag => u.stable < lag[h] \/ (u.stable = 0 /\ u.sample = 0)
            /\ u.stable >= CountLag /\ u.sample # 0 => u.sample = Len(lanes[h][u.bank])
        BY <1>1, <3>1 DEF Settling
      <4> HIDE DEF u
      <4> QED
        BY <3>1, <3>3, <4>1
    <3>5. Counts(h) = {Len(lanes[h][u.bank])}
      BY <3>4 DEF Counts
    <3> QED
      BY <3>1, <3>2, <3>4, <3>5
  <2> QED
    BY <1>4, <2>1, <2>2, <2>3
<1>6. CASE ~u.active
  <2>1. v.bank \in NextReady(u, ReadyUi(h)) /\ ~v.claimed
    BY <1>2, <1>3, <1>6 DEF UiStepped
  <2> DEFINE new == ReadyUi(h) \ u.completed
  <2>2. /\ v.bank \in new
        /\ \A i \in 0 .. BankCount - 1 : At(h, i) \in new =>
              \E j \in 0 .. i : At(h, j) = v.bank
    BY <2>1 DEF NextReady, At
  <2>3. v.bank \in Banks /\ readySync[h][v.bank][3] /\ v.bank \notin u.completed
    BY <2>2 DEF ReadyUi, SyncOut
  <2>4. /\ ~OnItsWay(h, v.bank) /\ v.bank \in side[h].ready
        /\ Shown(h, v.bank, 3)
    <3>1. ReadyChain(h, v.bank) /\ ~Picked(h, v.bank)
      BY <1>1, <1>6, <2>3 DEF BankInv, Picked
    <3>2. ~OnItsWay(h, v.bank)
      BY <2>3, <3>1 DEF ReadyChain
    <3>3. readySync[h][v.bank][2] /\ readySync[h][v.bank][1] /\ v.bank \in side[h].ready
      BY <2>3, <3>1, <3>2 DEF ReadyChain
    <3> QED
      BY <2>3, <3>2, <3>3 DEF Shown
  <2>5. PICK p \in 0 .. BankCount - 1 : At(h, p) = v.bank
    BY <1>1, <2>3, Places
  <2>6. /\ BankCount \in Nat /\ k \in Nat /\ m \in 0 .. 2 /\ k + m <= BankCount
        /\ 0 \in 0 .. BankCount - 1
    BY Sizes DEF Ring, Arc
  <2>7. p < k
    <3>1. v.bank \in side[h].owned
      BY <1>1, <2>4 DEF Frozen
    <3>2. p < k \/ p >= BankCount - m
      BY <2>5, <3>1 DEF Ring, Arc
    <3>3. ~(p >= BankCount - m)
      BY <2>4, <2>5 DEF Ring, Arc
    <3> QED
      BY <3>2, <3>3
  <2>8. v.bank = At(h, 0)
    <3>1. CASE p = 0
      BY <2>5, <3>1
    <3>2. CASE p # 0
      <4>1. p \in 0 .. k - 1 /\ 0 \in 0 .. p - 1 /\ 0 \in 0 .. k - 1
        BY <2>5, <2>6, <2>7, <3>2
      <4>2. Shown(h, At(h, 0), 3)
        BY <2>4, <2>5, <4>1 DEF Ring, Rising
      <4>3. At(h, 0) \notin u.completed
        BY <4>1, <4>2 DEF Ring, Rising
      <4>4. At(h, 0) \in ReadyUi(h)
        <5>1. 0 \in 0 .. BankCount
          BY <2>6
        <5>2. At(h, 0) \in Banks
          BY <1>1, <5>1, Places
        <5> QED
          BY <4>2, <5>2 DEF ReadyUi, SyncOut, Shown
      <4>5. \E j \in 0 .. 0 : At(h, j) = v.bank
        BY <2>2, <2>6, <4>3, <4>4
      <4>6. \A j \in 0 .. 0 : j = 0
        OBVIOUS
      <4> QED
        BY <4>5, <4>6
    <3> QED
      BY <3>1, <3>2
  <2>9. At(h, 0) = u.pointer
    BY <1>1, Places
  <2> QED
    BY <1>4, <2>1, <2>8, <2>9
<1> QED
  BY <1>5, <1>6

(* A bank on its way back is not yet one to be filled.                       *)
LEMMA UiKeepsFilling ==
    ASSUME HandInv, Closing, Paced, NEW axi, UiEdgeWith(axi), NEW h \in Harts,
           NEW k, NEW m, Ring(h, k, m), NEW kk, NEW mm, UiTurn(h, k, m, kk, mm)
    PROVE  Filling(h, kk, mm)'
<1>1. /\ BankCount \in Nat /\ k \in Nat /\ m \in 0 .. 2 /\ k + m <= BankCount
      /\ kk \in Nat /\ mm \in 0 .. 2 /\ kk + mm = k + m
      /\ \A i \in 0 .. BankCount - 1 : At(h, i)' = At(h, i + (k - kk))
  BY UiTurns
<1>2. side' = side /\ releaseSync' = releaseSync
  BY DEF UiEdgeWith, coreVars
<1>3. Filling(h, k, m)
  BY DEF Ring
<1>4. k + m < BankCount => At(h, kk)' = At(h, k)
  <2>1. SUFFICES ASSUME k + m < BankCount PROVE At(h, kk)' = At(h, k)
    OBVIOUS
  <2>2. kk \in 0 .. BankCount - 1 /\ kk + (k - kk) = k
    BY <1>1, <2>1
  <2> QED
    BY <1>1, <2>2
<1>5. /\ kk + mm < BankCount <=> k + m < BankCount
      /\ kk + mm >= BankCount - 1 <=> k + m >= BankCount - 1
  BY <1>1
<1> QED
  BY <1>2, <1>3, <1>4, <1>5 DEF Filling

(* An edge of the reader's clock keeps the ring in order.                    *)
LEMMA UiKeepsRing ==
    ASSUME HandInv, Closing, Paced, NEW axi, UiEdgeWith(axi), NEW h \in Harts,
           NEW k, NEW m, Ring(h, k, m), NEW kk, NEW mm, UiTurn(h, k, m, kk, mm)
    PROVE  Ring(h, kk, mm)'
BY UiKeepsArc, UiKeepsApart, UiKeepsRising, UiKeepsReading, UiKeepsFilling DEF Ring

(* All banks are free, the first is being filled.                            *)
LEMMA RingStarts ==
    ASSUME Init, NEW h \in Harts
    PROVE  Ring(h, 0, 0)
<1>1. LogTypes
  BY HandInit DEF HandInv
<1>2. /\ BankCount \in Nat /\ BankCount >= 2 /\ 0 \in 0 .. 2 /\ 0 + 0 <= BankCount
  BY Sizes
<1>3. /\ side[h].owned = {} /\ side[h].ready = {} /\ side[h].valid /\ side[h].bank = 0
      /\ \A b \in Banks : side[h].count[b] = 0
  BY DEF Init, CoreReset
<1>4. ui[h].pointer = 0 /\ ~ui[h].active /\ ui[h].guard = 0 /\ ui[h].release = {}
  BY DEF Init, UiReset
<1>5. ASSUME NEW b \in Banks
      PROVE  /\ ~OnItsWay(h, b)
             /\ ~readySync[h][b][1]
  BY <1>4 DEF Init, OnItsWay, ChainOf, Stages
<1>6. ASSUME NEW i \in 0 .. BankCount PROVE At(h, i) \in Banks
  BY <1>1, Places
<1>7. At(h, 0) = 0
  BY <1>1, <1>4, Places
<1>8. Arc(h, 0, 0)
  <2>1. ASSUME NEW i \in 0 .. BankCount - 1
        PROVE  /\ At(h, i) \notin side[h].owned /\ ~OnItsWay(h, At(h, i))
               /\ ~(i < 0) /\ ~(i >= BankCount - 0)
    <3>1. i \in 0 .. BankCount /\ ~(i < 0) /\ ~(i >= BankCount - 0)
      BY <1>2
    <3> QED
      BY <1>3, <1>5, <1>6, <3>1
  <2> QED
    BY <1>2, <2>1 DEF Arc
<1>9. Apart(h, 0) /\ Reading(h)
  BY <1>4 DEF Apart, Reading
<1>10. Rising(h, 0) /\ LastSeen(h, 0)
  <2>1. \A i : i \notin 0 .. 0 - 1
    OBVIOUS
  <2>2. uiEdges = 0
    BY DEF Init
  <2> QED
    BY <2>1, <2>2 DEF Rising, LastSeen
<1>11. Filling(h, 0, 0)
  <2>1. 0 + 0 < BankCount
    BY <1>2
  <2> QED
    BY <1>3, <1>7, <2>1 DEF Filling
<1> QED
  BY <1>8, <1>9, <1>10, <1>11 DEF Ring

(* The ring is in order at the start.                                        *)
LEMMA RingInit == Init => RingInv
<1> SUFFICES ASSUME Init PROVE RingInv
  OBVIOUS
<1>1. Closing
  <2>1. 0 \in 0 .. MaxUiEdges
    BY LogWriteAssumption DEF LogWriteAssumption
  <2>2. ASSUME NEW h \in Harts
        PROVE  /\ side[h].flushAck = FALSE /\ ui[h].guard = 0
               /\ ackSync[h][1] = FALSE /\ ackSync[h][2] = FALSE /\ ackSync[h][3] = FALSE
    BY DEF Init, CoreReset, UiReset, ChainOf, Stages
  <2>3. /\ uiEdges = 0 /\ captureDone = FALSE /\ pipelineDone = FALSE
        /\ doneSync[1] = FALSE /\ doneSync[2] = FALSE
    BY DEF Init, ChainOf, Stages
  <2> QED
    BY ONLY <2>1, <2>2, <2>3 DEF Closing
<1>2. ASSUME NEW h \in Harts PROVE Ring(h, 0, 0)
  BY RingStarts
<1> QED
  BY <1>1, <1>2 DEF RingInv

(* Nothing changes, nothing moves.                                           *)
LEMMA RingStands ==
    ASSUME UNCHANGED vars, NEW h \in Harts, NEW k \in Nat, NEW m \in Nat, Ring(h, k, m)
    PROVE  Ring(h, k, m)'
<1>1. /\ side' = side /\ releaseSync' = releaseSync /\ uiEdges' = uiEdges /\ ui' = ui
      /\ readySync' = readySync /\ ackSync' = ackSync /\ releaseSource' = releaseSource
  BY DEF vars, coreVars, sharedVars, uiVars
<1>2. \A i : At(h, i)' = At(h, i)
  BY <1>1 DEF At
<1>3. Arc(h, k, m)'
  BY <1>1, <1>2 DEF Ring, Arc, OnItsWay
<1>4. Apart(h, m)'
  BY <1>1, <1>2 DEF Ring, Apart, OnItsWay, Unsampled
<1>5. Rising(h, k)' /\ LastSeen(h, k)'
  BY <1>1, <1>2 DEF Ring, Rising, LastSeen, Shown
<1>6. Reading(h)' /\ Filling(h, k, m)'
  BY <1>1, <1>2 DEF Ring, Reading, Filling
<1> QED
  BY <1>3, <1>4, <1>5, <1>6 DEF Ring

(* Nor does the end of capture.                                              *)
LEMMA ClosingStands ==
    ASSUME Closing, UNCHANGED vars
    PROVE  Closing'
<1>1. /\ captureDone' = captureDone /\ queue' = queue /\ pipelineDone' = pipelineDone
      /\ side' = side /\ uiEdges' = uiEdges /\ ui' = ui /\ ackSync' = ackSync
      /\ doneSync' = doneSync
  BY DEF vars, coreVars, sharedVars, uiVars
<1> QED
  BY <1>1 DEF Closing

(* Every edge of either clock keeps the ring in order.                       *)
LEMMA RingNext == ASSUME OwnerInv, HandInv, Paced, RingInv, [Next]_vars PROVE RingInv'
<1>1. CASE CoreEdge
  <2>1. Closing'
    BY <1>1, CoreKeepsClosing DEF RingInv
  <2>2. ASSUME NEW h \in Harts PROVE \E kk, mm \in Nat : Ring(h, kk, mm)'
    <3>1. PICK k \in Nat, m \in Nat : Ring(h, k, m)
      BY DEF RingInv
    <3>2. PICK kk, mm : CoreTurn(h, k, m, kk, mm)
      BY DEF CoreTurn
    <3>3. kk \in Nat /\ mm \in 0 .. 1
      BY <1>1, <3>1, <3>2, CoreTurns DEF RingInv
    <3>4. Ring(h, kk, mm)'
      BY <1>1, <3>1, <3>2, CoreKeepsRing DEF RingInv
    <3> QED
      BY <3>3, <3>4
  <2> QED
    BY <2>1, <2>2 DEF RingInv
<1>2. CASE UiEdge
  <2>1. PICK axi \in Answers : UiEdgeWith(axi)
    BY <1>2 DEF UiEdge
  <2>2. Closing'
    BY <2>1, UiKeepsClosing DEF RingInv
  <2>3. ASSUME NEW h \in Harts PROVE \E kk, mm \in Nat : Ring(h, kk, mm)'
    <3>1. PICK k \in Nat, m \in Nat : Ring(h, k, m)
      BY DEF RingInv
    <3>2. PICK kk, mm : UiTurn(h, k, m, kk, mm)
      BY DEF UiTurn
    <3>3. kk \in Nat /\ mm \in 0 .. 2
      BY <2>1, <3>1, <3>2, UiTurns DEF RingInv
    <3>4. Ring(h, kk, mm)'
      BY <2>1, <3>1, <3>2, UiKeepsRing DEF RingInv
    <3> QED
      BY <3>3, <3>4
  <2> QED
    BY <2>2, <2>3 DEF RingInv
<1>3. CASE UNCHANGED vars
  <2>1. Closing'
    BY <1>3, ClosingStands DEF RingInv
  <2>2. ASSUME NEW h \in Harts PROVE \E k, m \in Nat : Ring(h, k, m)'
    <3>1. PICK k \in Nat, m \in Nat : Ring(h, k, m)
      BY DEF RingInv
    <3> QED
      BY <1>3, <3>1, RingStands
  <2> QED
    BY <2>1, <2>2 DEF RingInv
<1> QED
  BY <1>1, <1>2, <1>3 DEF Next

(* The ring stays in order.                                                  *)
LEMMA RingInvariant == Paced => (Spec => []RingInv)
<1>1. ASSUME Paced PROVE (Spec /\ []OwnerInv /\ []HandInv) => []RingInv
  <2>1. Init => RingInv
    BY RingInit
  <2>2. OwnerInv /\ HandInv /\ RingInv /\ [Next]_vars => RingInv'
    BY <1>1, RingNext
  <2> QED
    BY <2>1, <2>2, PTL DEF Spec
<1>2. Spec => []OwnerInv /\ []HandInv
  BY OwnerInvariant, HandInvariant, PTL
<1> QED
  BY <1>1, <1>2

(* The banks to be read follow the reader's pointer without a gap, and the   *)
(* one being filled comes after them, although the writer and the reader     *)
(* each choose their next bank for themselves (RingOrder).                   *)
THEOREM RingInOrder == Paced => (Spec => []RingOrder)
<1>1. RingInv /\ HandInv => RingOrder
  <2> SUFFICES ASSUME RingInv, HandInv, NEW h \in Harts, ~side[h].flushAck
               PROVE  \E k \in 0 .. BankCount :
                         /\ side[h].owned \ Returning(h)
                                = {OnFrom(ui[h].pointer, i) : i \in 0 .. k - 1}
                         /\ side[h].valid => side[h].bank = OnFrom(ui[h].pointer, k)
    BY DEF RingOrder
  <2>1. PICK k \in Nat, m \in Nat : Ring(h, k, m)
    BY DEF RingInv
  <2>2. /\ m \in 0 .. 2 /\ k + m <= BankCount /\ BankCount \in Nat /\ LogTypes
        /\ side[h].owned \subseteq Banks
    BY <2>1, Sizes, StateTypes, SideFields DEF HandInv, Ring, Arc
  <2>3. k \in 0 .. BankCount
    BY <2>2
  <2>4. side[h].valid => side[h].bank = At(h, k)
    BY <2>1 DEF Ring, Filling
  <2>5. ASSUME NEW b \in Banks
        PROVE  b \in side[h].owned \ Returning(h) <=> \E i \in 0 .. k - 1 : At(h, i) = b
    <3>1. PICK p \in 0 .. BankCount - 1 : At(h, p) = b
      BY <2>2, Places
    <3>2. /\ b \in side[h].owned <=> p < k \/ p >= BankCount - m
          /\ b \in Returning(h) <=> p >= BankCount - m
      <4>1. b \in Returning(h) <=> OnItsWay(h, b)
        BY DEF Returning, OnItsWay, SyncOut
      <4> QED
        BY <2>1, <3>1, <4>1 DEF Ring, Arc
    <3>3. b \in side[h].owned \ Returning(h) <=> p < k
      BY <2>2, <3>2
    <3>4. ASSUME NEW i \in 0 .. k - 1, At(h, i) = b PROVE p < k
      <4>1. i \in 0 .. BankCount - 1
        BY <2>2
      <4>2. i = p
        BY <2>2, <3>1, <3>4, <4>1, Places
      <4> QED
        BY <4>2
    <3>5. p < k => p \in 0 .. k - 1
      BY <2>2
    <3> QED
      BY <3>1, <3>3, <3>4, <3>5
  <2>6. side[h].owned \ Returning(h) = {At(h, i) : i \in 0 .. k - 1}
    <3>1. \A i \in 0 .. k - 1 : At(h, i) \in Banks
      <4>1. \A i \in 0 .. k - 1 : i \in 0 .. BankCount
        BY <2>2
      <4> QED
        BY <2>2, <4>1, Places
    <3> QED
      BY <2>2, <2>5, <3>1
  <2> QED
    BY <2>3, <2>4, <2>6 DEF At
<1> QED
  BY <1>1, RingInvariant, HandInvariant, PTL

-----------------------------------------------------------------------------
(* Runs of numbers: joined, cut, and in a queue of beats.                    *)
LEMMA RunPut ==
    ASSUME NEW s \in Seq(Nat), NEW t \in Seq(Nat), NEW a \in Nat, Run(s, a), Run(t, a + Len(s))
    PROVE  s \o t \in Seq(Nat) /\ Len(s \o t) = Len(s) + Len(t) /\ Run(s \o t, a)
<1>1. s \o t \in Seq(Nat) /\ Len(s \o t) = Len(s) + Len(t)
  OBVIOUS
<1>2. Len(s) \in Nat /\ Len(t) \in Nat
  OBVIOUS
<1>3. ASSUME NEW i \in 1 .. Len(s \o t) PROVE (s \o t)[i] = a + i
  <2>1. CASE i <= Len(s)
    <3>1. (s \o t)[i] = s[i] /\ i \in 1 .. Len(s)
      BY <1>1, <1>2, <2>1
    <3> QED
      BY <3>1 DEF Run
  <2>2. CASE i > Len(s)
    <3>1. (s \o t)[i] = t[i - Len(s)] /\ i - Len(s) \in 1 .. Len(t)
      BY <1>1, <1>2, <2>2
    <3>2. t[i - Len(s)] = (a + Len(s)) + (i - Len(s))
      BY <3>1 DEF Run
    <3> QED
      BY <1>2, <3>1, <3>2
  <2> QED
    BY <1>1, <1>2, <2>1, <2>2
<1> QED
  BY <1>1, <1>3 DEF Run

(* A part of records that follow one another does as well.                   *)
LEMMA RunCut ==
    ASSUME NEW s \in Seq(Nat), NEW n \in 0 .. Len(s), NEW a \in Nat, Run(s, a)
    PROVE  /\ Run(SubSeq(s, n + 1, Len(s)), a + n)
           /\ \A j \in n .. Len(s) : Run(SubSeq(s, n + 1, j), a + n)
<1>1. Len(s) \in Nat /\ n \in Nat
  OBVIOUS
<1>2. ASSUME NEW j \in n .. Len(s) PROVE Run(SubSeq(s, n + 1, j), a + n)
  <2> DEFINE t == SubSeq(s, n + 1, j)
  <2>1. n + 1 \in 1 .. Len(s) + 1 /\ j \in 0 .. Len(s)
    BY <1>1
  <2>2. /\ Len(t) = IF n + 1 <= j THEN j - (n + 1) + 1 ELSE 0
        /\ \A i \in 1 .. j - (n + 1) + 1 : t[i] = s[(n + 1) + i - 1]
    BY <2>1, PartOf
  <2> HIDE DEF t
  <2>3. ASSUME NEW i \in 1 .. Len(t) PROVE t[i] = (a + n) + i
    <3>1. i \in 1 .. j - (n + 1) + 1 /\ (n + 1) + i - 1 = n + i /\ n + i \in 1 .. Len(s)
      BY <1>1, <2>2
    <3>2. t[i] = s[n + i]
      BY <2>2, <3>1
    <3>3. s[n + i] = a + (n + i)
      BY <3>1 DEF Run
    <3> QED
      BY <1>1, <3>1, <3>2, <3>3
  <2> QED
    BY <2>3 DEF Run, t
<1> QED
  BY <1>1, <1>2

(* The first beat of a queue leaves it.                                      *)
LEMMA BeatsRunTail ==
    ASSUME NEW s, Pair(s), s # <<>>, NEW a \in Nat, BeatsRun(s, a)
    PROVE  Run(Head(s), a) /\ BeatsRun(Tail(s), a + Len(Head(s)))
<1>1. s \in Seq(Beats) /\ Len(s) <= 2 /\ Len(s) >= 1
  BY DEF Pair
<1>2. Head(s) = s[1] /\ Len(Tail(s)) = Len(s) - 1
  BY <1>1
<1>3. Len(Tail(s)) >= 1 => Len(s) >= 2 /\ Tail(s)[1] = s[2]
  BY <1>1, <1>2
<1>4. ~(Len(Tail(s)) >= 2)
  BY <1>1, <1>2
<1> QED
  BY <1>1, <1>2, <1>3, <1>4 DEF BeatsRun

(* A beat joins a queue.                                                     *)
LEMMA BeatsRunPut ==
    ASSUME NEW s, Pair(s), Len(s) # 2, NEW x \in Beats, NEW a \in Nat, BeatsRun(s, a),
           Run(x, a + Load(s))
    PROVE  BeatsRun(s \o <<x>>, a)
<1>1. s = <<>> \/ \E y \in Beats : s = <<y>>
  <2>1. s = <<>> \/ \E y \in Beats : s = <<y>> \/ \E z \in Beats : s = <<y, z>>
    BY LoadIs
  <2>2. \A y, z \in Beats : Len(<<y, z>>) = 2
    OBVIOUS
  <2> QED
    BY <2>1, <2>2
<1>2. CASE s = <<>>
  <2>1. s \o <<x>> = <<x>> /\ Load(s) = 0 /\ Len(<<x>>) = 1 /\ <<x>>[1] = x
    BY <1>2, LoadIs, ShortSequences
  <2>2. Run(x, a)
    <3>1. a + 0 = a
      OBVIOUS
    <3> QED
      BY <2>1, <3>1
  <2> QED
    BY <2>1, <2>2 DEF BeatsRun
<1>3. ASSUME NEW y \in Beats, s = <<y>> PROVE BeatsRun(s \o <<x>>, a)
  <2>1. s \o <<x>> = <<y, x>> /\ Load(s) = Len(y) /\ Len(<<y, x>>) = 2
        /\ <<y, x>>[1] = y /\ <<y, x>>[2] = x
    BY <1>3, LoadIs, ShortSequences
  <2>2. Run(y, a)
    <3>1. Len(s) >= 1 /\ s[1] = y
      BY <1>3
    <3> QED
      BY <3>1 DEF BeatsRun
  <2> QED
    BY <2>1, <2>2 DEF BeatsRun
<1> QED
  BY <1>1, <1>2, <1>3

(* Nothing follows anything.                                                 *)
LEMMA NoBeats == ASSUME NEW a PROVE BeatsRun(<<>>, a) /\ Run(<<>>, a)
<1>1. Len(<<>>) = 0
  OBVIOUS
<1> QED
  BY <1>1 DEF BeatsRun, Run

(* A queue of one beat.                                                      *)
LEMMA OneBeat ==
    ASSUME NEW x \in Beats, NEW a \in Nat
    PROVE  BeatsRun(<<x>>, a) <=> Run(x, a)
<1>1. Len(<<x>>) = 1 /\ <<x>>[1] = x
  OBVIOUS
<1> QED
  BY <1>1 DEF BeatsRun

(* The records of one full bank more.                                        *)
LEMMA FullSteps ==
    /\ Full(0) = 0
    /\ \A n \in Nat : Full(n) \in Nat /\ Full(n + 1) = Full(n) + BankRecords
<1>1. BankRecords \in Nat
  BY Sizes
<1>2. ASSUME NEW n \in Nat PROVE n * BankRecords \in Nat /\ (n + 1) * BankRecords = n * BankRecords + BankRecords
  BY <1>1
<1>3. 0 * BankRecords = 0
  BY <1>1
<1> QED
  BY <1>2, <1>3 DEF Full

-----------------------------------------------------------------------------
(* The stages of the stream and where their first records stand.             *)
StreamAt(h, bank, w, o, c, l) ==
    /\ memory[h] \in Seq(Nat) /\ Run(memory[h], 0)
    /\ w = Len(memory[h]) /\ o = w + Load(elastic[h]) /\ c = o + Load(output[h])
    /\ l = c + Load(child[h])
    /\ BeatsRun(elastic[h], w) /\ BeatsRun(output[h], o) /\ BeatsRun(child[h], c)
    /\ Held(h) => Run(lanes[h][bank], l)

(* The stream of a hart, with the places of its parts named.                 *)
LEMMA StreamStands ==
    ASSUME LogTypes, NEW h \in Harts
    PROVE  /\ StreamRuns(h) => \E w, o, c, l \in Nat : StreamAt(h, ui[h].bank, w, o, c, l)
           /\ \A w, o, c, l : StreamAt(h, ui[h].bank, w, o, c, l) => StreamRuns(h)
<1>1. ASSUME StreamRuns(h) PROVE \E w, o, c, l \in Nat : StreamAt(h, ui[h].bank, w, o, c, l)
  <2> DEFINE w == Len(memory[h])
             o == w + Load(elastic[h])
             c == o + Load(output[h])
             l == c + Load(child[h])
  <2>1. memory[h] \in Seq(Nat)
    BY <1>1 DEF StreamRuns
  <2>2. Pair(elastic[h]) /\ Pair(output[h]) /\ Pair(child[h])
    <3>1. Len(child[h]) \in Nat
      BY StateTypes
    <3>2. Len(child[h]) <= 1 => Len(child[h]) <= 2
      BY <3>1
    <3> QED
      BY <3>2, StateTypes DEF Pair
  <2>3. w \in Nat /\ Load(elastic[h]) \in Nat /\ Load(output[h]) \in Nat /\ Load(child[h]) \in Nat
    BY <2>1, <2>2, LoadIs
  <2>4. w \in Nat /\ o \in Nat /\ c \in Nat /\ l \in Nat
    BY <2>3
  <2>5. StreamAt(h, ui[h].bank, w, o, c, l)
    BY <1>1 DEF StreamRuns, StreamAt
  <2> HIDE DEF w, o, c, l
  <2> QED
    BY <2>4, <2>5
<1>2. ASSUME NEW w, NEW o, NEW c, NEW l, StreamAt(h, ui[h].bank, w, o, c, l) PROVE StreamRuns(h)
  BY <1>2 DEF StreamRuns, StreamAt
<1> QED
  BY <1>1, <1>2

(* Each stage takes from the one behind it and gives to the one before it.   *)
LEMMA StreamMoves ==
    ASSUME LogTypes, NEW axi, Stream(axi), NEW h \in Harts,
           NEW w \in Nat, NEW o \in Nat, NEW c \in Nat, NEW l \in Nat,
           StreamAt(h, ui[h].bank, w, o, c, l)
    PROVE  \E w2, o2, c2, l2 \in Nat :
              /\ w2 = w + Drawn(h, axi)
              /\ memory'[h] \in Seq(Nat) /\ Run(memory'[h], 0)
              /\ \E t \in Seq(Nat) : memory'[h] = memory[h] \o t
              /\ w2 = Len(memory'[h]) /\ o2 = w2 + Load(elastic'[h])
              /\ c2 = o2 + Load(output'[h]) /\ l2 = c2 + Load(child'[h])
              /\ BeatsRun(elastic'[h], w2) /\ BeatsRun(output'[h], o2) /\ BeatsRun(child'[h], c2)
              /\ Held(h) => Run(lanes'[h][ui[h].bank], l2)
<1> DEFINE k == ui[h].bank
           q == lanes[h][k]
           n == Captures(h)
           P == Pushes(h)
           M == Passes(h)
           T == activeHart = h /\ Dma!Takes(axi, elastic[h])
           cc == child[h]
           oo == output[h]
           ee == elastic[h]
           mm == memory[h]
<1>1. /\ Pair(cc) /\ Len(cc) <= 1 /\ Pair(oo) /\ Pair(ee) /\ k \in Banks /\ q \in Seq(Nat)
      /\ Len(q) \in Nat
  <2>1. k \in Banks /\ Len(cc) \in Nat
    BY StateTypes, ReaderFields
  <2>2. Len(cc) <= 1 => Len(cc) <= 2
    BY <2>1
  <2> QED
    BY <2>1, <2>2, StateTypes, BankTypes DEF Pair
<1>2. /\ n \in 0 .. Len(q) /\ (n # 0 => BankReads(h))
  <2>1. HeadRecords(q, SyncOut(doneSync)) \in 0 .. Len(q)
    <3> DEFINE x == Len(q)
    <3>1. HeadRecords(q, SyncOut(doneSync))
            = IF x >= 2 THEN 2 ELSE IF x = 1 /\ SyncOut(doneSync) THEN 1 ELSE 0
      BY DEF HeadRecords
    <3>2. x \in Nat
      BY <1>1
    <3> HIDE DEF x
    <3>3. HeadRecords(q, SyncOut(doneSync)) \in 0 .. x
      BY <3>1, <3>2
    <3> QED
      BY <3>3 DEF x
  <2> QED
    BY <1>1, <2>1 DEF Captures
<1>3. /\ P <=> BankReads(h) /\ cc # <<>>
      /\ BankReads(h) => Held(h) /\ Len(oo) # 2
      /\ M <=> oo # <<>> /\ Len(ee) # 2
      /\ T => ee # <<>>
  BY DEF Pushes, BankReads, Passes, Dma!Takes, Held
<1>4. /\ lanes'[h][k] = SubSeq(q, n + 1, Len(q))
      /\ child'[h] = IF n # 0 THEN <<SubSeq(q, 1, n)>> ELSE IF P THEN <<>> ELSE cc
      /\ output'[h] = (IF M THEN Tail(oo) ELSE oo) \o (IF P THEN cc ELSE <<>>)
      /\ elastic'[h] = (IF T THEN Tail(ee) ELSE ee) \o (IF M THEN <<Head(oo)>> ELSE <<>>)
      /\ memory'[h] = IF T THEN mm \o Head(ee) ELSE mm
  BY <1>1 DEF Stream
<1>5. Drawn(h, axi) = IF T THEN Len(Head(ee)) ELSE 0
  BY DEF Drawn
<1>6. /\ mm \in Seq(Nat) /\ Run(mm, 0)
      /\ w = Len(mm) /\ o = w + Load(ee) /\ c = o + Load(oo)
      /\ l = c + Load(cc)
      /\ BeatsRun(ee, w) /\ BeatsRun(oo, o) /\ BeatsRun(cc, c)
      /\ Held(h) => Run(q, l)
  BY DEF StreamAt
<1> DEFINE q2 == lanes'[h][k]
           c2 == child'[h]
           o2 == output'[h]
           e2 == elastic'[h]
           m2 == memory'[h]
           cut == SubSeq(q, 1, n)
           d == IF T THEN Len(Head(ee)) ELSE 0
           moved == IF M THEN Len(Head(oo)) ELSE 0
           pushed == IF P THEN Load(cc) ELSE 0
           o1 == IF M THEN Tail(oo) ELSE oo
           e1 == IF T THEN Tail(ee) ELSE ee
<1> HIDE DEF n, P, M, T
<1>7. /\ q2 = SubSeq(q, n + 1, Len(q)) /\ n \in Nat
      /\ n # 0 => cut \in Beats /\ Len(cut) = n
  BY SMTT(30), <1>1, <1>2, <1>4, CaptureGives
<1>8. /\ Load(cc) \in Nat /\ Load(oo) \in Nat /\ Load(ee) \in Nat
  BY <1>1, LoadIs
(* The memory takes a beat.                                                  *)
<1>9. /\ m2 \in Seq(Nat) /\ Run(m2, 0) /\ Len(m2) = w + d /\ d \in Nat
      /\ Pair(e1) /\ BeatsRun(e1, w + d) /\ Load(e1) = Load(ee) - d
      /\ Len(ee) # 2 => Len(e1) # 2
      /\ \E t \in Seq(Nat) : m2 = mm \o t
  <2>1. CASE T
    <3>1. /\ Head(ee) \in Beats /\ Pair(Tail(ee)) /\ Len(Tail(ee)) # 2
          /\ Load(Tail(ee)) = Load(ee) - Len(Head(ee))
          /\ Run(Head(ee), w) /\ BeatsRun(Tail(ee), w + Len(Head(ee)))
      <4> HIDE DEF ee
      <4> QED
        BY <1>1, <1>3, <1>6, <2>1, LoadTail, BeatsRunTail
    <3>2. Head(ee) \in Seq(Nat) /\ Len(Head(ee)) \in Nat
      BY <3>1, BeatSize
    <3>3. Run(Head(ee), 0 + Len(mm))
      <4>1. 0 + Len(mm) = w
        BY <1>6
      <4> QED
        BY <3>1, <4>1
    <3>4. /\ mm \o Head(ee) \in Seq(Nat) /\ Len(mm \o Head(ee)) = Len(mm) + Len(Head(ee))
          /\ Run(mm \o Head(ee), 0)
      <4> HIDE DEF mm, ee
      <4> QED
        BY <1>6, <3>2, <3>3, RunPut
    <3>5. m2 = mm \o Head(ee) /\ d = Len(Head(ee)) /\ e1 = Tail(ee)
      BY <1>4, <2>1
    <3> HIDE DEF m2, d, e1, mm, ee
    <3> QED
      BY <1>6, <3>1, <3>2, <3>4, <3>5
  <2>2. CASE ~T
    <3>1. m2 = mm /\ d = 0 /\ e1 = ee
      BY <1>4, <2>2
    <3>2. w + 0 = w /\ Load(ee) - 0 = Load(ee)
      BY <1>8
    <3>3. mm = mm \o <<>> /\ <<>> \in Seq(Nat)
      BY <1>6, ConcatEmptySeq
    <3> HIDE DEF m2, d, e1, mm, ee
    <3> QED
      BY <1>1, <1>6, <3>1, <3>2, <3>3
  <2> QED
    BY <2>1, <2>2
(* The output queue gives one to the elastic queue.                          *)
<1>10. /\ Pair(o1) /\ moved \in Nat /\ BeatsRun(o1, o + moved) /\ Load(o1) = Load(oo) - moved
       /\ Len(oo) # 2 => Len(o1) # 2
       /\ M => Head(oo) \in Beats /\ Run(Head(oo), o) /\ moved = Len(Head(oo))
       /\ ~M => moved = 0
  <2>1. CASE M
    <3>1. /\ Head(oo) \in Beats /\ Pair(Tail(oo)) /\ Len(Tail(oo)) # 2
          /\ Load(Tail(oo)) = Load(oo) - Len(Head(oo))
          /\ Run(Head(oo), o) /\ BeatsRun(Tail(oo), o + Len(Head(oo)))
      <4> HIDE DEF oo
      <4> QED
        BY <1>1, <1>3, <1>6, <2>1, LoadTail, BeatsRunTail
    <3>2. o1 = Tail(oo) /\ moved = Len(Head(oo)) /\ Len(Head(oo)) \in Nat
      BY <2>1, <3>1, BeatSize
    <3> HIDE DEF o1, moved, oo
    <3> QED
      BY <2>1, <3>1, <3>2
  <2>2. CASE ~M
    <3>1. o1 = oo /\ moved = 0 /\ o + 0 = o /\ Load(oo) - 0 = Load(oo)
      BY <1>8, <2>2
    <3> HIDE DEF o1, moved, oo
    <3> QED
      BY <1>1, <1>6, <2>2, <3>1
  <2> QED
    BY <2>1, <2>2
<1> HIDE DEF e1, o1, d, moved
<1>11. /\ Pair(e2) /\ BeatsRun(e2, w + d) /\ Load(e2) = Load(ee) - d + moved
  <2>1. e2 = e1 \o (IF M THEN <<Head(oo)>> ELSE <<>>)
    BY <1>4 DEF e1
  <2>2. CASE M
    <3>1. e2 = e1 \o <<Head(oo)>> /\ Len(e1) # 2
      BY <1>3, <1>9, <2>1, <2>2
    <3>2. Run(Head(oo), (w + d) + Load(e1))
      <4>1. (w + d) + Load(e1) = o
        <5> DEFINE L == Load(ee)
        <5>1. L \in Nat /\ Load(e1) = L - d /\ o = w + L /\ d \in Nat
          BY <1>6, <1>8, <1>9
        <5> HIDE DEF L
        <5> QED
          BY <5>1
      <4> QED
        BY <1>10, <2>2, <4>1
    <3>3. BeatsRun(e1 \o <<Head(oo)>>, w + d)
      <4> DEFINE x == Head(oo)
                 a == w + d
      <4>1. x \in Beats /\ a \in Nat /\ Run(x, a + Load(e1)) /\ BeatsRun(e1, a)
        BY <1>9, <1>10, <2>2, <3>2
      <4> HIDE DEF x, a
      <4>2. BeatsRun(e1 \o <<x>>, a)
        BY <1>9, <3>1, <4>1, BeatsRunPut
      <4> QED
        BY <4>2 DEF x, a
    <3>4. Pair(e1 \o <<Head(oo)>>) /\ Load(e1 \o <<Head(oo)>>) = Load(e1) + Len(Head(oo))
      <4> DEFINE x == Head(oo)
      <4>1. x \in Beats
        BY <1>10, <2>2
      <4> HIDE DEF x
      <4>2. Pair(e1 \o <<x>>) /\ Load(e1 \o <<x>>) = Load(e1) + Len(x)
        BY <1>9, <3>1, <4>1, LoadPut
      <4> QED
        BY <4>2 DEF x
    <3> HIDE DEF e2, oo, ee
    <3> QED
      BY <1>9, <1>10, <2>2, <3>1, <3>3, <3>4
  <2>3. CASE ~M
    <3>1. e1 \o <<>> = e1
      BY <1>9, ConcatEmptySeq DEF Pair
    <3>2. e2 = e1 /\ moved = 0
      BY <1>10, <2>1, <2>3, <3>1
    <3>3. Load(ee) - d + 0 = Load(ee) - d
      <4> DEFINE L == Load(ee)
      <4>1. L \in Nat /\ d \in Nat
        BY <1>8, <1>9
      <4> HIDE DEF L
      <4>2. L - d + 0 = L - d
        BY <4>1
      <4> QED
        BY <4>2 DEF L
    <3> HIDE DEF e2, ee
    <3> QED
      BY <1>9, <3>2, <3>3
  <2> QED
    BY <2>2, <2>3
(* The output register gives its beat to the output queue.                   *)
<1>12. cc = <<>> \/ \E x \in Beats : cc = <<x>>
  <2>1. \A x, y \in Beats : Len(<<x, y>>) = 2
    OBVIOUS
  <2> HIDE DEF cc
  <2>2. cc = <<>> \/ \E x \in Beats : cc = <<x>> \/ \E y \in Beats : cc = <<x, y>>
    BY <1>1, LoadIs
  <2>3. Len(cc) # 2
    <3> DEFINE x == Len(cc)
    <3>1. x \in Nat /\ x <= 1
      BY <1>1 DEF Pair
    <3> HIDE DEF x
    <3>2. x # 2
      BY ONLY <3>1
    <3> QED
      BY ONLY <3>2 DEF x
  <2> QED
    BY ONLY <2>1, <2>2, <2>3
<1>13. /\ Pair(o2) /\ BeatsRun(o2, o + moved) /\ Load(o2) = Load(oo) - moved + pushed
       /\ pushed \in Nat
  <2>1. o2 = o1 \o (IF P THEN cc ELSE <<>>)
    BY <1>4 DEF o1
  <2>2. CASE P
    <3>1. PICK x \in Beats : cc = <<x>>
      BY <1>3, <1>12, <2>2
    <3>2. o2 = o1 \o <<x>> /\ Len(o1) # 2 /\ pushed = Len(x) /\ Load(cc) = Len(x)
          /\ Len(x) \in Nat
      <4>1. Load(<<x>>) = Len(x)
        BY <1>1, LoadIs
      <4> QED
        BY <1>3, <1>10, <2>1, <2>2, <3>1, <4>1, BeatSize
    <3>3. Run(x, (o + moved) + Load(o1))
      <4>1. Run(x, c)
        BY <1>6, <3>1, OneBeat
      <4>2. (o + moved) + Load(o1) = c
        <5> DEFINE L == Load(oo)
        <5>1. L \in Nat /\ Load(o1) = L - moved /\ c = o + L /\ moved \in Nat
          BY <1>6, <1>8, <1>10
        <5> HIDE DEF L
        <5> QED
          BY <5>1
      <4> QED
        BY <4>1, <4>2
    <3>4. BeatsRun(o1 \o <<x>>, o + moved)
      <4> DEFINE a == o + moved
      <4>1. a \in Nat /\ Run(x, a + Load(o1)) /\ BeatsRun(o1, a)
        BY <1>10, <3>3
      <4> HIDE DEF a
      <4>2. BeatsRun(o1 \o <<x>>, a)
        BY <1>10, <3>2, <4>1, BeatsRunPut
      <4> QED
        BY <4>2 DEF a
    <3>5. Pair(o1 \o <<x>>) /\ Load(o1 \o <<x>>) = Load(o1) + Len(x)
      BY <1>10, <3>2, LoadPut
    <3> HIDE DEF o2, oo, pushed, cc
    <3> QED
      BY <1>10, <3>2, <3>4, <3>5
  <2>3. CASE ~P
    <3>1. o1 \o <<>> = o1
      BY <1>10, ConcatEmptySeq DEF Pair
    <3>2. o2 = o1 /\ pushed = 0
      BY <2>1, <2>3, <3>1
    <3>3. Load(oo) - moved + 0 = Load(oo) - moved
      <4> DEFINE L == Load(oo)
      <4>1. L \in Nat /\ moved \in Nat
        BY <1>8, <1>10
      <4> HIDE DEF L
      <4>2. L - moved + 0 = L - moved
        BY <4>1
      <4> QED
        BY <4>2 DEF L
    <3> HIDE DEF o2, oo, pushed
    <3> QED
      BY <1>10, <3>2, <3>3
  <2> QED
    BY <2>2, <2>3
(* The bank fills the register again.                                        *)
<1>14. /\ BeatsRun(c2, c + pushed) /\ Pair(c2)
       /\ Load(c2) = n + (Load(cc) - pushed)
  <2>1. CASE n # 0
    <3>1. c2 = <<cut>> /\ cut \in Beats /\ Len(cut) = n /\ Held(h)
      BY <1>2, <1>3, <1>4, <1>7, <2>1
    <3>2. P \/ cc = <<>>
      BY <1>2, <1>3, <2>1
    <3>3. pushed = Load(cc)
      <4>1. ~P => Load(cc) = 0
        BY <1>1, <3>2, LoadIs
      <4> QED
        BY <4>1
    <3>4. Run(cut, l)
      <4>1. Run(q, l) /\ n \in 0 .. Len(q) /\ 0 \in 0 .. Len(q) /\ n \in 0 .. Len(q)
        BY <1>1, <1>2, <1>6, <3>1
      <4> HIDE DEF q
      <4>2. Run(SubSeq(q, 0 + 1, n), l + 0)
        BY <1>1, <4>1, RunCut
      <4>3. l + 0 = l /\ 0 + 1 = 1
        OBVIOUS
      <4> QED
        BY <4>2, <4>3 DEF q
    <3>5. BeatsRun(<<cut>>, l) /\ Load(<<cut>>) = n
      <4> DEFINE x == cut
      <4>1. x \in Beats /\ Run(x, l) /\ Len(x) = n
        BY <3>1, <3>4
      <4> HIDE DEF x
      <4>2. BeatsRun(<<x>>, l) /\ Load(<<x>>) = Len(x)
        BY <1>1, <4>1, OneBeat, LoadIs
      <4> QED
        BY <4>1, <4>2 DEF x
    <3>6. Pair(<<cut>>)
      <4> DEFINE B == Beats
      <4>1. cut \in B
        BY <3>1
      <4> HIDE DEF B
      <4>2. <<cut>> \in Seq(B) /\ Len(<<cut>>) = 1
        BY <4>1, ShortSequences
      <4> QED
        BY <4>2 DEF Pair, B
    <3> HIDE DEF c2, cut, cc, pushed
    <3>7. c + pushed = l /\ n + (Load(cc) - pushed) = n
      BY <1>6, <1>7, <1>8, <3>3
    <3> QED
      BY <3>1, <3>5, <3>6, <3>7
  <2>2. CASE n = 0 /\ P
    <3>1. c2 = <<>> /\ pushed = Load(cc) /\ Load(<<>>) = 0 /\ Pair(<<>>)
      BY SMTT(30), <1>1, <1>4, <2>2, LoadIs DEF Pair
    <3> HIDE DEF c2, pushed
    <3> QED
      BY <1>8, <2>2, <3>1, NoBeats
  <2>3. CASE n = 0 /\ ~P
    <3>1. c2 = cc /\ pushed = 0
      BY <1>4, <2>3
    <3> HIDE DEF c2, pushed, cc
    <3>2. c + pushed = c /\ n + (Load(cc) - pushed) = Load(cc)
      BY <1>8, <2>3, <3>1
    <3> QED
      BY <1>1, <1>6, <3>1, <3>2
  <2> QED
    BY <2>1, <2>2, <2>3
<1>15. Held(h) => Run(q2, l + n)
  <2>1. SUFFICES ASSUME Held(h) PROVE Run(SubSeq(q, n + 1, Len(q)), l + n)
    BY <1>7
  <2> HIDE DEF q
  <2> QED
    BY <1>1, <1>2, <1>6, <2>1, RunCut
<1> DEFINE w9 == w + d
           o9 == w9 + Load(e2)
           c9 == o9 + Load(o2)
           l9 == c9 + Load(c2)
<1>16. /\ w9 \in Nat /\ o9 \in Nat /\ c9 \in Nat /\ l9 \in Nat
       /\ o9 = o + moved /\ c9 = c + pushed /\ l9 = l + n
  <2> DEFINE Lc == Load(cc)
             Lo == Load(oo)
             Le == Load(ee)
             Lc2 == Load(c2)
             Lo2 == Load(o2)
             Le2 == Load(e2)
  <2>1. /\ Lc \in Nat /\ Lo \in Nat /\ Le \in Nat /\ n \in Nat /\ moved \in Nat /\ d \in Nat
        /\ pushed \in Nat
        /\ Lc2 = n + (Lc - pushed) /\ Lo2 = Lo - moved + pushed /\ Le2 = Le - d + moved
        /\ o = w + Le /\ c = o + Lo /\ l = c + Lc
    BY <1>6, <1>7, <1>8, <1>9, <1>10, <1>11, <1>13, <1>14
  <2> HIDE DEF Lc, Lo, Le, Lc2, Lo2, Le2, pushed
  <2>2. /\ w + d \in Nat /\ (w + d) + Le2 = o + moved /\ (o + moved) + Lo2 = c + pushed
        /\ (c + pushed) + Lc2 = l + n
        /\ o + moved \in Nat /\ c + pushed \in Nat /\ l + n \in Nat
    BY ONLY <2>1, w \in Nat, o \in Nat, c \in Nat, l \in Nat
  <2> QED
    BY ONLY <2>2 DEF Lc2, Lo2, Le2
<1>17. d = Drawn(h, axi)
  BY <1>5 DEF d
<1> HIDE DEF w9, o9, c9, l9, m2, e2, o2, c2, q2, pushed
<1>18. /\ w9 = w + Drawn(h, axi) /\ w9 = Len(m2) /\ o9 = w9 + Load(e2)
       /\ c9 = o9 + Load(o2) /\ l9 = c9 + Load(c2)
       /\ BeatsRun(e2, w9) /\ BeatsRun(o2, o9) /\ BeatsRun(c2, c9)
       /\ Held(h) => Run(q2, l9)
  <2>1. w9 = w + d /\ o9 = w9 + Load(e2) /\ c9 = o9 + Load(o2) /\ l9 = c9 + Load(c2)
    BY DEF w9, o9, c9, l9
  <2> QED
    BY <1>9, <1>11, <1>13, <1>14, <1>15, <1>16, <1>17, <2>1
<1> QED
  BY <1>9, <1>16, <1>18 DEF m2, e2, o2, c2, q2

-----------------------------------------------------------------------------
(* The bank that is being read is the first of those to be read.             *)
LEMMA ReadsFirst ==
    ASSUME HandInv, NEW h \in Harts, NEW k, NEW m, Ring(h, k, m), ui[h].active
    PROVE  k >= 1 /\ ui[h].bank = At(h, 0)
<1>1. LogTypes /\ Frozen(h) /\ BankInv(h) /\ k \in Nat /\ m \in 0 .. 2
  BY DEF HandInv, Ring, Arc
<1>2. ui[h].bank = At(h, 0) /\ At(h, 0) \in Banks /\ 0 \in 0 .. BankCount - 1
  <2>1. ui[h].bank = ui[h].pointer
    BY DEF Ring, Reading
  <2>2. 0 \in 0 .. BankCount - 1 /\ 0 \in 0 .. BankCount
    BY Sizes
  <2> QED
    BY <1>1, <2>1, <2>2, Places
<1>3. At(h, 0) \in side[h].owned /\ ~OnItsWay(h, At(h, 0))
  <2>1. Picked(h, At(h, 0))
    BY <1>2 DEF Picked
  <2>2. ReadyChain(h, At(h, 0))
    BY <1>1, <1>2 DEF BankInv
  <2> QED
    BY <1>1, <2>1, <2>2 DEF ReadyChain, Frozen
<1>4. 0 < k \/ 0 >= BankCount - m
  BY <1>2, <1>3 DEF Ring, Arc
<1>5. ~(0 >= BankCount - m)
  BY <1>2, <1>3 DEF Ring, Arc
<1> QED
  BY <1>1, <1>2, <1>4, <1>5

(* What has been read but not written moves with the stream; a claim adds    *)
(* the records of the bank.                                                  *)
LEMMA UiBase ==
    ASSUME OwnerInv, HandInv, NEW axi, UiEdgeWith(axi), NEW h \in Harts, StreamRuns(h)
    PROVE  /\ Base(h) \in Nat /\ Len(memory[h]) \in Nat /\ Len(memory[h]) <= Base(h)
           /\ Ends(ui[h], batchDone[h]) <=> Held(h) /\ ~Held(h)'
           /\ Held(h) \/ ~Held(h)' => Base(h)' = Base(h)
           /\ ~Held(h) /\ Held(h)' =>
                 /\ Base(h)' = Base(h) + Len(lanes[h][ui[h].bank])
                 /\ ui[h].active /\ ui'[h].bank = ui[h].bank
                 /\ Base(h) = Len(memory'[h])
           /\ Held(h) /\ Held(h)' => ui'[h].bank = ui[h].bank
           /\ \A b \in Banks : b # ui[h].bank \/ ~Held(h) => lanes'[h][b] = lanes[h][b]
<1>1. LogTypes /\ Delivers(h) /\ Stream(axi) /\ batchDone[h] \in BOOLEAN
  BY StateTypes DEF HandInv, UiEdgeWith
<1>2. PICK w, o, c, l \in Nat : StreamAt(h, ui[h].bank, w, o, c, l)
  BY <1>1, StreamStands
<1>3. Len(memory'[h]) = w + Drawn(h, axi) /\ Len(memory[h]) = w
  <2>1. Len(memory[h]) = w
    BY <1>2 DEF StreamAt
  <2>2. \E w2 \in Nat : w2 = w + Drawn(h, axi) /\ w2 = Len(memory'[h])
    BY <1>1, <1>2, StreamMoves
  <2> QED
    BY <2>1, <2>2
<1>4. /\ Flow(h) \in Nat /\ Drawn(h, axi) \in Nat
      /\ Held(h) /\ ~batchDone[h] => Held(h)' /\ Flow(h)' = Flow(h) - Drawn(h, axi)
      /\ ~Held(h)' => child'[h] = <<>> /\ output'[h] = <<>> /\ elastic'[h] = <<>>
      /\ ~Held(h) => Flow(h) = 0 /\ \A b \in Banks : lanes'[h][b] = lanes[h][b]
      /\ ~Held(h) /\ Held(h)' => ui'[h].bank = ui[h].bank /\ BatchValid(ui[h])
                                 /\ Flow(h)' = Len(lanes[h][ui[h].bank])
  BY <1>1, UiEdgeFlow
<1>5. Ends(ui[h], batchDone[h]) <=> Held(h) /\ batchDone[h]
  BY DEF Ends, Held
<1>6. /\ Ends(ui[h], batchDone[h]) => ~Held(h)'
      /\ Held(h) /\ Held(h)' => ui'[h].bank = ui[h].bank
  <2>1. /\ Ends(ui[h], batchDone[h]) => ~ui'[h].active
        /\ ui[h].active /\ ~Ends(ui[h], batchDone[h]) => ui'[h].bank = ui[h].bank
    BY <1>1, UiEdgeOnFifo DEF UiStepped
  <2> QED
    BY <2>1 DEF Held
<1>7. ~Held(h) \/ batchDone[h] => Drawn(h, axi) = 0
  <2>1. SUFFICES ASSUME ~Held(h) \/ batchDone[h], activeHart = h, Dma!Takes(axi, elastic[h])
                 PROVE  FALSE
    BY DEF Drawn
  <2>2. state = "W" /\ elastic[h] # <<>>
    BY <2>1 DEF Dma!Takes
  <2> QED
    BY <1>1, <2>1, <2>2 DEF OwnerInv, Delivers
<1>8. ~Held(h)' => Flow(h)' = 0
  <2>1. SUFFICES ASSUME ~Held(h)' PROVE Flow(h)' = 0
    OBVIOUS
  <2>2. child'[h] = <<>> /\ output'[h] = <<>> /\ elastic'[h] = <<>>
    BY <1>4, <2>1
  <2>3. Load(<<>>) = 0
    BY DEF Load
  <2>4. Flow(h)' = Load(elastic'[h]) + Load(output'[h]) + Load(child'[h])
              + IF Held(h)' THEN Len(lanes'[h][ui'[h].bank]) ELSE 0
    BY DEF Flow, Load
  <2> QED
    BY <2>1, <2>2, <2>3, <2>4
<1>9. batchDone[h] => Flow(h) = 0
  BY <1>1 DEF Delivers
<1> DEFINE F == Flow(h)
           F2 == Flow(h)'
           D == Drawn(h, axi)
           L == Len(lanes[h][ui[h].bank])
           H == Held(h)
           H2 == Held(h)'
           B == batchDone[h]
<1>10. Base(h) = w + F /\ Base(h)' = Len(memory'[h]) + F2
  BY <1>3 DEF Base
<1>11. H \in BOOLEAN /\ H2 \in BOOLEAN /\ B \in BOOLEAN
  <2>1. Held(h) \in BOOLEAN
    BY <1>1, StateTypes, ReaderFields DEF Held
  <2>2. Held(h)' \in BOOLEAN
    <3>1. LogTypes'
      BY UiKeepsTypes
    <3>2. ui'[h] \in UiSide
      BY <1>1, UiEdgeOnFifo DEF UiStepped
    <3>3. ui'[h].active \in BOOLEAN /\ ui'[h].claimed \in BOOLEAN
      BY <3>2, ReaderFields
    <3> QED
      BY <3>3 DEF Held
  <2> QED
    BY <1>1, <2>1, <2>2
<1>12. ui[h].bank \in Banks /\ L \in Nat
  BY <1>1, StateTypes, ReaderFields, BankTypes
<1>13. ~H /\ H2 => ui[h].active
  BY <1>4 DEF BatchValid
<1>14. /\ w \in Nat /\ F \in Nat /\ D \in Nat
       /\ H /\ ~B => H2 /\ F2 = F - D
       /\ ~H => F = 0 /\ D = 0
       /\ B => F = 0 /\ D = 0
       /\ ~H2 => F2 = 0
       /\ ~H /\ H2 => F2 = L
       /\ H /\ B => ~H2
       /\ Base(h) = w + F /\ Base(h)' = (w + D) + F2 /\ Len(memory'[h]) = w + D
  BY <1>3, <1>4, <1>5, <1>6, <1>7, <1>8, <1>9, <1>10
<1>15. \A b \in Banks : b # ui[h].bank \/ ~Held(h) => lanes'[h][b] = lanes[h][b]
  BY <1>1, StreamGives DEF Streamed
<1> HIDE DEF F, F2, D, L, H, H2, B
<1>16. /\ Base(h) \in Nat /\ w <= Base(h)
       /\ H /\ B <=> H /\ ~H2
       /\ H \/ ~H2 => Base(h)' = Base(h)
       /\ ~H /\ H2 => Base(h)' = Base(h) + L /\ Base(h) = Len(memory'[h])
  BY <1>11, <1>12, <1>14
<1>17. Ends(ui[h], batchDone[h]) <=> H /\ B
  BY <1>5 DEF H, B
<1> QED
  BY <1>3, <1>4, <1>6, <1>13, <1>15, <1>16, <1>17 DEF H, H2, L

(* ... and stands in order after the edge.                                   *)
LEMMA UiKeepsStream ==
    ASSUME OwnerInv, HandInv, Closing, NEW axi, UiEdgeWith(axi), NEW h \in Harts,
           NEW k, NEW m, Ring(h, k, m), StreamRuns(h), BanksRun(h, k)
    PROVE  StreamRuns(h)'
<1>1. LogTypes /\ Stream(axi) /\ LogTypes'
  BY UiKeepsTypes DEF HandInv, UiEdgeWith
<1>2. PICK w, o, c, l \in Nat : StreamAt(h, ui[h].bank, w, o, c, l)
  BY <1>1, StreamStands
<1>3. PICK w2, o2, c2, l2 \in Nat :
              /\ memory'[h] \in Seq(Nat) /\ Run(memory'[h], 0)
              /\ w2 = Len(memory'[h]) /\ o2 = w2 + Load(elastic'[h])
              /\ c2 = o2 + Load(output'[h]) /\ l2 = c2 + Load(child'[h])
              /\ BeatsRun(elastic'[h], w2) /\ BeatsRun(output'[h], o2) /\ BeatsRun(child'[h], c2)
              /\ Held(h) => Run(lanes'[h][ui[h].bank], l2)
  BY <1>1, <1>2, StreamMoves
<1>4. /\ ~Held(h) /\ Held(h)' =>
                 /\ Base(h)' = Base(h) + Len(lanes[h][ui[h].bank])
                 /\ ui[h].active /\ ui'[h].bank = ui[h].bank
                 /\ Base(h) = Len(memory'[h])
      /\ Held(h) /\ Held(h)' => ui'[h].bank = ui[h].bank
      /\ \A b \in Banks : b # ui[h].bank \/ ~Held(h) => lanes'[h][b] = lanes[h][b]
  BY UiBase
<1>5. Held(h)' => Run(lanes'[h][ui'[h].bank], l2)
  <2>1. CASE Held(h)
    BY <1>3, <1>4, <2>1
  <2>2. ASSUME ~Held(h), Held(h)' PROVE Run(lanes'[h][ui'[h].bank], l2)
    <3>1. k >= 1 /\ ui[h].bank = At(h, 0) /\ ui'[h].bank = ui[h].bank /\ ui[h].bank \in Banks
          /\ k \in Nat
      BY <1>1, <1>4, <2>2, ReadsFirst, StateTypes, ReaderFields DEF Ring, Arc
    <3>2. First(h) = 0 /\ 0 \in 0 .. k - 1
      BY <2>2, <3>1 DEF First
    <3>3. Run(lanes[h][At(h, 0)], Base(h) + Full(0 - 0))
      BY <3>2 DEF BanksRun
    <3>4. Base(h) + Full(0 - 0) = Base(h)
      <4>1. Full(0 - 0) = 0
        BY FullSteps
      <4>2. Base(h) \in Nat
        BY UiBase
      <4> QED
        BY <4>1, <4>2
    <3>5. lanes'[h][ui[h].bank] = lanes[h][ui[h].bank]
      BY <1>4, <2>2, <3>1
    <3>6. Base(h) = l2
      <4> DEFINE Lc == Load(child'[h])
                 Lo == Load(output'[h])
                 Le == Load(elastic'[h])
                 L == Len(lanes[h][ui[h].bank])
      <4>1. Pair(elastic'[h]) /\ Pair(output'[h]) /\ Pair(child'[h])
        BY <1>1, StreamGives DEF Streamed
      <4>2. Lc \in Nat /\ Lo \in Nat /\ Le \in Nat /\ L \in Nat
        BY <1>1, <3>1, <4>1, LoadIs, BankTypes
      <4>3. Flow(h)' = Le + Lo + Lc + L
        BY <2>2, <3>1, <3>5 DEF Flow, Load
      <4>4. Base(h)' = w2 + Flow(h)' /\ Base(h)' = Base(h) + L /\ Base(h) = w2
        BY <1>3, <1>4, <2>2 DEF Base
      <4>5. l2 = ((w2 + Le) + Lo) + Lc
        BY <1>3
      <4> HIDE DEF Lc, Lo, Le, L
      <4> QED
        BY <4>2, <4>3, <4>4, <4>5
    <3> QED
      BY <3>1, <3>3, <3>4, <3>5, <3>6
  <2> QED
    BY <2>1, <2>2
<1> QED
  BY <1>1, <1>3, <1>5 DEF StreamRuns

(* Where the records that wait in the banks stand after an edge.             *)
LEMMA UiKeepsBanks ==
    ASSUME OwnerInv, HandInv, Closing, Paced, NEW axi, UiEdgeWith(axi), NEW h \in Harts,
           NEW k, NEW m, Ring(h, k, m), NEW kk, NEW mm, UiTurn(h, k, m, kk, mm),
           StreamRuns(h), BanksRun(h, k)
    PROVE  BanksRun(h, kk)'
<1>1. /\ LogTypes /\ BankCount \in Nat /\ k \in Nat /\ kk \in Nat /\ k <= BankCount
      /\ k - kk \in {0, 1}
      /\ k - kk = 1 <=> Ends(ui[h], batchDone[h])
      /\ \A i \in 0 .. BankCount - 1 : At(h, i)' = At(h, i + (k - kk))
  <2>1. LogTypes
    BY DEF HandInv
  <2>2. /\ BankCount \in Nat /\ k \in Nat /\ kk \in Nat /\ m \in 0 .. 2 /\ k + m <= BankCount
        /\ k - kk \in {0, 1}
        /\ k - kk = 1 <=> Ends(ui[h], batchDone[h])
        /\ \A i \in 0 .. BankCount - 1 : At(h, i)' = At(h, i + (k - kk))
    BY UiTurns
  <2> QED
    BY <2>1, <2>2
<1>2. /\ Base(h) \in Nat
      /\ Ends(ui[h], batchDone[h]) <=> Held(h) /\ ~Held(h)'
      /\ Held(h) \/ ~Held(h)' => Base(h)' = Base(h)
      /\ ~Held(h) /\ Held(h)' => Base(h)' = Base(h) + Len(lanes[h][ui[h].bank]) /\ ui[h].active
      /\ \A b \in Banks : b # ui[h].bank \/ ~Held(h) => lanes'[h][b] = lanes[h][b]
  BY UiBase
<1>3. side' = side
  BY DEF UiEdgeWith, coreVars
<1>4. ui[h].active => k >= 1 /\ ui[h].bank = At(h, 0)
  BY ReadsFirst
<1> DEFINE f == First(h)
           f2 == First(h)'
<1>5. /\ f \in {0, 1} /\ f2 \in {0, 1}
      /\ f = 1 <=> Held(h)
      /\ f2 = 1 <=> Held(h)'
  BY DEF First
<1> HIDE DEF f, f2
<1>6. ASSUME NEW i \in f2 .. kk - 1
      PROVE  /\ Run(lanes'[h][At(h, i)'], Base(h)' + Full(i - f2))
             /\ i < kk - 1 \/ ~side[h].flushAck => Len(lanes'[h][At(h, i)']) = BankRecords
  <2> DEFINE p == i + (k - kk)
             b == At(h, p)
  <2>1. /\ p \in Nat /\ p \in 0 .. k - 1 /\ p \in 0 .. BankCount - 1 /\ 0 \in 0 .. BankCount - 1
        /\ i \in 0 .. BankCount - 1 /\ i \in Nat
        /\ i < kk - 1 <=> p < k - 1
    BY <1>1, <1>5
  <2>2. p >= f
    <3>1. CASE k - kk = 1
      BY <1>1, <1>5, <3>1
    <3>2. CASE k - kk = 0
      <4>1. Held(h) => Held(h)'
        BY <1>1, <1>2, <3>2
      <4> QED
        BY <1>1, <1>5, <3>2, <4>1
    <3> QED
      BY <1>1, <3>1, <3>2
  <2>3. At(h, i)' = b
    BY <1>1, <2>1
  <2>4. b \in Banks /\ (p # 0 => b # At(h, 0))
    <3>1. p \in 0 .. BankCount
      BY <1>1, <2>1
    <3> QED
      BY <1>1, <2>1, <3>1, Places
  <2>5. lanes'[h][b] = lanes[h][b]
    <3>1. CASE Held(h)
      <4>1. p # 0 /\ ui[h].active
        BY <1>5, <2>2, <3>1 DEF Held
      <4> QED
        BY <1>2, <1>4, <2>4, <4>1
    <3>2. CASE ~Held(h)
      BY <1>2, <2>4, <3>2
    <3> QED
      BY <3>1, <3>2
  <2>6. /\ Run(lanes[h][b], Base(h) + Full(p - f))
        /\ p < k - 1 \/ ~side[h].flushAck => Len(lanes[h][b]) = BankRecords
    <3>1. p \in f .. k - 1
      BY <1>1, <1>5, <2>1, <2>2
    <3> QED
      BY <3>1 DEF BanksRun, f
  <2>7. Base(h)' + Full(i - f2) = Base(h) + Full(p - f)
    <3>1. CASE Held(h) \/ ~Held(h)'
      <4>1. Base(h)' = Base(h)
        BY <1>2, <3>1
      <4>2. i - f2 = p - f
        <5>1. CASE k - kk = 1
          BY <1>1, <1>2, <1>5, <2>1, <5>1
        <5>2. CASE k - kk = 0
          <6>1. Held(h) <=> Held(h)'
            BY <1>1, <1>2, <3>1, <5>2
          <6>2. f = f2
            BY <1>5, <6>1
          <6> QED
            BY <2>1, <5>2, <6>2
        <5> QED
          BY <1>1, <5>1, <5>2
      <4> QED
        BY <4>1, <4>2
    <3>2. CASE ~Held(h) /\ Held(h)'
      <4>1. k - kk = 0 /\ f = 0 /\ f2 = 1
        BY <1>1, <1>2, <1>5, <3>2
      <4>2. p = i /\ p >= 1 /\ 0 \in 0 .. k - 1 /\ 0 < k - 1
        BY <1>1, <2>1, <4>1
      <4>3. Len(lanes[h][At(h, 0)]) = BankRecords
        <5>1. First(h) = 0
          BY <4>1 DEF f
        <5> QED
          BY <4>2, <5>1 DEF BanksRun
      <4>4. Base(h)' = Base(h) + BankRecords
        BY <1>2, <1>4, <3>2, <4>3
      <4>5. Full(p) = Full(p - 1) + BankRecords /\ Full(p - 1) \in Nat
        <5>1. p - 1 \in Nat /\ (p - 1) + 1 = p
          BY <2>1, <4>2
        <5> QED
          BY <5>1, FullSteps
      <4>6. i - f2 = p - 1 /\ p - f = p
        BY <2>1, <4>1, <4>2
      <4> DEFINE x == Full(p - 1)
      <4>7. Base(h) + BankRecords + x = Base(h) + (x + BankRecords)
        <5>1. Base(h) \in Nat /\ BankRecords \in Nat /\ x \in Nat
          BY <1>2, <4>5, Sizes
        <5> HIDE DEF x
        <5> QED
          BY <5>1
      <4> HIDE DEF p
      <4> QED
        BY <4>4, <4>5, <4>6, <4>7
    <3> QED
      BY <3>1, <3>2
  <2> HIDE DEF p, b
  <2> QED
    BY <2>1, <2>3, <2>5, <2>6, <2>7
<1>7. \A i \in f2 .. kk - 1 :
         /\ Run(lanes'[h][At(h, i)'], Base(h)' + Full(i - f2))
         /\ i < kk - 1 \/ ~side'[h].flushAck => Len(lanes'[h][At(h, i)']) = BankRecords
  BY <1>3, <1>6
<1> QED
  BY <1>7 DEF BanksRun, Run, Full, f2

(* The queue goes on where the last bank ends.                               *)
LEMMA UiKeepsQueue ==
    ASSUME OwnerInv, HandInv, Closing, Paced, NEW axi, UiEdgeWith(axi), NEW h \in Harts,
           NEW k, NEW m, Ring(h, k, m), NEW kk, NEW mm, UiTurn(h, k, m, kk, mm),
           StreamRuns(h), BanksRun(h, k), QueueRuns(h, k)
    PROVE  QueueRuns(h, kk)'
<1>1. /\ BankCount \in Nat /\ k \in Nat /\ kk \in Nat /\ m \in 0 .. 2 /\ k + m <= BankCount
      /\ k - kk \in {0, 1}
      /\ k - kk = 1 <=> Ends(ui[h], batchDone[h])
      /\ \A i \in 0 .. BankCount - 1 : At(h, i)' = At(h, i + (k - kk))
  BY UiTurns
<1>2. /\ Base(h) \in Nat
      /\ Ends(ui[h], batchDone[h]) <=> Held(h) /\ ~Held(h)'
      /\ Held(h) \/ ~Held(h)' => Base(h)' = Base(h)
      /\ ~Held(h) /\ Held(h)' => Base(h)' = Base(h) + Len(lanes[h][ui[h].bank]) /\ ui[h].active
      /\ \A b \in Banks : b # ui[h].bank \/ ~Held(h) => lanes'[h][b] = lanes[h][b]
  BY UiBase
<1>3. side' = side /\ produced' = produced /\ queue' = queue /\ LogTypes
  BY DEF UiEdgeWith, coreVars, HandInv
<1>4. ui[h].active => k >= 1 /\ ui[h].bank = At(h, 0)
  BY ReadsFirst
<1> DEFINE f == First(h)
           f2 == First(h)'
           X == Base(h)
           X2 == Base(h)'
<1>5. /\ f \in {0, 1} /\ f2 \in {0, 1}
      /\ f = 1 <=> Held(h)
      /\ f2 = 1 <=> Held(h)'
      /\ f <= k
  <2>1. Held(h) => k >= 1
    BY <1>4 DEF Held
  <2> QED
    BY <1>1, <2>1 DEF First
<1>6. ASSUME NEW p \in Nat, p >= f, p < BankCount
      PROVE  lanes'[h][At(h, p)] = lanes[h][At(h, p)]
  <2>1. p \in 0 .. BankCount /\ p \in 0 .. BankCount - 1 /\ 0 \in 0 .. BankCount - 1
    BY <1>1, <1>6
  <2>2. At(h, p) \in Banks /\ (p # 0 => At(h, p) # At(h, 0))
    BY <1>3, <2>1, Places
  <2>3. CASE Held(h)
    <3>1. p # 0 /\ ui[h].active
      BY <1>5, <1>6, <2>3 DEF Held
    <3> QED
      BY <1>2, <1>4, <2>2, <3>1
  <2>4. CASE ~Held(h)
    BY <1>2, <2>2, <2>4
  <2> QED
    BY <2>3, <2>4
<1>7. QueueRuns(h, k)
  OBVIOUS
<1> HIDE DEF f, f2
(* The two ways of an edge: the count of banks ahead of the queue stays, or  *)
(* the first of them is claimed.                                             *)
<1>8. CASE Held(h) \/ ~Held(h)'
  <2>1. X2 = X /\ kk - f2 = k - f
    <3>1. CASE k - kk = 1
      BY <1>1, <1>2, <1>5, <1>8, <3>1
    <3>2. CASE k - kk = 0
      <4>1. Held(h) <=> Held(h)'
        BY <1>1, <1>2, <1>8, <3>2
      <4>2. f = f2
        BY <1>5, <4>1
      <4> QED
        BY <1>1, <1>2, <1>8, <3>2, <4>2
    <3> QED
      BY <1>1, <3>1, <3>2
  <2>2. k < BankCount => At(h, kk)' = At(h, k) /\ lanes'[h][At(h, k)] = lanes[h][At(h, k)]
    <3>1. SUFFICES ASSUME k < BankCount
                   PROVE  At(h, kk)' = At(h, k) /\ lanes'[h][At(h, k)] = lanes[h][At(h, k)]
      OBVIOUS
    <3>2. kk \in 0 .. BankCount - 1 /\ kk + (k - kk) = k
      BY <1>1, <3>1
    <3>3. At(h, kk)' = At(h, k)
      BY <1>1, <3>2
    <3> QED
      BY <1>1, <1>5, <1>6, <3>1, <3>3
  <2>3. kk # f2 => /\ At(h, kk - 1)' = At(h, k - 1)
                   /\ lanes'[h][At(h, k - 1)] = lanes[h][At(h, k - 1)]
                   /\ (kk - 1) - f2 = (k - 1) - f
    <3>1. SUFFICES ASSUME kk # f2
                   PROVE  /\ At(h, kk - 1)' = At(h, k - 1)
                          /\ lanes'[h][At(h, k - 1)] = lanes[h][At(h, k - 1)]
                          /\ (kk - 1) - f2 = (k - 1) - f
      OBVIOUS
    <3>2. /\ kk - 1 \in 0 .. BankCount - 1 /\ (kk - 1) + (k - kk) = k - 1
          /\ k - 1 \in Nat /\ k - 1 >= f /\ k - 1 < BankCount
          /\ (kk - 1) - f2 = (k - 1) - f
      <4>1. /\ k \in Nat /\ kk \in Nat /\ BankCount \in Nat /\ k <= BankCount
            /\ k - kk \in {0, 1} /\ f \in {0, 1} /\ f2 \in {0, 1} /\ f <= k
            /\ kk - f2 = k - f /\ kk # f2
        BY <1>1, <1>5, <2>1, <3>1
      <4> QED
        BY ONLY <4>1
    <3>3. At(h, kk - 1)' = At(h, k - 1)
      BY <1>1, <3>2
    <3> QED
      BY <1>6, <3>2, <3>3
  <2>4. /\ kk = f2 <=> k = f
        /\ side[h].valid /\ ~side[h].flushAck => k < BankCount
    <3>1. side[h].valid /\ ~side[h].flushAck => k + m < BankCount
      BY DEF Ring, Filling
    <3>2. kk = f2 <=> k = f
      BY <1>1, <1>5, <2>1
    <3> QED
      BY <1>1, <3>1, <3>2
  <2>5. /\ Len(queue'[h]) <= produced'[h] /\ Run(queue'[h], produced'[h] - Len(queue'[h]))
        /\ ~side'[h].flushAck /\ side'[h].valid =>
              /\ Run(lanes'[h][At(h, kk)'], X2 + Full(kk - f2))
              /\ produced'[h] - Len(queue'[h]) = X2 + Full(kk - f2) + Len(lanes'[h][At(h, kk)'])
        /\ ~side'[h].flushAck /\ ~side'[h].valid =>
              produced'[h] - Len(queue'[h]) = X2 + Full(kk - f2)
        /\ side'[h].flushAck =>
              produced'[h] = IF kk = f2 THEN X2
                             ELSE X2 + Full(kk - 1 - f2) + Len(lanes'[h][At(h, kk - 1)'])
    <3>1. /\ Len(queue'[h]) <= produced'[h] /\ Run(queue'[h], produced'[h] - Len(queue'[h]))
      BY <1>3, <1>7 DEF QueueRuns
    <3>2. ASSUME ~side[h].flushAck, side[h].valid
          PROVE  /\ Run(lanes'[h][At(h, kk)'], X2 + Full(kk - f2))
                 /\ produced[h] - Len(queue[h]) = X2 + Full(kk - f2) + Len(lanes'[h][At(h, kk)'])
      <4>1. /\ Run(lanes[h][At(h, k)], X + Full(k - f))
            /\ produced[h] - Len(queue[h]) = X + Full(k - f) + Len(lanes[h][At(h, k)])
        BY <1>7, <3>2 DEF QueueRuns, f
      <4>2. lanes'[h][At(h, kk)'] = lanes[h][At(h, k)]
        BY <2>2, <2>4, <3>2
      <4> HIDE DEF X, X2
      <4> QED
        BY <2>1, <4>1, <4>2
    <3>3. ASSUME ~side[h].flushAck, ~side[h].valid
          PROVE  produced[h] - Len(queue[h]) = X2 + Full(kk - f2)
      <4>1. produced[h] - Len(queue[h]) = X + Full(k - f)
        BY <1>7, <3>3 DEF QueueRuns, f
      <4> HIDE DEF X, X2
      <4> QED
        BY <2>1, <4>1
    <3>4. ASSUME side[h].flushAck
          PROVE  produced[h] = IF kk = f2 THEN X2
                             ELSE X2 + Full(kk - 1 - f2) + Len(lanes'[h][At(h, kk - 1)'])
      <4>1. produced[h] = IF k = f THEN X ELSE X + Full(k - 1 - f) + Len(lanes[h][At(h, k - 1)])
        BY <1>7, <3>4 DEF QueueRuns, f
      <4> HIDE DEF X, X2
      <4> QED
        BY <2>1, <2>3, <2>4, <4>1
    <3> QED
      BY <1>3, <3>1, <3>2, <3>3, <3>4
  <2> QED
    BY <2>5 DEF QueueRuns, Run, Full, f2
<1>9. CASE ~Held(h) /\ Held(h)'
  <2>1. kk = k /\ f = 0 /\ f2 = 1 /\ k >= 1 /\ X2 = X + Len(lanes[h][At(h, 0)]) /\ k - 1 \in Nat
    <3>1. kk = k
      <4>1. k - kk = 0
        BY <1>1, <1>2, <1>9
      <4> QED
        BY SMTT(30), <1>1, <4>1
    <3>2. f = 0 /\ f2 = 1
      BY <1>5, <1>9
    <3>3. k >= 1 /\ X2 = X + Len(lanes[h][At(h, 0)])
      BY <1>2, <1>4, <1>9
    <3> HIDE DEF X, X2
    <3> QED
      BY <1>1, <3>1, <3>2, <3>3
  <2>2. ASSUME NEW i \in 0 .. BankCount - 1
        PROVE  At(h, i)' = At(h, i) /\ lanes'[h][At(h, i)] = lanes[h][At(h, i)]
    <3>1. At(h, i)' = At(h, i)
      <4>1. i + (k - kk) = i
        BY <1>1, <2>1
      <4> QED
        BY <1>1, <4>1
    <3>2. i \in Nat /\ i >= f /\ i < BankCount
      BY <1>1, <2>1
    <3> QED
      BY <1>6, <3>1, <3>2
  <2> DEFINE n == Len(lanes[h][At(h, 0)])
  <2>3. /\ k > 1 \/ ~side[h].flushAck => n = BankRecords
        /\ n \in Nat
    <3>1. First(h) = 0 /\ 0 \in 0 .. k - 1 /\ 0 \in 0 .. BankCount
      BY <1>1, <2>1 DEF f
    <3>2. At(h, 0) \in Banks
      BY <1>3, <3>1, Places
    <3>3. k > 1 => 0 < k - 1
      BY <1>1
    <3> QED
      BY <1>3, <3>1, <3>2, <3>3, BankTypes DEF BanksRun
  <2>4. Full(k) = Full(k - 1) + BankRecords /\ Full(k - 1) \in Nat /\ Full(k) \in Nat
        /\ (k > 1 => Full(k - 1) = Full(k - 2) + BankRecords /\ Full(k - 2) \in Nat)
        /\ Full(0) = 0
    <3>1. (k - 1) + 1 = k /\ (k > 1 => k - 2 \in Nat /\ (k - 2) + 1 = k - 1)
      BY <2>1, <1>1
    <3> QED
      BY <1>1, <2>1, <3>1, FullSteps
  <2>5. ~side[h].flushAck => X2 + Full(kk - f2) = X + Full(k - f)
    <3>1. SUFFICES ASSUME ~side[h].flushAck PROVE X2 + Full(k - 1) = X + Full(k)
      <4>1. kk - f2 = k - 1 /\ k - f = k
        BY <1>1, <2>1
      <4> QED
        BY <4>1
    <3>2. X2 = X + BankRecords
      BY <2>1, <2>3, <3>1
    <3> DEFINE y == Full(k - 1)
    <3>3. X \in Nat /\ BankRecords \in Nat /\ y \in Nat /\ Full(k) = y + BankRecords
      BY <1>2, <2>4, Sizes
    <3> HIDE DEF X, X2, y
    <3>4. X2 + y = X + Full(k)
      BY <3>2, <3>3
    <3> QED
      BY <3>4 DEF y
  <2>6. side[h].valid /\ ~side[h].flushAck => k \in 0 .. BankCount - 1
    <3>1. side[h].valid /\ ~side[h].flushAck => k + m < BankCount
      BY DEF Ring, Filling
    <3> QED
      BY <1>1, <3>1
  <2>7. /\ ~side[h].flushAck /\ side[h].valid =>
              /\ Run(lanes'[h][At(h, kk)'], X2 + Full(kk - f2))
              /\ produced[h] - Len(queue[h]) = X2 + Full(kk - f2) + Len(lanes'[h][At(h, kk)'])
        /\ ~side[h].flushAck /\ ~side[h].valid =>
              produced[h] - Len(queue[h]) = X2 + Full(kk - f2)
    <3>1. ASSUME ~side[h].flushAck, side[h].valid
          PROVE  /\ Run(lanes'[h][At(h, kk)'], X2 + Full(kk - f2))
                 /\ produced[h] - Len(queue[h]) = X2 + Full(kk - f2) + Len(lanes'[h][At(h, kk)'])
      <4>1. /\ Run(lanes[h][At(h, k)], X + Full(k - f))
            /\ produced[h] - Len(queue[h]) = X + Full(k - f) + Len(lanes[h][At(h, k)])
        BY <1>7, <3>1 DEF QueueRuns, f
      <4>2. lanes'[h][At(h, kk)'] = lanes[h][At(h, k)]
        BY <2>1, <2>2, <2>6, <3>1
      <4> HIDE DEF X, X2
      <4> QED
        BY <2>5, <3>1, <4>1, <4>2
    <3>2. ASSUME ~side[h].flushAck, ~side[h].valid
          PROVE  produced[h] - Len(queue[h]) = X2 + Full(kk - f2)
      <4>1. produced[h] - Len(queue[h]) = X + Full(k - f)
        BY <1>7, <3>2 DEF QueueRuns, f
      <4> HIDE DEF X, X2
      <4> QED
        BY <2>5, <3>2, <4>1
    <3> QED
      BY <3>1, <3>2
  <2>8. side[h].flushAck =>
              produced[h] = IF kk = f2 THEN X2
                            ELSE X2 + Full(kk - 1 - f2) + Len(lanes'[h][At(h, kk - 1)'])
    <3>1. SUFFICES ASSUME side[h].flushAck
                   PROVE  produced[h] = IF k = 1 THEN X2
                             ELSE X2 + Full(k - 2) + Len(lanes'[h][At(h, k - 1)'])
      <4>1. kk - 1 - f2 = k - 2
        BY <1>1, <2>1
      <4> QED
        BY <2>1, <4>1
    <3>2. produced[h] = X + Full(k - 1) + Len(lanes[h][At(h, k - 1)])
      <4>1. produced[h] = IF k = f THEN X ELSE X + Full(k - 1 - f) + Len(lanes[h][At(h, k - 1)])
        BY <1>7, <3>1 DEF QueueRuns, f
      <4>2. k - 1 - f = k - 1 /\ k # f
        BY <1>1, <2>1
      <4> QED
        BY <4>1, <4>2
    <3>3. k - 1 \in 0 .. BankCount - 1
      BY <1>1, <2>1
    <3>4. lanes'[h][At(h, k - 1)'] = lanes[h][At(h, k - 1)]
      BY <2>2, <3>3
    <3>5. Len(lanes[h][At(h, k - 1)]) \in Nat
      <4>1. k - 1 \in 0 .. BankCount
        BY <1>1, <3>3
      <4>2. At(h, k - 1) \in Banks
        BY <1>3, <4>1, Places
      <4> QED
        BY <1>3, <4>2, BankTypes
    <3> DEFINE z == Len(lanes[h][At(h, k - 1)])
               y == Full(k - 1)
    <3>6. CASE k = 1
      <4>1. y = 0 /\ z = n /\ k - 1 = 0
        <5>1. k - 1 = 0
          BY <3>6
        <5> QED
          BY <2>4, <5>1
      <4>2. produced[h] = X + 0 + n /\ X2 = X + n /\ X \in Nat /\ n \in Nat
        BY <1>2, <2>1, <2>3, <3>2, <4>1
      <4> HIDE DEF X, X2, n
      <4> QED
        BY <3>6, <4>2
    <3>7. CASE k # 1
      <4>1. k > 1
        BY <1>1, <2>1, <3>7
      <4> DEFINE x == Full(k - 2)
      <4>2. y = x + BankRecords /\ x \in Nat /\ n = BankRecords /\ BankRecords \in Nat
        BY <2>3, <2>4, <4>1, Sizes
      <4>3. produced[h] = X + y + z /\ X2 = X + BankRecords /\ X \in Nat /\ z \in Nat
        BY <1>2, <2>1, <3>2, <3>5, <4>2
      <4> HIDE DEF X, X2, x, y, z
      <4>4. produced[h] = X2 + x + z
        BY <4>2, <4>3
      <4> QED
        BY <3>4, <3>7, <4>4 DEF x, z
    <3> QED
      BY <3>6, <3>7
  <2>9. /\ Len(queue'[h]) <= produced'[h] /\ Run(queue'[h], produced'[h] - Len(queue'[h]))
    BY <1>3, <1>7 DEF QueueRuns
  <2>10. /\ ~side'[h].flushAck /\ side'[h].valid =>
              /\ Run(lanes'[h][At(h, kk)'], X2 + Full(kk - f2))
              /\ produced'[h] - Len(queue'[h]) = X2 + Full(kk - f2) + Len(lanes'[h][At(h, kk)'])
         /\ ~side'[h].flushAck /\ ~side'[h].valid =>
              produced'[h] - Len(queue'[h]) = X2 + Full(kk - f2)
         /\ side'[h].flushAck =>
              produced'[h] = IF kk = f2 THEN X2
                            ELSE X2 + Full(kk - 1 - f2) + Len(lanes'[h][At(h, kk - 1)'])
    <3> HIDE DEF X, X2
    <3> QED
      BY <1>3, <2>7, <2>8
  <2> QED
    BY <2>9, <2>10 DEF QueueRuns, Run, Full, f2
<1> QED
  BY <1>8, <1>9

(* The records of the stream come after those in DDR1.                       *)
LEMMA BaseCounts ==
    ASSUME LogTypes, NEW h \in Harts, StreamRuns(h)
    PROVE  Base(h) \in Nat /\ Len(memory[h]) \in Nat /\ Len(memory[h]) <= Base(h)
<1>1. Len(memory[h]) \in Nat
  <2>1. memory[h] \in Seq(Nat)
    BY DEF StreamRuns
  <2> QED
    BY <2>1
<1>2. Pair(elastic[h]) /\ Pair(output[h]) /\ Pair(child[h])
  <2>1. Len(child[h]) \in Nat
    BY StateTypes
  <2>2. Len(child[h]) <= 1 => Len(child[h]) <= 2
    BY <2>1
  <2> QED
    BY <2>2, StateTypes DEF Pair
<1>3. Load(elastic[h]) \in Nat /\ Load(output[h]) \in Nat /\ Load(child[h]) \in Nat
  BY <1>2, LoadIs
<1>4. (IF Held(h) THEN Len(lanes[h][ui[h].bank]) ELSE 0) \in Nat
  <2>1. ui[h].bank \in Banks
    BY StateTypes, ReaderFields
  <2> QED
    BY <2>1, BankTypes
<1> DEFINE w == Len(memory[h])
           o == Load(elastic[h])
           p == Load(output[h])
           c == Load(child[h])
           l == IF Held(h) THEN Len(lanes[h][ui[h].bank]) ELSE 0
<1>5. Base(h) = w + (o + p + c + l)
  BY DEF Base, Flow
<1>6. w \in Nat /\ o \in Nat /\ p \in Nat /\ c \in Nat /\ l \in Nat
  BY <1>1, <1>3, <1>4
<1> HIDE DEF w, o, p, c, l
<1>7. Base(h) \in Nat /\ w \in Nat /\ w <= Base(h)
  BY <1>5, <1>6
<1> QED
  BY <1>7 DEF w

-----------------------------------------------------------------------------
(* An edge of the writer's clock leaves the stream and what it reads alone.  *)
LEMMA CoreKeepsStream ==
    ASSUME HandInv, CoreEdge, NEW h \in Harts, StreamRuns(h)
    PROVE  /\ StreamRuns(h)' /\ Base(h)' = Base(h) /\ First(h)' = First(h)
           /\ Base(h) \in Nat /\ memory' = memory
<1>1. /\ memory' = memory /\ elastic' = elastic /\ output' = output /\ child' = child /\ ui' = ui
      /\ LogTypes
  BY DEF CoreEdge, uiVars, HandInv
<1>2. Held(h)' = Held(h) /\ First(h)' = First(h)
  BY <1>1 DEF Held, First
<1>3. Held(h) => lanes'[h][ui[h].bank] = lanes[h][ui[h].bank]
  BY CoreKeepsPicked DEF Held
<1>4. Flow(h)' = Flow(h)
  <2>1. CASE Held(h)
    BY <1>1, <1>2, <1>3, <2>1 DEF Flow, Load
  <2>2. CASE ~Held(h)
    BY <1>1, <1>2, <2>2 DEF Flow, Load
  <2> QED
    BY <2>1, <2>2
<1>5. Base(h)' = Base(h)
  BY <1>1, <1>4 DEF Base
<1>6. Base(h) \in Nat
  BY <1>1, BaseCounts
<1>7. StreamRuns(h)'
  <2>1. PICK w, o, c, l \in Nat : StreamAt(h, ui[h].bank, w, o, c, l)
    BY <1>1, StreamStands
  <2>2. /\ memory'[h] \in Seq(Nat) /\ Run(memory'[h], 0)
        /\ w = Len(memory'[h]) /\ o = w + Load(elastic'[h])
        /\ c = o + Load(output'[h]) /\ l = c + Load(child'[h])
        /\ BeatsRun(elastic'[h], w) /\ BeatsRun(output'[h], o) /\ BeatsRun(child'[h], c)
        /\ Held(h)' => Run(lanes'[h][ui'[h].bank], l)
    BY <1>1, <1>2, <1>3, <2>1 DEF StreamAt
  <2> QED
    BY <2>2 DEF StreamRuns
<1> QED
  BY <1>1, <1>2, <1>5, <1>6, <1>7

(* The records that come in follow one another.                              *)
LEMMA NumberedRuns ==
    ASSUME NEW a \in Nat, NEW n \in Nat
    PROVE  Numbered(a, n) \in Seq(Nat) /\ Len(Numbered(a, n)) = n /\ Run(Numbered(a, n), a)
<1>1. Numbered(a, n) \in Seq(Nat) /\ Len(Numbered(a, n)) = n
  BY DEF Numbered
<1>2. \A i \in 1 .. n : Numbered(a, n)[i] = a + i
  BY DEF Numbered
<1> QED
  BY <1>1, <1>2 DEF Run

(* What the writer takes from the queue, and what comes into it.             *)
LEMMA Fed ==
    ASSUME HandInv, CoreEdge, NEW h \in Harts,
           Len(queue[h]) <= produced[h], Run(queue[h], produced[h] - Len(queue[h]))
    PROVE  LET c == side[h]
               n == Offered(h)
               Q == produced[h] - Len(queue[h])
           IN  /\ Q \in Nat /\ Here(c, n) \in Nat /\ There(c, n) \in Nat
               /\ Taken(h) = Here(c, n) + There(c, n)
               /\ produced[h] \in Nat /\ produced'[h] \in Nat /\ produced'[h] >= produced[h]
               /\ captureDone => produced'[h] = produced[h]
               /\ Len(queue'[h]) <= produced'[h] /\ Run(queue'[h], produced'[h] - Len(queue'[h]))
               /\ produced'[h] - Len(queue'[h]) = Q + Taken(h)
               /\ Portion(h, c.bank) \in Seq(Nat) /\ Run(Portion(h, c.bank), Q)
               /\ Len(Portion(h, c.bank)) = Here(c, n)
               /\ \A b \in NextFree(c) : /\ Portion(h, b) \in Seq(Nat)
                                         /\ Run(Portion(h, b), Q + Here(c, n))
                                         /\ Len(Portion(h, b)) = There(c, n)
<1> DEFINE c == side[h]
           n == Offered(h)
           q == queue[h]
           p == produced[h]
           Q == p - Len(q)
           here == Here(c, n)
           there == There(c, n)
           t == Taken(h)
<1>1. LogTypes /\ c \in CoreSide /\ q \in Seq(Nat) /\ p \in Nat
  BY StateTypes DEF HandInv
<1>2. n \in 0 .. WritePorts /\ n <= Len(q) /\ Len(q) \in Nat /\ WritePorts \in Nat
  BY <1>1, OfferedFits, Sizes
<1>3. here \in 0 .. n /\ there \in 0 .. n /\ here + there <= n /\ t = here + there
  <2>1. t = here + there
    BY DEF Taken, Accepted
  <2> HIDE DEF c, n
  <2> QED
    BY <1>1, <1>2, <2>1, Shares
<1>4. PICK new \in [Harts -> 0 .. WritePorts] :
         /\ \A g \in Harts : new[g] \in Bundles(g)
         /\ produced' = [g \in Harts |-> produced[g] + new[g]]
         /\ queue' = [g \in Harts |-> SubSeq(queue[g], Taken(g) + 1, Len(queue[g]))
                                        \o Numbered(produced[g], new[g])]
  BY DEF CoreEdge
<1> DEFINE x == new[h]
           p2 == produced'[h]
           q2 == queue'[h]
           rest == SubSeq(q, t + 1, Len(q))
<1>5. /\ x \in Nat /\ (captureDone => x = 0) /\ p2 = p + x
      /\ q2 = rest \o Numbered(p, x)
  <2>1. x \in Nat
    <3>1. x \in 0 .. WritePorts
      BY <1>4
    <3> QED
      BY <1>2, <3>1
  <2>2. captureDone => x = 0
    <3>1. x \in Bundles(h)
      BY <1>4
    <3> QED
      BY <3>1 DEF Bundles
  <2>3. p2 = p + x /\ q2 = rest \o Numbered(p, x)
    BY <1>4
  <2> QED
    BY <2>1, <2>2, <2>3
<1>6. Q \in Nat /\ Len(q) <= p /\ Run(q, Q)
  BY <1>1, <1>2
<1>7. t \in 0 .. Len(q)
  BY <1>2, <1>3
<1>8. Portion(h, c.bank) = SubSeq(q, 1, here)
  BY <1>1, SideFields DEF Portion
<1>9. ASSUME NEW b \in NextFree(c)
      PROVE  Portion(h, b) = IF there # 0 THEN SubSeq(q, here + 1, t) ELSE <<>>
  <2>1. b # c.bank /\ b \in Banks
    BY <1>1, NextIsFree
  <2>2. WrittenTo(c, n)[b] = there
    BY <1>1, <1>2, <2>1, Writes
  <2> QED
    BY <2>1, <2>2 DEF Portion
<1> HIDE DEF c, n, here, there, t, x, p2, q2, q, p, Q
<1>10. Run(rest, Q + t) /\ rest \in Seq(Nat) /\ Len(rest) = Len(q) - t
  BY <1>1, <1>6, <1>7, RunCut, CaptureGives
<1>11. Numbered(p, x) \in Seq(Nat) /\ Len(Numbered(p, x)) = x /\ Run(Numbered(p, x), p)
  BY <1>1, <1>5, NumberedRuns
<1>12. (Q + t) + Len(rest) = p /\ Q + t \in Nat
  <2>1. Q = p - Len(q)
    BY DEF Q
  <2> HIDE DEF rest
  <2> QED
    BY <1>1, <1>2, <1>6, <1>7, <1>10, <2>1
<1>13. /\ Len(q2) = Len(rest) + x /\ Run(q2, Q + t)
  <2> HIDE DEF rest
  <2> DEFINE y == Numbered(p, x)
             a == Q + t
  <2>1. y \in Seq(Nat) /\ Len(y) = x /\ a \in Nat /\ Run(rest, a) /\ Run(y, a + Len(rest))
        /\ q2 = rest \o y
    BY <1>5, <1>10, <1>11, <1>12
  <2> HIDE DEF y, a
  <2>2. Len(rest \o y) = Len(rest) + Len(y) /\ Run(rest \o y, a)
    BY <1>10, <2>1, RunPut
  <2>3. Len(q2) = Len(rest) + x /\ Run(q2, a)
    BY <2>1, <2>2
  <2> QED
    BY <2>3 DEF a
<1>14. p2 - Len(q2) = Q + t /\ Len(q2) <= p2 /\ p2 \in Nat /\ p2 >= p
  <2> DEFINE l == Len(rest)
             l2 == Len(q2)
  <2>1. /\ l \in Nat /\ l2 = l + x /\ p2 = p + x /\ (Q + t) + l = p /\ Q + t \in Nat
        /\ x \in Nat /\ p \in Nat /\ Q \in Nat /\ t \in Nat
    <3>1. l \in Nat
      BY <1>10
    <3>2. t \in Nat
      BY <1>2, <1>7
    <3>3. l2 = l + x
      BY <1>13
    <3>4. (Q + t) + l = p /\ Q + t \in Nat
      BY <1>12
    <3>5. p2 = p + x /\ x \in Nat /\ p \in Nat /\ Q \in Nat
      BY <1>1, <1>5, <1>6
    <3> QED
      BY <3>1, <3>2, <3>3, <3>4, <3>5
  <2> HIDE DEF l, l2
  <2>2. p2 - l2 = Q + t /\ l2 <= p2 /\ p2 \in Nat /\ p2 >= p
    BY ONLY <2>1
  <2> QED
    BY <2>2 DEF l2
<1>15. /\ Portion(h, c.bank) \in Seq(Nat) /\ Run(Portion(h, c.bank), Q)
       /\ Len(Portion(h, c.bank)) = here
  <2>1. here \in 0 .. Len(q) /\ 0 \in 0 .. Len(q) /\ 1 \in 1 .. Len(q) + 1 /\ here \in Nat
    BY <1>2, <1>3
  <2>2. Run(SubSeq(q, 0 + 1, here), Q + 0)
    BY <1>1, <1>6, <2>1, RunCut
  <2>3. SubSeq(q, 1, here) \in Seq(Nat)
        /\ Len(SubSeq(q, 1, here)) = IF 1 <= here THEN here - 1 + 1 ELSE 0
    BY <1>1, <2>1, PartOf
  <2>4. Q + 0 = Q /\ 0 + 1 = 1 /\ (IF 1 <= here THEN here - 1 + 1 ELSE 0) = here
    BY <1>6, <2>1
  <2> QED
    BY <1>8, <2>2, <2>3, <2>4
<1>16. ASSUME NEW b \in NextFree(c)
       PROVE  /\ Portion(h, b) \in Seq(Nat) /\ Run(Portion(h, b), Q + here)
              /\ Len(Portion(h, b)) = there
  <2>1. CASE there = 0
    <3>1. Portion(h, b) = <<>> /\ Len(<<>>) = 0 /\ <<>> \in Seq(Nat)
      BY <1>9, <2>1
    <3> QED
      BY <2>1, <3>1, NoBeats
  <2>2. CASE there # 0
    <3>1. here \in 0 .. Len(q) /\ t \in here .. Len(q) /\ here + 1 \in 1 .. Len(q) + 1
          /\ t \in 0 .. Len(q)
          /\ (IF here + 1 <= t THEN t - (here + 1) + 1 ELSE 0) = there
      BY <1>2, <1>3, <2>2
    <3>2. Run(SubSeq(q, here + 1, t), Q + here)
      BY <1>1, <1>6, <3>1, RunCut
    <3>3. SubSeq(q, here + 1, t) \in Seq(Nat)
          /\ Len(SubSeq(q, here + 1, t)) = IF here + 1 <= t THEN t - (here + 1) + 1 ELSE 0
      <4> DEFINE s == here + 1
      <4>1. s \in 1 .. Len(q) + 1 /\ t \in 0 .. Len(q)
        BY <3>1
      <4> HIDE DEF s
      <4>2. SubSeq(q, s, t) \in Seq(Nat) /\ Len(SubSeq(q, s, t)) = IF s <= t THEN t - s + 1 ELSE 0
        BY <1>1, <4>1, PartOf
      <4> QED
        BY <4>2 DEF s
    <3> QED
      BY <1>9, <2>2, <3>1, <3>2, <3>3
  <2> QED
    BY <2>1, <2>2
<1>17. captureDone => p2 = p
  BY <1>1, <1>5
<1>18. here \in Nat /\ there \in Nat
  BY <1>2, <1>3
<1> QED
  BY <1>1, <1>3, <1>6, <1>13, <1>14, <1>15, <1>16, <1>17, <1>18 DEF c, n, here, there, t, p2, q2, q, p, Q

(* A bank that fills up holds as many records as it can.                     *)
LEMMA FillsUp ==
    ASSUME NEW c \in CoreSide, NEW n \in 0 .. WritePorts, Fills(c, n)
    PROVE  c.count[c.bank] + Here(c, n) = BankRecords
<1>1. c.count[c.bank] \in 0 .. BankRecords /\ BankRecords \in Nat /\ WritePorts \in Nat
  BY SideFields, Sizes
<1>2. Room(c) # 0 /\ n >= Room(c) /\ Room(c) \in Nat
  BY <1>1 DEF Fills, Room
<1>3. Room(c) = BankRecords - c.count[c.bank]
  BY <1>2 DEF Room
<1>4. Here(c, n) = Room(c)
  BY <1>2 DEF Here
<1> QED
  BY <1>1, <1>3, <1>4

(* A bank the writer may fill holds what it counts.                          *)
LEMMA OwnCount ==
    ASSUME HandInv, NEW h \in Harts, NEW b \in Banks, b \notin side[h].owned
    PROVE  /\ Len(lanes[h][b]) = side[h].count[b] /\ lanes[h][b] \in Seq(Nat)
           /\ side[h].count[b] = 0 => lanes[h][b] = <<>>
<1>1. LogTypes /\ Frozen(h) /\ ReadyChain(h, b) /\ Contents(h, b)
  BY DEF HandInv, BankInv
<1>2. ~Picked(h, b) /\ ~OnItsWay(h, b)
  BY <1>1 DEF ReadyChain, Frozen
<1>3. Len(lanes[h][b]) = side[h].count[b]
  BY <1>1, <1>2 DEF Contents
<1>4. lanes[h][b] \in Seq(Nat)
  BY <1>1, BankTypes
<1>5. Len(lanes[h][b]) = 0 => lanes[h][b] = <<>>
  BY <1>4
<1> QED
  BY <1>3, <1>4, <1>5

(* The bank being drained is one of those to be read.                        *)
LEMMA FromFirst ==
    ASSUME HandInv, NEW h \in Harts, NEW k, NEW m, Ring(h, k, m)
    PROVE  /\ First(h) \in {0, 1} /\ k \in Nat /\ First(h) <= k
           /\ k # First(h) => k >= 1 /\ k - 1 >= First(h)
<1>1. k \in Nat
  BY DEF Ring, Arc
<1>2. First(h) \in {0, 1}
  BY DEF First
<1>3. First(h) = 1 => k >= 1
  BY ReadsFirst DEF First, Held
<1> QED
  BY <1>1, <1>2, <1>3

(* What a core edge does to the banks to be read and to the next one.        *)
LEMMA CoreFills ==
    ASSUME HandInv, Closing, CoreEdge, NEW h \in Harts, NEW k, NEW m, Ring(h, k, m),
           StreamRuns(h), QueueRuns(h, k)
    PROVE  /\ \A i \in 0 .. k - 1 : lanes'[h][At(h, i)] = lanes[h][At(h, i)]
           /\ ~side[h].flushAck /\ side[h].valid =>
                 /\ side[h].bank = At(h, k) /\ k + m < BankCount
                 /\ At(h, k) \in Banks /\ At(h, k) \notin side[h].owned
                 /\ Run(lanes'[h][At(h, k)], Base(h) + Full(k - First(h)))
                 /\ Len(lanes'[h][At(h, k)]) =
                       side[h].count[At(h, k)] + Here(side[h], Offered(h))
                 /\ side[h].count[At(h, k)] = Len(lanes[h][At(h, k)])
                 /\ Fills(side[h], Offered(h)) => Len(lanes'[h][At(h, k)]) = BankRecords
<1>1. LogTypes /\ Frozen(h) /\ side[h] \in CoreSide /\ BankCount \in Nat
  BY StateTypes, Sizes DEF HandInv
<1>2. Arc(h, k, m) /\ Filling(h, k, m) /\ k \in Nat /\ m \in 0 .. 2 /\ k + m <= BankCount
  BY DEF Ring, Arc
<1>3. ASSUME NEW i \in 0 .. k - 1
      PROVE  lanes'[h][At(h, i)] = lanes[h][At(h, i)]
  <2>1. i \in 0 .. BankCount - 1 /\ i \in 0 .. BankCount /\ i < k
    BY <1>1, <1>2
  <2>2. At(h, i) \in Banks /\ At(h, i) \in side[h].owned
    BY <1>1, <1>2, <2>1, Places DEF Arc
  <2>3. lanes'[h][At(h, i)] = lanes[h][At(h, i)] \o <<>>
    BY <2>2, CoreEdgeOnBank
  <2>4. lanes[h][At(h, i)] \in Seq(Nat)
    BY <1>1, <2>2, BankTypes
  <2> QED
    BY <2>3, <2>4
<1>4. ASSUME ~side[h].flushAck, side[h].valid
      PROVE  /\ side[h].bank = At(h, k) /\ k + m < BankCount
             /\ At(h, k) \in Banks /\ At(h, k) \notin side[h].owned
             /\ Run(lanes'[h][At(h, k)], Base(h) + Full(k - First(h)))
             /\ Len(lanes'[h][At(h, k)]) =
                   side[h].count[At(h, k)] + Here(side[h], Offered(h))
             /\ side[h].count[At(h, k)] = Len(lanes[h][At(h, k)])
             /\ Fills(side[h], Offered(h)) => Len(lanes'[h][At(h, k)]) = BankRecords
  <2> DEFINE b == At(h, k)
             a == Base(h) + Full(k - First(h))
             s == lanes[h][b]
             t == Portion(h, b)
  <2>1. side[h].bank = b /\ k + m < BankCount
    BY <1>2, <1>4 DEF Filling
  <2>2. b \in Banks /\ b \notin side[h].owned
    BY <1>1, <1>4, <2>1, SideFields DEF Frozen
  <2>3. Len(s) = side[h].count[b] /\ s \in Seq(Nat)
    BY <2>2, OwnCount
  <2>4. Run(s, a) /\ produced[h] - Len(queue[h]) = a + Len(s)
    BY <1>4 DEF QueueRuns
  <2>5. t \in Seq(Nat) /\ Run(t, produced[h] - Len(queue[h]))
        /\ Len(t) = Here(side[h], Offered(h))
    <3>1. Len(queue[h]) <= produced[h] /\ Run(queue[h], produced[h] - Len(queue[h]))
      BY DEF QueueRuns
    <3> QED
      BY <2>1, <3>1, Fed
  <2>6. a \in Nat
    <3>1. Base(h) \in Nat
      BY CoreKeepsStream
    <3>2. k - First(h) \in Nat
      BY FromFirst
    <3>3. Full(k - First(h)) \in Nat
      BY <3>2, FullSteps
    <3> QED
      BY <3>1, <3>3
  <2>7. lanes'[h][b] = s \o t
    BY <2>2, CoreEdgeOnBank
  <2> HIDE DEF a, s, t
  <2>8. Run(t, a + Len(s))
    BY <2>4, <2>5
  <2>9. Run(s \o t, a) /\ Len(s \o t) = Len(s) + Len(t)
    BY <2>3, <2>4, <2>5, <2>6, <2>8, RunPut
  <2>10. Run(lanes'[h][b], a) /\ Len(lanes'[h][b]) = side[h].count[b] + Here(side[h], Offered(h))
    BY <2>3, <2>5, <2>7, <2>9
  <2>11. Fills(side[h], Offered(h)) => Len(lanes'[h][b]) = BankRecords
    <3>1. Offered(h) \in 0 .. WritePorts
      BY <1>1, OfferedFits
    <3>2. Fills(side[h], Offered(h)) =>
             side[h].count[side[h].bank] + Here(side[h], Offered(h)) = BankRecords
      BY <1>1, <3>1, FillsUp
    <3> QED
      BY <2>1, <2>10, <3>2
  <2> QED
    BY <2>1, <2>2, <2>3, <2>10, <2>11 DEF a, s
<1> QED
  BY <1>3, <1>4

(* A bank that freezes goes on where the one before it ends.                 *)
LEMMA CoreKeepsBanks ==
    ASSUME HandInv, Closing, CoreEdge, NEW h \in Harts, NEW k, NEW m, Ring(h, k, m),
           NEW kk, NEW mm, CoreTurn(h, k, m, kk, mm),
           StreamRuns(h), BanksRun(h, k), QueueRuns(h, k)
    PROVE  BanksRun(h, kk)'
<1>1. /\ BankCount \in Nat /\ k \in Nat /\ kk \in Nat /\ kk <= BankCount
      /\ kk = (IF Freezes(h) THEN k + 1 ELSE k)
      /\ \A i \in 0 .. BankCount : At(h, i)' = At(h, i)
  <2>1. /\ BankCount \in Nat /\ k \in Nat /\ kk \in Nat /\ mm \in 0 .. 1 /\ kk + mm <= BankCount
        /\ \A i \in 0 .. BankCount : At(h, i)' = At(h, i)
    BY CoreTurns
  <2> QED
    BY <2>1 DEF CoreTurn
<1>2. Base(h)' = Base(h) /\ First(h)' = First(h)
  BY CoreKeepsStream
<1>3. First(h) \in {0, 1} /\ First(h) <= k
  BY FromFirst
<1>4. /\ \A i \in 0 .. k - 1 : lanes'[h][At(h, i)] = lanes[h][At(h, i)]
      /\ Freezes(h) => /\ ~side[h].flushAck
                       /\ Run(lanes'[h][At(h, k)], Base(h) + Full(k - First(h)))
                       /\ Fills(side[h], Offered(h)) => Len(lanes'[h][At(h, k)]) = BankRecords
      /\ side'[h].flushAck <=> side[h].flushAck \/ pipelineDone
      /\ Freezes(h) /\ ~pipelineDone => Fills(side[h], Offered(h))
  <2>1. Freezes(h) => ~side[h].flushAck /\ side[h].valid
    BY FreezesNext
  <2>2. \A i \in 0 .. k - 1 : lanes'[h][At(h, i)] = lanes[h][At(h, i)]
    BY CoreFills
  <2>3. ~side[h].flushAck /\ side[h].valid =>
           /\ Run(lanes'[h][At(h, k)], Base(h) + Full(k - First(h)))
           /\ Fills(side[h], Offered(h)) => Len(lanes'[h][At(h, k)]) = BankRecords
    BY CoreFills
  <2>4. side'[h].flushAck <=> side[h].flushAck \/ pipelineDone
    BY WriterGoesOn
  <2>5. Freezes(h) /\ ~pipelineDone => Fills(side[h], Offered(h))
    BY DEF Freezes, FreezesTail
  <2> QED
    BY <2>1, <2>2, <2>3, <2>4, <2>5
<1>5. ASSUME NEW i \in First(h) .. kk - 1
      PROVE  /\ Run(lanes'[h][At(h, i)], Base(h) + Full(i - First(h)))
             /\ i < kk - 1 \/ ~side'[h].flushAck => Len(lanes'[h][At(h, i)]) = BankRecords
             /\ i \in 0 .. BankCount
  <2>1. i \in 0 .. BankCount /\ i \in 0 .. kk - 1
    BY <1>1, <1>3
  <2>2. CASE i < k
    <3>1. i \in First(h) .. k - 1 /\ i \in 0 .. k - 1
      BY <1>1, <1>3, <2>1, <2>2
    <3>2. /\ Run(lanes[h][At(h, i)], Base(h) + Full(i - First(h)))
          /\ i < k - 1 \/ ~side[h].flushAck => Len(lanes[h][At(h, i)]) = BankRecords
      BY <3>1 DEF BanksRun
    <3>3. i < kk - 1 \/ ~side'[h].flushAck => i < k - 1 \/ ~side[h].flushAck
      <4>1. i < kk - 1 => i < k - 1 \/ Freezes(h)
        BY <1>1, <2>1, <2>2
      <4> QED
        BY <1>4, <4>1
    <3> QED
      BY <1>4, <2>1, <3>1, <3>2, <3>3
  <2>3. CASE ~(i < k)
    <3>1. i = k /\ Freezes(h) /\ ~(i < kk - 1)
      BY <1>1, <2>1, <2>3
    <3>2. ~side'[h].flushAck => Len(lanes'[h][At(h, k)]) = BankRecords
      BY <1>4, <3>1
    <3>3. Run(lanes'[h][At(h, k)], Base(h) + Full(k - First(h)))
      BY <1>4, <3>1
    <3> QED
      BY <2>1, <3>1, <3>2, <3>3
  <2> QED
    BY <2>2, <2>3
<1>6. \A i \in First(h) .. kk - 1 :
         /\ Run(lanes'[h][At(h, i)'], Base(h)' + Full(i - First(h)'))
         /\ i < kk - 1 \/ ~side'[h].flushAck => Len(lanes'[h][At(h, i)']) = BankRecords
  BY <1>1, <1>2, <1>5
<1> QED
  BY <1>2, <1>6 DEF BanksRun, Full

(* The writer goes on: what it has taken ends where the queue begins.        *)
LEMMA CoreQueueOpen ==
    ASSUME HandInv, Closing, CoreEdge, NEW h \in Harts, NEW k, NEW m, Ring(h, k, m),
           NEW kk, NEW mm, CoreTurn(h, k, m, kk, mm),
           StreamRuns(h), QueueRuns(h, k), ~side'[h].flushAck
    PROVE  LET X == Base(h) + Full(kk - First(h))
               Q == produced'[h] - Len(queue'[h])
           IN  /\ side'[h].valid => /\ Run(lanes'[h][At(h, kk)], X)
                                    /\ Q = X + Len(lanes'[h][At(h, kk)])
               /\ ~side'[h].valid => Q = X
<1> DEFINE c == side[h]
           n == Offered(h)
           B == Base(h)
           F == First(h)
           Q == produced[h] - Len(queue[h])
           Q2 == produced'[h] - Len(queue'[h])
<1>1. /\ BankCount \in Nat /\ k \in Nat /\ kk \in Nat /\ kk <= BankCount
      /\ kk = (IF Freezes(h) THEN k + 1 ELSE k)
      /\ \A i \in 0 .. BankCount : At(h, i)' = At(h, i)
  <2>1. /\ BankCount \in Nat /\ k \in Nat /\ kk \in Nat /\ mm \in 0 .. 1 /\ kk + mm <= BankCount
        /\ \A i \in 0 .. BankCount : At(h, i)' = At(h, i)
    BY CoreTurns
  <2> QED
    BY <2>1 DEF CoreTurn
<1>2. LogTypes /\ c \in CoreSide /\ n \in 0 .. WritePorts
  BY StateTypes, OfferedFits DEF HandInv
<1>3. ~c.flushAck /\ ~pipelineDone /\ ~FreezesTail(c, n, pipelineDone)
      /\ (Freezes(h) <=> Fills(c, n))
  <2>1. ~c.flushAck /\ ~pipelineDone
    BY WriterGoesOn
  <2> QED
    BY <2>1 DEF Freezes, FreezesTail
<1>4. /\ Q \in Nat /\ Here(c, n) \in Nat /\ There(c, n) \in Nat
      /\ Q2 = Q + Taken(h) /\ Taken(h) = Here(c, n) + There(c, n)
      /\ \A b \in NextFree(c) : /\ Portion(h, b) \in Seq(Nat)
                                /\ Run(Portion(h, b), Q + Here(c, n))
                                /\ Len(Portion(h, b)) = There(c, n)
  <2>1. Len(queue[h]) <= produced[h] /\ Run(queue[h], produced[h] - Len(queue[h]))
    BY DEF QueueRuns
  <2> QED
    BY <2>1, Fed
<1>5. B \in Nat /\ F \in {0, 1} /\ F <= k /\ Full(k - F) \in Nat
      /\ Full((k + 1) - F) = Full(k - F) + BankRecords /\ BankRecords \in Nat
  <2>1. B \in Nat
    BY CoreKeepsStream
  <2>2. F \in {0, 1} /\ F <= k /\ k - F \in Nat /\ (k + 1) - F = (k - F) + 1
    BY <1>1, FromFirst
  <2>3. Full(k - F) \in Nat /\ Full((k - F) + 1) = Full(k - F) + BankRecords
    BY <2>2, FullSteps
  <2> QED
    BY <2>1, <2>2, <2>3, Sizes
<1>6. c.valid => Q = B + Full(k - F) + Len(lanes[h][At(h, k)])
  BY <1>3 DEF QueueRuns
<1>7. ~c.valid => Q = B + Full(k - F)
  BY <1>3 DEF QueueRuns
<1>8. CASE c.valid /\ Fills(c, n)
  <2> DEFINE X == B + Full(k - F)
             l == Len(lanes[h][At(h, k)])
  <2>1. kk = k + 1 /\ (side'[h].valid <=> NextFree(c) # {})
    BY <1>1, <1>3, <1>8, WriterGoesOn
  <2>2. /\ c.bank = At(h, k) /\ k + m < BankCount
        /\ c.count[At(h, k)] + Here(c, n) = BankRecords
        /\ c.count[At(h, k)] = l
    <3>1. c.count[c.bank] + Here(c, n) = BankRecords
      BY <1>2, <1>8, FillsUp
    <3>2. c.bank = At(h, k) /\ k + m < BankCount /\ c.count[At(h, k)] = Len(lanes[h][At(h, k)])
      BY <1>3, <1>8, CoreFills
    <3> QED
      BY <3>1, <3>2
  <2>3. Q + Here(c, n) = X + BankRecords
    <3>1. Q = X + l /\ l + Here(c, n) = BankRecords
      BY <1>6, <1>8, <2>2
    <3>2. X \in Nat /\ l \in Nat /\ Here(c, n) \in Nat /\ Q \in Nat /\ BankRecords \in Nat
      <4>1. l \in Nat
        BY <1>2, <2>2, SideFields
      <4> QED
        BY <1>4, <1>5, <4>1
    <3> HIDE DEF X, l, Q
    <3> QED
      BY <3>1, <3>2
  <2>4. CASE NextFree(c) = {}
    <3>1. ~side'[h].valid /\ There(c, n) = 0
      BY <1>2, <2>1, <2>4, Shares
    <3>2. Q2 = Q + Here(c, n)
      BY <1>4, <3>1
    <3>3. Q2 = B + Full(kk - F)
      <4>1. Full(kk - F) = Full(k - F) + BankRecords
        <5>1. Full((k + 1) - F) = Full(k - F) + BankRecords
          BY <1>5
        <5>2. kk = k + 1
          BY <2>1
        <5> HIDE DEF F
        <5> QED
          BY <5>1, <5>2
      <4> QED
        BY <1>5, <2>3, <3>2, <4>1
    <3> QED
      BY <3>1, <3>3
  <2>5. CASE NextFree(c) # {}
    <3>1. side'[h].valid
      BY <2>1, <2>5
    <3>2. m \in 0 .. 2 /\ k + 1 + m <= BankCount
      <4>1. m \in 0 .. 2
        BY DEF Ring, Arc
      <4> QED
        BY <1>1, <2>2, <4>1
    <3>3. NextFree(c) = {At(h, k + 1)}
      <4>1. /\ k + 1 + m < BankCount => NextFree(c) = {At(h, k + 1)}
            /\ k + 1 + m = BankCount => NextFree(c) = {}
        BY <1>3, <1>8, FreeAhead
      <4> QED
        BY <1>1, <2>5, <3>2, <4>1
    <3> DEFINE b == At(h, kk)
    <3>4. b \in NextFree(c) /\ b \in Banks /\ b \notin c.owned /\ c.count[b] = 0
      <4>1. b \in NextFree(c)
        BY <2>1, <3>3
      <4>2. NextFree(c) \subseteq Free(c)
        BY <1>2, NextIsFree
      <4> QED
        BY <4>1, <4>2 DEF Free
    <3>5. lanes[h][b] = <<>>
      BY <3>4, OwnCount
    <3>6. lanes'[h][b] = Portion(h, b)
      <4>1. lanes'[h][b] = <<>> \o Portion(h, b)
        BY ZenonT(60), <3>4, <3>5, CoreEdgeOnBank
      <4>2. Portion(h, b) \in Seq(Nat)
        BY <1>4, <3>4
      <4> QED
        BY <4>1, <4>2
    <3>7. Run(lanes'[h][b], Q + Here(c, n)) /\ Len(lanes'[h][b]) = There(c, n)
      BY <1>4, <3>4, <3>6
    <3>8. B + Full(kk - F) = Q + Here(c, n)
      <4>1. Full(kk - F) = Full(k - F) + BankRecords
        <5>1. Full((k + 1) - F) = Full(k - F) + BankRecords
          BY <1>5
        <5>2. kk = k + 1
          BY <2>1
        <5> HIDE DEF F
        <5> QED
          BY <5>1, <5>2
      <4> QED
        BY <1>5, <2>3, <4>1
    <3>9. Q2 = (Q + Here(c, n)) + There(c, n)
      BY <1>4
    <3> HIDE DEF Q, Q2, B, F, b, c, n
    <3>10. Run(lanes'[h][b], B + Full(kk - F)) /\ Q2 = B + Full(kk - F) + Len(lanes'[h][b])
      BY <3>7, <3>8, <3>9
    <3> QED
      BY <3>1, <3>10 DEF Q, Q2, B, F, b, c, n
  <2> QED
    BY <2>4, <2>5
<1>9. CASE c.valid /\ ~Fills(c, n)
  <2>1. kk = k /\ side'[h].valid /\ There(c, n) = 0
    BY <1>1, <1>2, <1>3, <1>9, WriterGoesOn, Shares
  <2>2. /\ Run(lanes'[h][At(h, k)], B + Full(k - F))
        /\ Len(lanes'[h][At(h, k)]) = Len(lanes[h][At(h, k)]) + Here(c, n)
        /\ Len(lanes[h][At(h, k)]) \in Nat
    <3>1. /\ Run(lanes'[h][At(h, k)], B + Full(k - F))
          /\ Len(lanes'[h][At(h, k)]) = c.count[At(h, k)] + Here(c, n)
          /\ c.count[At(h, k)] = Len(lanes[h][At(h, k)]) /\ At(h, k) \in Banks
      BY <1>3, <1>9, CoreFills
    <3> QED
      BY <1>2, <3>1, SideFields
  <2> DEFINE X == B + Full(k - F)
             l == Len(lanes[h][At(h, k)])
             l2 == Len(lanes'[h][At(h, k)])
  <2>3. Q = X + l /\ l2 = l + Here(c, n) /\ Q2 = Q + (Here(c, n) + 0)
    BY <1>4, <1>6, <1>9, <2>1, <2>2
  <2>4. X \in Nat /\ l \in Nat /\ Here(c, n) \in Nat
    BY <1>4, <1>5, <2>2
  <2> HIDE DEF Q, Q2, X, l, l2
  <2>5. Q2 = X + l2
    BY <2>3, <2>4
  <2>6. Run(lanes'[h][At(h, kk)], B + Full(kk - F)) /\ Q2 = B + Full(kk - F) + Len(lanes'[h][At(h, kk)])
    BY <2>1, <2>2, <2>5 DEF X, l2
  <2> QED
    BY <2>1, <2>6 DEF Q2
<1>10. CASE ~c.valid
  <2>1. kk = k /\ Accepted(c, n) = 0
    BY <1>1, <1>10, WriterGoesOn
  <2>2. Here(c, n) = 0 /\ There(c, n) = 0
    BY <1>4, <2>1 DEF Accepted
  <2>3. Q2 = B + Full(kk - F)
    <3>1. Q2 = Q + (0 + 0)
      BY <1>4, <2>2
    <3> QED
      BY <1>4, <1>7, <1>10, <2>1, <3>1
  <2>4. ASSUME side'[h].valid
        PROVE  Len(lanes'[h][At(h, kk)]) = 0
    <3> DEFINE b == At(h, kk)
    <3>1. side'[h].bank = b /\ b \in Banks
      <4>1. Filling(h, kk, mm)'
        BY CoreKeepsFilling
      <4>2. side'[h].bank = At(h, kk)'
        BY <2>4, <4>1 DEF Filling
      <4>3. At(h, kk)' = At(h, kk) /\ At(h, kk) \in Banks
        BY <1>1, <1>2, Places
      <4> QED
        BY <4>2, <4>3
    <3>2. b \in Released(h) \/ b \in Free(c)
      BY <1>10, <2>4, <3>1, WriterGoesOn
    <3>3. Len(lanes[h][b]) = 0
      <4>1. CASE b \in Released(h)
        <5>1. OnItsWay(h, b) /\ Contents(h, b)
          BY <3>1, <4>1, ReleasedReturns DEF HandInv, BankInv
        <5> QED
          BY <5>1 DEF Contents
      <4>2. CASE b \in Free(c)
        <5>1. b \notin c.owned /\ c.count[b] = 0
          BY <4>2 DEF Free
        <5> QED
          BY <3>1, <5>1, OwnCount
      <4> QED
        BY <3>2, <4>1, <4>2
    <3>4. Len(Portion(h, b)) = 0
      <4>1. Len(Portion(h, b)) = WrittenTo(c, n)[b]
        BY <1>2, <3>1, PortionGives
      <4>2. WrittenTo(c, n)[b] = IF b = c.bank THEN Here(c, n)
                                 ELSE IF b \in NextFree(c) THEN There(c, n) ELSE 0
        BY <1>2, <3>1, Writes
      <4> QED
        BY <2>2, <4>1, <4>2
    <3>5. Len(lanes'[h][b]) = Len(lanes[h][b]) + Len(Portion(h, b))
      BY <3>1, CoreEdgeOnBank
    <3> QED
      BY <3>3, <3>4, <3>5
  <2>5. side'[h].valid => /\ Run(lanes'[h][At(h, kk)], B + Full(kk - F))
                          /\ Q2 = B + Full(kk - F) + Len(lanes'[h][At(h, kk)])
    <3>1. B + Full(kk - F) \in Nat
      BY <1>5, <2>1
    <3> HIDE DEF Q2, B, F
    <3>2. side'[h].valid => Run(lanes'[h][At(h, kk)], B + Full(kk - F))
      BY <2>4 DEF Run
    <3> QED
      BY <2>3, <2>4, <3>1, <3>2
  <2> QED
    BY <2>3, <2>5
<1> QED
  BY <1>8, <1>9, <1>10

(* At the end of capture the last bank ends where the records do.            *)
LEMMA CoreQueueClosed ==
    ASSUME HandInv, Closing, CoreEdge, NEW h \in Harts, NEW k, NEW m, Ring(h, k, m),
           NEW kk, NEW mm, CoreTurn(h, k, m, kk, mm),
           StreamRuns(h), BanksRun(h, k), QueueRuns(h, k), side'[h].flushAck
    PROVE  /\ produced'[h] = IF kk = First(h) THEN Base(h)
                             ELSE Base(h) + Full(kk - 1 - First(h)) + Len(lanes'[h][At(h, kk - 1)])
           /\ kk # First(h) => kk - 1 \in 0 .. BankCount
<1> DEFINE c == side[h]
           B == Base(h)
           F == First(h)
           p == produced[h]
<1>1. /\ BankCount \in Nat /\ k \in Nat /\ kk \in Nat /\ kk <= BankCount
      /\ kk = (IF Freezes(h) THEN k + 1 ELSE k)
  <2>1. BankCount \in Nat /\ k \in Nat /\ kk \in Nat /\ mm \in 0 .. 1 /\ kk + mm <= BankCount
    BY CoreTurns
  <2> QED
    BY <2>1 DEF CoreTurn
<1>2. pipelineDone
  BY WriterGoesOn DEF Closing
<1>3. queue[h] = <<>> /\ Offered(h) = 0 /\ captureDone /\ ~Fills(c, 0) /\ Here(c, 0) = 0
  BY <1>2, NothingOffered
<1>4. produced'[h] = p /\ p \in Nat
  <2>1. Len(queue[h]) <= produced[h] /\ Run(queue[h], produced[h] - Len(queue[h]))
    BY DEF QueueRuns
  <2> QED
    BY <1>3, <2>1, Fed
<1>5. F \in {0, 1} /\ F <= k /\ (k # F => k >= 1 /\ k - 1 >= F)
  BY FromFirst
<1>6. k # F => lanes'[h][At(h, k - 1)] = lanes[h][At(h, k - 1)]
  <2>1. k # F => k - 1 \in 0 .. k - 1
    BY <1>1, <1>5
  <2> QED
    BY <2>1, CoreFills
<1>7. B \in Nat
  BY CoreKeepsStream
<1>8. CASE c.flushAck
  <2>1. kk = k
    BY <1>1, <1>8, FreezesNext
  <2>2. p = IF k = F THEN B ELSE B + Full(k - 1 - F) + Len(lanes[h][At(h, k - 1)])
    BY <1>8 DEF QueueRuns
  <2> QED
    BY <1>1, <1>4, <1>5, <1>6, <2>1, <2>2
<1>9. CASE ~c.flushAck /\ Freezes(h)
  <2>1. kk = k + 1 /\ kk # F /\ kk - 1 = k /\ k \in 0 .. BankCount /\ kk - 1 - F = k - F
    BY <1>1, <1>5, <1>9
  <2>2. c.valid
    BY <1>9, FreezesNext
  <2>3. p - Len(queue[h]) = B + Full(k - F) + Len(lanes[h][At(h, k)])
    BY <1>9, <2>2 DEF QueueRuns
  <2>4. Len(lanes'[h][At(h, k)]) = Len(lanes[h][At(h, k)])
    <3>1. /\ Len(lanes'[h][At(h, k)]) = c.count[At(h, k)] + Here(c, Offered(h))
          /\ c.count[At(h, k)] = Len(lanes[h][At(h, k)]) /\ At(h, k) \in Banks
      BY <1>9, <2>2, CoreFills
    <3>2. c.count[At(h, k)] \in Nat
      <4>1. c \in CoreSide /\ BankRecords \in Nat
        BY StateTypes, Sizes DEF HandInv
      <4> QED
        BY <3>1, <4>1, SideFields
    <3> QED
      BY <1>3, <3>1, <3>2
  <2>5. p - Len(queue[h]) = p
    BY <1>3, <1>4
  <2> QED
    BY <1>4, <2>1, <2>3, <2>4, <2>5
<1>10. CASE ~c.flushAck /\ ~Freezes(h)
  <2>1. kk = k
    BY <1>1, <1>10
  <2>2. p = B + Full(k - F)
    <3>1. p - Len(queue[h]) = p
      BY <1>3, <1>4
    <3>2. CASE ~c.valid
      BY <1>10, <3>1, <3>2 DEF QueueRuns
    <3>3. CASE c.valid
      <4>1. /\ c.bank = At(h, k) /\ At(h, k) \in Banks /\ At(h, k) \notin c.owned
            /\ c.count[At(h, k)] = Len(lanes[h][At(h, k)])
        BY <1>10, <3>3, CoreFills
      <4>2. c.count[At(h, k)] = 0
        <5>1. ~FreezesTail(c, 0, pipelineDone)
          BY <1>3, <1>10 DEF Freezes
        <5>2. c.count[At(h, k)] + 0 = 0
          BY <1>2, <1>3, <3>3, <4>1, <5>1 DEF FreezesTail
        <5>3. c.count[At(h, k)] \in Nat
          <6>1. c \in CoreSide /\ BankRecords \in Nat
            BY StateTypes, Sizes DEF HandInv
          <6> QED
            BY <4>1, <6>1, SideFields
        <5> QED
          BY <5>2, <5>3
      <4>3. p - Len(queue[h]) = B + Full(k - F) + Len(lanes[h][At(h, k)])
        BY <1>10, <3>3 DEF QueueRuns
      <4>4. Full(k - F) \in Nat
        <5>1. k - F \in Nat
          BY <1>1, <1>5
        <5> QED
          BY <5>1, FullSteps
      <4> QED
        BY <1>7, <3>1, <4>1, <4>2, <4>3, <4>4
    <3> QED
      BY <3>2, <3>3
  <2>3. CASE k = F
    <3>1. k - F = 0
      BY <1>1, <2>3
    <3>2. Full(k - F) = 0
      BY <3>1, FullSteps
    <3> QED
      BY <1>4, <1>7, <2>1, <2>2, <2>3, <3>2
  <2>4. CASE k # F
    <3>1. k - 1 \in F .. k - 1 /\ k - 1 - F \in Nat /\ k - F = (k - 1 - F) + 1
          /\ k - 1 \in 0 .. BankCount
      BY <1>1, <1>5, <2>1, <2>4
    <3>2. Len(lanes[h][At(h, k - 1)]) = BankRecords
      BY <1>10, <3>1 DEF BanksRun
    <3>3. Full(k - F) = Full(k - 1 - F) + BankRecords /\ Full(k - 1 - F) \in Nat
      BY <3>1, FullSteps
    <3>4. BankRecords \in Nat
      BY Sizes
    <3>5. p = B + Full(k - 1 - F) + Len(lanes'[h][At(h, k - 1)])
      BY <1>6, <1>7, <2>2, <2>4, <3>2, <3>3, <3>4
    <3> QED
      BY <1>4, <2>1, <2>4, <3>1, <3>5
  <2> QED
    BY <2>3, <2>4
<1> QED
  BY <1>8, <1>9, <1>10

(* The queue goes on where the bank being filled ends.                       *)
LEMMA CoreKeepsQueue ==
    ASSUME HandInv, Closing, CoreEdge, NEW h \in Harts, NEW k, NEW m, Ring(h, k, m),
           NEW kk, NEW mm, CoreTurn(h, k, m, kk, mm),
           StreamRuns(h), BanksRun(h, k), QueueRuns(h, k)
    PROVE  QueueRuns(h, kk)'
<1>1. kk \in 0 .. BankCount /\ \A i \in 0 .. BankCount : At(h, i)' = At(h, i)
  <2>1. /\ BankCount \in Nat /\ kk \in Nat /\ mm \in 0 .. 1 /\ kk + mm <= BankCount
        /\ \A i \in 0 .. BankCount : At(h, i)' = At(h, i)
    BY CoreTurns
  <2> QED
    BY <2>1
<1>2. Base(h)' = Base(h) /\ First(h)' = First(h)
  BY CoreKeepsStream
<1>3. Len(queue'[h]) <= produced'[h] /\ Run(queue'[h], produced'[h] - Len(queue'[h]))
  <2>1. Len(queue[h]) <= produced[h] /\ Run(queue[h], produced[h] - Len(queue[h]))
    BY DEF QueueRuns
  <2> QED
    BY <2>1, Fed
<1>4. ~side'[h].flushAck =>
         /\ side'[h].valid =>
               /\ Run(lanes'[h][At(h, kk)'], Base(h)' + Full(kk - First(h)'))
               /\ produced'[h] - Len(queue'[h]) =
                     Base(h)' + Full(kk - First(h)') + Len(lanes'[h][At(h, kk)'])
         /\ ~side'[h].valid => produced'[h] - Len(queue'[h]) = Base(h)' + Full(kk - First(h)')
  <2>1. ~side'[h].flushAck =>
         /\ side'[h].valid =>
               /\ Run(lanes'[h][At(h, kk)], Base(h) + Full(kk - First(h)))
               /\ produced'[h] - Len(queue'[h]) =
                     Base(h) + Full(kk - First(h)) + Len(lanes'[h][At(h, kk)])
         /\ ~side'[h].valid => produced'[h] - Len(queue'[h]) = Base(h) + Full(kk - First(h))
    BY CoreQueueOpen
  <2> QED
    BY <1>1, <1>2, <2>1
<1>5. side'[h].flushAck =>
         produced'[h] = IF kk = First(h)' THEN Base(h)'
                        ELSE Base(h)' + Full(kk - 1 - First(h)') + Len(lanes'[h][At(h, kk - 1)'])
  <2>1. side'[h].flushAck =>
         /\ produced'[h] = IF kk = First(h) THEN Base(h)
                           ELSE Base(h) + Full(kk - 1 - First(h)) + Len(lanes'[h][At(h, kk - 1)])
         /\ kk # First(h) => kk - 1 \in 0 .. BankCount
    BY CoreQueueClosed
  <2> QED
    BY <1>1, <1>2, <2>1
<1> QED
  BY <1>2, <1>3, <1>4, <1>5 DEF QueueRuns, Full

(* The DMA counts the records it writes, once each.                          *)
LEMMA DmaCounts ==
    ASSUME HandInv, activeHart \in Harts, writtenRecords \in [Harts -> Nat],
           NEW axi, Dma!DmaStep(Offering, [g \in Harts |-> ui[g].sample], axi, elastic),
           NEW h \in Harts, NEW n \in Nat,
           n = writtenRecords[h] + (IF activeHart = h /\ state \in {"W", "B"} THEN sent ELSE 0)
    PROVE  /\ axiError => axiError'
           /\ ~axiError' =>
                 n + Drawn(h, axi) =
                 writtenRecords'[h] + (IF activeHart' = h /\ state' \in {"W", "B"} THEN sent' ELSE 0)
           /\ writtenRecords' \in [Harts -> Nat]
<1> DEFINE w == writtenRecords[h]
           w2 == writtenRecords'[h]
           part == IF activeHart = h /\ state \in {"W", "B"} THEN sent ELSE 0
           part2 == IF activeHart' = h /\ state' \in {"W", "B"} THEN sent' ELSE 0
           d == Drawn(h, axi)
           Goal == /\ axiError => axiError'
                   /\ ~axiError' => n + d = w2 + part2
                   /\ writtenRecords' \in [Harts -> Nat]
<1>1. /\ LogTypes /\ Delivers(h) /\ sent \in Nat /\ total \in Nat /\ w \in Nat
      /\ n = w + part
  BY DEF HandInv, LogTypes
<1>2. state # "W" => d = 0
  BY DEF Drawn, Dma!Takes
<1>3. /\ state = "AW" /\ activeHart = h => sent = 0
      /\ state = "B" /\ activeHart = h => total = sent
  BY <1>1 DEF Delivers
<1>4. SUFFICES Goal
  BY DEF Goal
<1>5. ASSUME writtenRecords' = writtenRecords, axiError' = axiError, d = 0, part2 = part
      PROVE  Goal
  <2>1. w2 = w
    BY <1>5
  <2>2. n + 0 = n
    OBVIOUS
  <2> HIDE DEF w, w2, part, part2, d
  <2>3. n + d = w2 + part2
    BY <1>1, <1>5, <2>1, <2>2
  <2> QED
    BY <1>5, <2>3
<1> HIDE DEF d, w, w2, Goal
<1>6. CASE Dma!DmaIdle(Offering)
  <2>1. /\ writtenRecords' = writtenRecords /\ axiError' = axiError /\ state = "IDLE" /\ state' = "IDLE"
    BY <1>6 DEF Dma!DmaIdle
  <2> QED
    BY <1>2, <1>5, <2>1
<1>7. ASSUME NEW g \in Harts, Dma!DmaClaim(g, Offering, [k \in Harts |-> ui[k].sample][g])
      PROVE  Goal
  <2>1. /\ writtenRecords' = writtenRecords /\ axiError' = axiError /\ state = "IDLE" /\ state' = "PLAN"
    BY <1>7 DEF Dma!DmaClaim, Dma!Selects
  <2> QED
    BY <1>2, <1>5, <2>1
<1>8. CASE Dma!DmaPlan
  <2>1. /\ writtenRecords' = writtenRecords /\ axiError' = axiError
        /\ state \in {"PLAN", "LIMIT"} /\ state' \in {"LIMIT", "CHECK"}
    BY <1>8 DEF Dma!DmaPlan
  <2> QED
    BY <1>2, <1>5, <2>1
<1>9. CASE Dma!DmaCheck
  <2>1. /\ writtenRecords' = writtenRecords /\ axiError' = axiError
        /\ state = "CHECK" /\ state' \in {"IDLE", "AW"}
    BY <1>9 DEF Dma!DmaCheck
  <2> QED
    BY <1>2, <1>5, <2>1
<1>10. CASE Dma!DmaAddress(axi)
  <2>1. /\ writtenRecords' = writtenRecords /\ axiError' = axiError /\ activeHart' = activeHart
        /\ state = "AW" /\ state' \in {"W", "AW"} /\ sent' = sent
    BY <1>10 DEF Dma!DmaAddress
  <2>2. part2 = 0 /\ part = 0
    BY <1>3, <2>1
  <2> QED
    BY <1>2, <1>5, <2>1, <2>2
<1>11. CASE Dma!DmaData(axi, elastic[activeHart])
  <2>1. /\ writtenRecords' = writtenRecords /\ axiError' = axiError /\ activeHart' = activeHart
        /\ sent' = sent + Len(Head(elastic[activeHart]))
        /\ Dma!Takes(axi, elastic[activeHart])
    BY <1>11 DEF Dma!DmaData
  <2>2. state' \in {"W", "B"} /\ state = "W"
    BY <1>11 DEF Dma!DmaData, Dma!Takes
  <2>3. CASE activeHart = h
    <3>1. sent' = sent + d
      BY <2>1, <2>3 DEF d, Drawn
    <3>2. part = sent /\ part2 = sent'
      BY <2>1, <2>2, <2>3
    <3>3. d \in Nat
      <4>1. elastic[h] \in Seq(Beats) /\ Len(elastic[h]) <= 2 /\ elastic[h] # <<>>
        BY <1>1, <2>1, <2>3, StateTypes DEF Dma!Takes
      <4>2. Head(elastic[h]) \in Beats
        BY <4>1, LoadTail DEF Pair
      <4>3. Len(Head(elastic[h])) \in Nat
        BY <4>2, BeatSize
      <4> QED
        BY <4>3 DEF d, Drawn
    <3>4. w2 = w
      BY <2>1 DEF w, w2
    <3> HIDE DEF part, part2
    <3>5. n + d = w2 + part2
      BY <1>1, <3>1, <3>2, <3>3, <3>4
    <3> QED
      BY <2>1, <3>5 DEF Goal
  <2>4. CASE activeHart # h
    <3>1. d = 0 /\ part = 0 /\ part2 = 0
      BY <2>1, <2>4 DEF d, Drawn
    <3> QED
      BY <1>5, <2>1, <3>1
  <2> QED
    BY <2>3, <2>4
<1>12. CASE Dma!DmaWait(axi, elastic[activeHart])
  <2>1. /\ writtenRecords' = writtenRecords /\ axiError' = axiError /\ activeHart' = activeHart
        /\ state' = state /\ sent' = sent
    BY <1>12 DEF Dma!DmaWait
  <2>2. d = 0
    BY <1>12 DEF Dma!DmaWait, Dma!Takes, d, Drawn
  <2> QED
    BY <1>5, <2>1, <2>2
<1>13. CASE Dma!DmaFail(axi)
  <2>1. axiError' = TRUE /\ writtenRecords' = writtenRecords
    BY <1>13 DEF Dma!DmaFail
  <2> QED
    BY <2>1 DEF Goal
<1>14. CASE Dma!DmaBurst(axi)
  <2>1. /\ axiError' = axiError /\ state = "B" /\ state' \in {"IDLE", "PLAN"}
        /\ writtenRecords' = [writtenRecords EXCEPT ![activeHart] = @ + total]
    BY <1>14 DEF Dma!DmaBurst
  <2>2. d = 0 /\ part2 = 0
    BY <1>2, <2>1
  <2>3. writtenRecords' \in [Harts -> Nat]
    BY <1>1, <2>1
  <2>4. w2 = w + part
    <3>1. CASE activeHart = h
      <4>1. w2 = w + total /\ total = sent /\ part = sent
        BY <1>3, <2>1, <3>1 DEF w, w2
      <4> QED
        BY <4>1
    <3>2. CASE activeHart # h
      <4>1. w2 = w /\ part = 0
        BY <2>1, <3>2 DEF w, w2
      <4> QED
        BY <1>1, <4>1
    <3> QED
      BY <3>1, <3>2
  <2> HIDE DEF part, part2
  <2>5. n + d = w2 + part2
    BY <1>1, <2>2, <2>4
  <2> QED
    BY <2>1, <2>3, <2>5 DEF Goal
<1> QED
  BY <1>6, <1>7, <1>8, <1>9, <1>10, <1>11, <1>12, <1>13, <1>14 DEF Dma!DmaStep, Dma!Harts, Harts

(* What goes to DDR1 on an edge of the UI clock is counted.                  *)
LEMMA UiCounts ==
    ASSUME OwnerInv, HandInv, NEW axi, UiEdgeWith(axi), NEW h \in Harts,
           writtenRecords \in [Harts -> Nat], StreamRuns(h), Counted(h)
    PROVE  /\ Counted(h)' /\ writtenRecords' \in [Harts -> Nat]
           /\ Len(memory'[h]) = Len(memory[h]) + Drawn(h, axi)
           /\ \E t \in Seq(Nat) : memory'[h] = memory[h] \o t
<1> DEFINE n == writtenRecords[h]
                   + (IF activeHart = h /\ state \in {"W", "B"} THEN sent ELSE 0)
<1>1. /\ LogTypes /\ Stream(axi) /\ activeHart \in Harts
      /\ Dma!DmaStep(Offering, [g \in Harts |-> ui[g].sample], axi, elastic)
  BY DEF HandInv, UiEdgeWith, OwnerInv
<1>2. /\ Len(memory'[h]) = Len(memory[h]) + Drawn(h, axi)
      /\ \E t \in Seq(Nat) : memory'[h] = memory[h] \o t
  <2>1. PICK w, o, c, l \in Nat : StreamAt(h, ui[h].bank, w, o, c, l)
    BY <1>1, StreamStands
  <2>2. /\ \E t \in Seq(Nat) : memory'[h] = memory[h] \o t
        /\ Len(memory'[h]) = w + Drawn(h, axi)
    <3>1. LogTypes /\ Stream(axi)
      BY <1>1
    <3>2. \E w2 \in Nat : /\ w2 = w + Drawn(h, axi) /\ w2 = Len(memory'[h])
                          /\ \E t \in Seq(Nat) : memory'[h] = memory[h] \o t
      BY ZenonT(60), <2>1, <3>1, StreamMoves
    <3> QED
      BY <3>2
  <2>3. w = Len(memory[h])
    BY <2>1 DEF StreamAt
  <2> QED
    BY <2>2, <2>3
<1>3. n \in Nat
  BY SMTT(30), <1>1 DEF LogTypes
<1>4. /\ axiError => axiError'
      /\ ~axiError' =>
            n + Drawn(h, axi) =
            writtenRecords'[h] + (IF activeHart' = h /\ state' \in {"W", "B"} THEN sent' ELSE 0)
      /\ writtenRecords' \in [Harts -> Nat]
  BY <1>1, <1>3, DmaCounts
<1>5. ~axiError => n = Len(memory[h])
  BY DEF Counted
<1>6. Counted(h)'
  <2> HIDE DEF n
  <2>1. ~axiError' =>
            writtenRecords'[h] + (IF activeHart' = h /\ state' \in {"W", "B"} THEN sent' ELSE 0)
              = Len(memory'[h])
    BY <1>2, <1>4, <1>5
  <2> QED
    BY <2>1 DEF Counted
<1> QED
  BY <1>2, <1>4, <1>6

(* There are no records at the start.                                        *)
LEMMA LogInit == Init => LogInv
<1> SUFFICES ASSUME Init PROVE LogInv
  OBVIOUS
<1>1. Closing /\ \A h \in Harts : Ring(h, 0, 0)
  <2>1. ASSUME NEW h \in Harts PROVE Ring(h, 0, 0)
    BY RingStarts
  <2> QED
    BY <2>1, RingInit DEF RingInv
<1>2. writtenRecords \in [Harts -> Nat] /\ memory \in [Harts -> Seq(Nat)]
  BY DEF Init, Dma!DmaInit, Dma!Harts, Harts
<1>3. ASSUME NEW h \in Harts
      PROVE  /\ memory[h] = <<>> /\ elastic[h] = <<>> /\ output[h] = <<>> /\ child[h] = <<>>
             /\ ~Held(h) /\ queue[h] = <<>> /\ produced[h] = 0
             /\ ~side[h].flushAck /\ side[h].valid /\ lanes[h][At(h, 0)] = <<>>
             /\ Load(<<>>) = 0
  <2>1. LogTypes
    BY HandInit DEF HandInv
  <2>2. At(h, 0) \in Banks
    <3>1. 0 \in 0 .. BankCount
      BY Sizes
    <3> QED
      BY <2>1, <3>1, Places
  <2>3. Load(<<>>) = 0
    BY DEF Load
  <2> QED
    BY <2>2, <2>3 DEF Init, Held, UiReset, CoreReset
<1>4. ASSUME NEW h \in Harts
      PROVE  StreamRuns(h) /\ Counted(h) /\ BanksRun(h, 0) /\ QueueRuns(h, 0)
  <2>1. Len(<<>>) = 0 /\ <<>> \in Seq(Nat) /\ \A a : BeatsRun(<<>>, a) /\ Run(<<>>, a)
    BY NoBeats
  <2>2. StreamRuns(h)
    BY <1>3, <2>1 DEF StreamRuns
  <2>3. Counted(h)
    <3>1. state = "IDLE" /\ writtenRecords[h] = 0
      BY DEF Init, Dma!DmaInit, Dma!Harts, Harts
    <3> QED
      BY <1>3, <2>1, <3>1 DEF Counted
  <2>4. First(h) = 0 /\ Base(h) = 0 /\ Full(0 - 0) = 0
    <3>1. Flow(h) = 0
      BY <1>3 DEF Flow
    <3>2. 0 - 0 = 0 /\ Full(0) = 0
      BY FullSteps
    <3> QED
      BY <1>3, <2>1, <3>1, <3>2 DEF First, Base
  <2>5. BanksRun(h, 0)
    <3>1. \A i : i \notin 0 .. 0 - 1
      OBVIOUS
    <3> QED
      BY <2>4, <3>1 DEF BanksRun
  <2>6. QueueRuns(h, 0)
    <3>1. /\ Len(queue[h]) = 0 /\ produced[h] = 0 /\ Run(queue[h], 0 - 0) /\ 0 - 0 = 0
          /\ Len(lanes[h][At(h, 0)]) = 0 /\ Run(lanes[h][At(h, 0)], 0 + 0) /\ 0 + 0 + 0 = 0
      BY <1>3, <2>1
    <3>2. Len(queue[h]) <= produced[h] /\ Run(queue[h], produced[h] - Len(queue[h]))
      BY <3>1
    <3>3. /\ Run(lanes[h][At(h, 0)], Base(h) + Full(0 - First(h)))
          /\ produced[h] - Len(queue[h]) = Base(h) + Full(0 - First(h)) + Len(lanes[h][At(h, 0)])
      BY <2>4, <3>1
    <3> QED
      BY <1>3, <3>2, <3>3 DEF QueueRuns
  <2> QED
    BY <2>2, <2>3, <2>5, <2>6
<1>5. ASSUME NEW h \in Harts
      PROVE  \E k, m \in Nat : Ring(h, k, m) /\ BanksRun(h, k) /\ QueueRuns(h, k)
  BY <1>1, <1>4
<1> QED
  BY <1>1, <1>2, <1>4, <1>5 DEF LogInv

(* No record moves either.                                                  *)
LEMMA LogUnchanged ==
    ASSUME LogInv, UNCHANGED vars
    PROVE  LogInv'
<1>1. /\ produced' = produced /\ captureDone' = captureDone /\ queue' = queue
      /\ pipelineDone' = pipelineDone /\ side' = side /\ releaseSync' = releaseSync
      /\ uiEdges' = uiEdges /\ ui' = ui /\ readySync' = readySync /\ ackSync' = ackSync
      /\ doneSync' = doneSync /\ releaseSource' = releaseSource
      /\ lanes' = lanes /\ child' = child /\ output' = output /\ elastic' = elastic
      /\ memory' = memory
      /\ state' = state /\ activeHart' = activeHart /\ sent' = sent
      /\ writtenRecords' = writtenRecords /\ axiError' = axiError
  BY DEF vars, coreVars, sharedVars, uiVars, dmaVars
<1>2. Closing'
  BY ClosingStands DEF LogInv
<1>3. ASSUME NEW h \in Harts, NEW k \in Nat, NEW m \in Nat, Ring(h, k, m)
      PROVE  Ring(h, k, m)'
  BY <1>3, RingStands
<1>4. ASSUME NEW h \in Harts
      PROVE  /\ StreamRuns(h)' <=> StreamRuns(h)
             /\ Counted(h)' <=> Counted(h)
             /\ \A k : BanksRun(h, k)' <=> BanksRun(h, k)
             /\ \A k : QueueRuns(h, k)' <=> QueueRuns(h, k)
  <2>1. \A i : At(h, i)' = At(h, i)
    BY <1>1 DEF At
  <2>2. (Held(h)' <=> Held(h)) /\ First(h)' = First(h) /\ Base(h)' = Base(h)
    BY <1>1 DEF Held, First, Base, Flow, Load
  <2>3. StreamRuns(h)' <=> StreamRuns(h)
    BY <1>1, <2>2 DEF StreamRuns
  <2>4. Counted(h)' <=> Counted(h)
    BY <1>1 DEF Counted
  <2>5. \A k : BanksRun(h, k)' <=> BanksRun(h, k)
    BY <1>1, <2>1, <2>2 DEF BanksRun, Full, Run
  <2>6. \A k : QueueRuns(h, k)' <=> QueueRuns(h, k)
    BY <1>1, <2>1, <2>2 DEF QueueRuns, Full, Run
  <2> QED
    BY <2>3, <2>4, <2>5, <2>6
<1>5. writtenRecords' \in [Harts -> Nat] /\ memory' \in [Harts -> Seq(Nat)]
  BY <1>1 DEF LogInv
<1>6. ASSUME NEW h \in Harts
      PROVE  \E k, m \in Nat : Ring(h, k, m)' /\ BanksRun(h, k)' /\ QueueRuns(h, k)'
  <2>1. PICK k \in Nat, m \in Nat : Ring(h, k, m) /\ BanksRun(h, k) /\ QueueRuns(h, k)
    BY DEF LogInv
  <2> QED
    BY <1>3, <1>4, <2>1
<1>7. \A h \in Harts : StreamRuns(h)' /\ Counted(h)'
  BY <1>4 DEF LogInv
<1> QED
  BY <1>2, <1>5, <1>6, <1>7 DEF LogInv

(* Every edge of either clock keeps the numbers of the records in order.     *)
LEMMA LogNext == ASSUME OwnerInv, HandInv, Paced, LogInv, [Next]_vars PROVE LogInv'
<1>1. CASE CoreEdge
  <2>1. Closing'
    BY <1>1, CoreKeepsClosing DEF LogInv
  <2>2. ASSUME NEW h \in Harts
        PROVE  /\ StreamRuns(h)' /\ Counted(h)'
               /\ \E kk, mm \in Nat : Ring(h, kk, mm)' /\ BanksRun(h, kk)' /\ QueueRuns(h, kk)'
    <3>1. PICK k \in Nat, m \in Nat : Ring(h, k, m) /\ BanksRun(h, k) /\ QueueRuns(h, k)
      BY DEF LogInv
    <3>2. PICK kk, mm : CoreTurn(h, k, m, kk, mm)
      BY DEF CoreTurn
    <3>3. kk \in Nat /\ mm \in 0 .. 1
      BY <1>1, <3>1, <3>2, CoreTurns DEF LogInv
    <3>4. Ring(h, kk, mm)'
      BY <1>1, <3>1, <3>2, CoreKeepsRing DEF LogInv
    <3>5. BanksRun(h, kk)'
      BY <1>1, <3>1, <3>2, CoreKeepsBanks DEF LogInv
    <3>6. QueueRuns(h, kk)'
      BY <1>1, <3>1, <3>2, CoreKeepsQueue DEF LogInv
    <3>7. StreamRuns(h)' /\ memory' = memory
      BY <1>1, CoreKeepsStream DEF LogInv
    <3>8. Counted(h)'
      <4>1. /\ state' = state /\ activeHart' = activeHart /\ sent' = sent
            /\ writtenRecords' = writtenRecords /\ axiError' = axiError
        BY <1>1 DEF CoreEdge, dmaVars
      <4> QED
        BY <3>7, <4>1 DEF LogInv, Counted
    <3> QED
      BY <3>3, <3>4, <3>5, <3>6, <3>7, <3>8
  <2>3. writtenRecords' \in [Harts -> Nat] /\ memory' \in [Harts -> Seq(Nat)]
    BY <1>1 DEF LogInv, CoreEdge, uiVars, dmaVars
  <2> QED
    BY <2>1, <2>2, <2>3 DEF LogInv
<1>2. CASE UiEdge
  <2>1. PICK axi \in Answers : UiEdgeWith(axi)
    BY <1>2 DEF UiEdge
  <2>2. Closing'
    BY <2>1, UiKeepsClosing DEF LogInv
  <2>3. ASSUME NEW h \in Harts
        PROVE  /\ StreamRuns(h)' /\ Counted(h)' /\ writtenRecords' \in [Harts -> Nat]
               /\ \E kk, mm \in Nat : Ring(h, kk, mm)' /\ BanksRun(h, kk)' /\ QueueRuns(h, kk)'
    <3>1. PICK k \in Nat, m \in Nat : Ring(h, k, m) /\ BanksRun(h, k) /\ QueueRuns(h, k)
      BY DEF LogInv
    <3>2. PICK kk, mm : UiTurn(h, k, m, kk, mm)
      BY DEF UiTurn
    <3>3. kk \in Nat /\ mm \in 0 .. 2
      BY <2>1, <3>1, <3>2, UiTurns DEF LogInv
    <3>4. Ring(h, kk, mm)'
      BY <2>1, <3>1, <3>2, UiKeepsRing DEF LogInv
    <3>5. BanksRun(h, kk)'
      BY <2>1, <3>1, <3>2, UiKeepsBanks DEF LogInv
    <3>6. QueueRuns(h, kk)'
      BY <2>1, <3>1, <3>2, UiKeepsQueue DEF LogInv
    <3>7. StreamRuns(h)'
      BY <2>1, <3>1, UiKeepsStream DEF LogInv
    <3>8. Counted(h)' /\ writtenRecords' \in [Harts -> Nat]
      BY <2>1, UiCounts DEF LogInv
    <3> QED
      BY <3>3, <3>4, <3>5, <3>6, <3>7, <3>8
  <2>4. writtenRecords' \in [Harts -> Nat]
    BY <2>3 DEF Harts
  <2>5. memory' \in [Harts -> Seq(Nat)]
    <3>1. \A h \in Harts : memory'[h] \in Seq(Nat)
      BY <2>3 DEF StreamRuns
    <3>2. DOMAIN memory' = Harts /\ memory' = [h \in Harts |-> memory'[h]]
      BY <2>1 DEF UiEdgeWith, Stream
    <3> QED
      BY <3>1, <3>2
  <2> QED
    BY <2>2, <2>3, <2>4, <2>5 DEF LogInv
<1>3. CASE UNCHANGED vars
  BY <1>3, LogUnchanged
<1> QED
  BY <1>1, <1>2, <1>3 DEF Next

(* The records are numbered without a gap from DDR1 to the queue.            *)
THEOREM LogInvariant == Paced => (Spec => []LogInv)
<1>1. ASSUME Paced PROVE (Spec /\ []OwnerInv /\ []HandInv) => []LogInv
  <2>1. Init => LogInv
    BY LogInit
  <2>2. OwnerInv /\ HandInv /\ LogInv /\ [Next]_vars => LogInv'
    BY <1>1, LogNext
  <2> QED
    BY <2>1, <2>2, PTL DEF Spec
<1>2. Spec => []OwnerInv /\ []HandInv
  BY OwnerInvariant, HandInvariant, PTL
<1> QED
  BY <1>1, <1>2

(* What is in DDR1 has been produced.                                        *)
LEMMA InMemory ==
    ASSUME HandInv, LogInv, NEW h \in Harts
    PROVE  Len(memory[h]) \in Nat /\ produced[h] \in Nat /\ Len(memory[h]) <= produced[h]
<1> DEFINE w == Len(memory[h])
           p == produced[h]
           q == Len(queue[h])
           B == Base(h)
           F == First(h)
<1>1. PICK k \in Nat, m \in Nat : Ring(h, k, m) /\ QueueRuns(h, k)
  BY DEF LogInv
<1>2. LogTypes /\ StreamRuns(h) /\ p \in Nat /\ q \in Nat
  <2>1. LogTypes /\ StreamRuns(h)
    BY DEF HandInv, LogInv
  <2> QED
    BY <2>1, StateTypes
<1>3. B \in Nat /\ w \in Nat /\ w <= B
  BY <1>2, BaseCounts
<1>4. F \in {0, 1} /\ k >= F /\ (k # F => k >= 1 /\ k - 1 >= F)
  BY <1>1, FromFirst
<1>5. k \in 0 .. BankCount /\ BankCount \in Nat /\ (k # F => k - 1 \in 0 .. BankCount)
  <2>1. k + m <= BankCount /\ BankCount \in Nat
    BY <1>1, Sizes DEF Ring, Arc
  <2> QED
    BY <1>1, <1>4, <2>1
<1>6. Full(k - F) \in Nat /\ (k # F => Full(k - 1 - F) \in Nat)
  <2>1. k - F \in Nat /\ (k # F => k - 1 - F \in Nat)
    BY <1>1, <1>4
  <2> QED
    BY <2>1, FullSteps
<1>7. Len(lanes[h][At(h, k)]) \in Nat /\ (k # F => Len(lanes[h][At(h, k - 1)]) \in Nat)
  <2>1. At(h, k) \in Banks /\ (k # F => At(h, k - 1) \in Banks)
    BY <1>2, <1>5, Places
  <2> QED
    BY <1>2, <2>1, BankTypes
<1>8. CASE side[h].flushAck
  <2>1. p = IF k = F THEN B ELSE B + Full(k - 1 - F) + Len(lanes[h][At(h, k - 1)])
    BY <1>1, <1>8 DEF QueueRuns
  <2>2. CASE k = F
    BY <1>2, <1>3, <2>1, <2>2
  <2>3. CASE k # F
    <3> DEFINE f == Full(k - 1 - F)
               l == Len(lanes[h][At(h, k - 1)])
    <3>1. p = B + f + l /\ f \in Nat /\ l \in Nat
      BY <1>6, <1>7, <2>1, <2>3
    <3> HIDE DEF f, l, p, B, w
    <3>2. w <= p
      BY <1>2, <1>3, <3>1
    <3> QED
      BY <1>2, <1>3, <3>2 DEF p, w
  <2> QED
    BY <2>2, <2>3
<1>9. CASE ~side[h].flushAck
  <2> DEFINE f == Full(k - F)
             l == Len(lanes[h][At(h, k)])
  <2>1. (p - q = B + f + l \/ p - q = B + f) /\ q <= p
    BY <1>1, <1>9 DEF QueueRuns
  <2>2. f \in Nat /\ l \in Nat
    BY <1>6, <1>7
  <2> HIDE DEF f, l, p, q, B, w
  <2>3. w <= p
    BY <1>2, <1>3, <2>1, <2>2
  <2> QED
    BY <1>2, <1>3, <2>3 DEF p, w
<1> QED
  BY <1>8, <1>9

(* "All writes done" comes after the last record and the last bank.          *)
LEMMA DoneGives ==
    ASSUME HandInv, LogInv, 1 <= FlushGuard, AllWritesDone, NEW h \in Harts
    PROVE  /\ Len(memory[h]) = produced[h]
           /\ ~axiError => writtenRecords[h] = produced[h]
           /\ captureDone /\ doneSync[1] /\ state = "IDLE"
           /\ ui[h].guard = FlushGuard /\ ui[h].active = FALSE
           /\ \A b \in Banks : ~readySync[h][b][3] /\ b \notin side[h].ready /\ ~OnItsWay(h, b)
<1>1. PICK k \in Nat, m \in Nat : Ring(h, k, m) /\ QueueRuns(h, k)
  BY DEF LogInv
<1>2. /\ LogTypes /\ StreamRuns(h) /\ Counted(h) /\ Closing /\ Frozen(h) /\ Delivers(h)
      /\ \A b \in Banks : ReadyChain(h, b)
  BY DEF HandInv, LogInv, BankInv
<1>3. /\ ui[h].guard = FlushGuard /\ ~ui[h].active /\ ReadyUi(h) = {}
      /\ doneSync[2] /\ state = "IDLE"
  BY DEF AllWritesDone, HartEmpty, AllEmpty
<1>4. ui[h].active \in BOOLEAN /\ ui[h].guard # 0
  <2>1. ui[h].active \in BOOLEAN /\ FlushGuard \in Nat
    BY <1>2, StateTypes, ReaderFields, Sizes
  <2> QED
    BY <1>3, <2>1
<1>5. doneSync[1] /\ pipelineDone /\ captureDone /\ side[h].flushAck
  BY <1>2, <1>3, <1>4 DEF Closing
<1>6. \A b \in Banks : ~readySync[h][b][3]
  BY <1>3 DEF ReadyUi, SyncOut
<1>7. k = 0
  <2>1. SUFFICES ASSUME k # 0 PROVE FALSE
    OBVIOUS
  <2>2. 0 \in 0 .. k - 1 /\ 0 \in 0 .. BankCount /\ 3 >= 3
    BY <1>1, <2>1, Sizes
  <2>3. Shown(h, At(h, 0), 3)
    BY <1>1, <1>4, <2>2 DEF Ring, LastSeen
  <2>4. At(h, 0) \in Banks
    BY <1>2, <2>2, Places
  <2> QED
    BY <1>6, <2>2, <2>3, <2>4 DEF Shown
<1>8. ~Held(h) /\ First(h) = 0
  BY <1>3 DEF Held, First
<1>9. produced[h] = Len(memory[h])
  <2>1. Flow(h) = 0
    <3>1. child[h] = <<>> /\ output[h] = <<>> /\ elastic[h] = <<>>
      BY <1>2, <1>8 DEF Delivers
    <3>2. Load(<<>>) = 0
      BY DEF Load
    <3> QED
      BY <1>8, <3>1, <3>2 DEF Flow
  <2>2. produced[h] = Base(h)
    BY <1>1, <1>5, <1>7, <1>8 DEF QueueRuns
  <2>3. Len(memory[h]) \in Nat
    BY <1>2, BaseCounts
  <2> QED
    BY <2>1, <2>2, <2>3 DEF Base
<1>10. ~axiError => writtenRecords[h] = produced[h]
  <2>1. writtenRecords[h] \in Nat
    BY DEF LogInv
  <2>2. ~axiError => writtenRecords[h] + 0 = Len(memory[h])
    BY <1>2, <1>3 DEF Counted
  <2> QED
    BY <1>9, <2>1, <2>2
<1>11. ASSUME NEW b \in Banks PROVE b \notin side[h].ready /\ ~OnItsWay(h, b)
  <2>1. ~OnItsWay(h, b)
    BY <1>2, <1>6 DEF ReadyChain
  <2>2. PICK i \in 0 .. BankCount - 1 : At(h, i) = b
    BY <1>2, Places
  <2>3. b \in side[h].owned <=> i < 0 \/ i >= BankCount - m
    BY <1>1, <1>7, <2>2 DEF Ring, Arc
  <2>4. ~(i >= BankCount - m)
    BY <1>1, <2>1, <2>2 DEF Ring, Arc
  <2>5. BankCount \in Nat
    BY Sizes
  <2>6. ~(i < 0)
    BY <2>2, <2>5
  <2> QED
    BY <1>2, <2>1, <2>3, <2>4, <2>6 DEF Frozen
<1> QED
  BY <1>3, <1>4, <1>5, <1>6, <1>9, <1>10, <1>11

(* "All writes done" is only reported over two complete logs, each counted   *)
(* in full (AllWrittenIsReal): the controller reads the counts then.         *)
THEOREM WrittenIsReal == Paced /\ 1 <= FlushGuard => (Spec => []AllWrittenIsReal)
<1>1. ASSUME 1 <= FlushGuard
      PROVE  HandInv /\ LogInv /\ FailedNeverComplete => AllWrittenIsReal
  BY <1>1, DoneGives DEF FailedNeverComplete, AllWrittenIsReal
<1>2. ASSUME Paced, 1 <= FlushGuard
      PROVE  Spec => []AllWrittenIsReal
  <2>1. HandInv /\ LogInv /\ FailedNeverComplete => AllWrittenIsReal
    BY <1>1, <1>2
  <2>2. Spec => []LogInv
    BY <1>2, LogInvariant
  <2> QED
    BY <2>1, <2>2, HandInvariant, FailureKept, PTL
<1> QED
  BY <1>2

(* Appended to records that follow one another, the next ones do as well.    *)
LEMMA ExtendsRun ==
    ASSUME NEW s \in Seq(Nat), NEW t \in Seq(Nat), Run(s \o t, 0)
    PROVE  /\ s \o t = s \o Log!Numbers(Len(s), Len(s \o t))
           /\ Len(s \o t) >= Len(s)
<1> DEFINE l == Len(s)
           n == Len(t)
           u == s \o t
<1>1. /\ l \in Nat /\ n \in Nat /\ Len(u) = l + n
      /\ \A i \in 1 .. n : u[l + i] = t[i]
  OBVIOUS
<1> HIDE DEF l, n, u
<1>2. (l + n) - l = n /\ \A i \in 1 .. n : l + i \in 1 .. l + n /\ 0 + (l + i) = l + i
  BY <1>1
<1>3. \A i \in 1 .. n : t[i] = l + i
  <2>1. \A j \in 1 .. Len(u) : u[j] = 0 + j
    BY DEF Run, u
  <2> QED
    BY <1>1, <1>2, <2>1
<1>4. t = [i \in 1 .. n |-> l + i]
  <2>1. t = [i \in 1 .. n |-> t[i]]
    BY DEF n
  <2> QED
    BY <1>3, <2>1
<1>5. Log!Numbers(l, Len(u)) = t
  BY <1>1, <1>2, <1>4 DEF Log!Numbers
<1>6. Len(u) >= l
  BY <1>1
<1> QED
  BY <1>5, <1>6 DEF l, u

(* Once all has been reported as written nothing is produced any more.       *)
LEMMA CoreStaysDone ==
    ASSUME HandInv, LogInv, 1 <= FlushGuard, AllWritesDone, CoreEdge
    PROVE  produced' = produced /\ memory' = memory /\ AllWritesDone'
<1>1. /\ memory' = memory /\ ui' = ui /\ readySync' = readySync /\ doneSync' = doneSync
      /\ output' = output /\ elastic' = elastic /\ state' = state
  BY DEF CoreEdge, uiVars, dmaVars
<1>2. ASSUME NEW h \in Harts PROVE produced'[h] = produced[h]
  <2>1. PICK k \in Nat : QueueRuns(h, k)
    BY DEF LogInv
  <2>2. Len(queue[h]) <= produced[h] /\ Run(queue[h], produced[h] - Len(queue[h]))
    BY <2>1 DEF QueueRuns
  <2>3. captureDone
    BY DoneGives
  <2> QED
    BY <2>2, <2>3, Fed
<1>3. produced' = produced
  <2>1. LogTypes /\ LogTypes'
    BY CoreKeepsTypes DEF HandInv
  <2>2. produced \in [Harts -> Nat] /\ produced' \in [Harts -> Nat]
    BY <2>1 DEF LogTypes
  <2> QED
    BY <1>2, <2>2
<1>4. AllWritesDone'
  <2>1. \A h \in Harts : HartEmpty(h)' <=> HartEmpty(h)
    BY <1>1 DEF HartEmpty, AllEmpty, ReadyUi
  <2> QED
    BY <1>1, <2>1 DEF AllWritesDone
<1> QED
  BY <1>1, <1>3, <1>4

(* ... and nothing is written.                                               *)
LEMMA UiStaysDone ==
    ASSUME OwnerInv, HandInv, LogInv, 1 <= FlushGuard, AllWritesDone,
           NEW axi, UiEdgeWith(axi)
    PROVE  produced' = produced /\ memory' = memory /\ AllWritesDone'
<1>1. /\ LogTypes /\ Stream(axi) /\ produced' = produced
      /\ Dma!DmaStep(Offering, [g \in Harts |-> ui[g].sample], axi, elastic)
  BY DEF HandInv, UiEdgeWith, coreVars
<1>2. /\ state = "IDLE" /\ doneSync[1]
      /\ \A h \in Harts :
            /\ ui[h].guard = FlushGuard /\ ui[h].active = FALSE
            /\ \A b \in Banks : ~readySync[h][b][3] /\ b \notin side[h].ready /\ ~OnItsWay(h, b)
  BY DoneGives DEF Harts
<1>3. state' = "IDLE"
  <2>1. Offering = {}
    BY <1>2 DEF Offering, BatchValid
  <2>2. Dma!DmaIdle(Offering)
    <3>1. ASSUME NEW g \in Harts PROVE ~Dma!Selects(g, Offering)
      BY <2>1 DEF Dma!Selects
    <3>2. ~\E g \in Dma!Harts : Dma!DmaClaim(g, Offering, [k \in Harts |-> ui[k].sample][g])
      BY <3>1 DEF Dma!DmaClaim, Dma!Harts, Harts
    <3>3. /\ ~Dma!DmaPlan /\ ~Dma!DmaCheck /\ ~Dma!DmaAddress(axi)
          /\ ~Dma!DmaData(axi, elastic[activeHart]) /\ ~Dma!DmaWait(axi, elastic[activeHart])
          /\ ~Dma!DmaFail(axi) /\ ~Dma!DmaBurst(axi)
      BY <1>2 DEF Dma!DmaPlan, Dma!DmaCheck, Dma!DmaAddress, Dma!DmaData, Dma!DmaWait,
                  Dma!DmaFail, Dma!DmaBurst, Dma!Takes
    <3> QED
      BY <1>1, <3>2, <3>3 DEF Dma!DmaStep
  <2> QED
    BY <1>2, <2>2 DEF Dma!DmaIdle
<1>4. memory' = memory
  <2>1. \A h \in Harts : ~(activeHart = h /\ Dma!Takes(axi, elastic[h]))
    BY <1>2 DEF Dma!Takes
  <2>2. memory' = [h \in Harts |-> memory[h]]
    BY <1>1, <2>1 DEF Stream
  <2>3. memory \in [Harts -> Seq(Nat)]
    BY DEF LogInv
  <2> QED
    BY <2>2, <2>3
<1>5. doneSync'[2]
  <2>1. \/ doneSync' = Shift(doneSync, doneSync[1])
        \/ doneSync' = Shift(doneSync, pipelineDone)
    BY <1>1, UiEdgeOnFifo DEF Harts
  <2>2. \A x : Shift(doneSync, x)[2] = doneSync[1]
    BY ShiftGives
  <2> QED
    BY <1>2, <2>1, <2>2
<1>6. ASSUME NEW h \in Harts PROVE HartEmpty(h)'
  <2>1. ReadyUi(h) = {} /\ ui[h].active = FALSE /\ ui[h].guard = FlushGuard
    BY <1>2 DEF ReadyUi, SyncOut
  <2>2. PICK occupancy \in Counts(h) \cap (0 .. BankRecords) :
           UiStepped(ui[h], ReadyUi(h), SyncOut(ackSync[h]), occupancy,
                     Dma!Selects(h, Offering), batchDone[h], ui'[h])
    BY <1>1, UiEdgeOnFifo
  <2>3. ui'[h].guard = FlushGuard
    BY <2>1, <2>2 DEF UiStepped, Guarded
  <2>4. ~ui'[h].active
    <3>1. NextReady(ui[h], ReadyUi(h)) = {}
      BY <2>1, NextIsReady
    <3> QED
      BY <2>1, <2>2, <3>1 DEF UiStepped
  <2>5. ReadyUi(h)' = {}
    <3>1. ASSUME NEW b \in Banks PROVE ~readySync'[h][b][3]
      <4>1. /\ ReadyChain(h, b) /\ ~Picked(h, b) /\ ~OnItsWay(h, b)
            /\ ~readySync[h][b][3] /\ b \notin side[h].ready
        BY <1>2 DEF HandInv, BankInv, Picked
      <4>2. ~readySync[h][b][2]
        BY <4>1 DEF ReadyChain
      <4>3. readySync'[h][b][3] = readySync[h][b][2]
        BY <1>1, Sampled
      <4> QED
        BY <4>2, <4>3
    <3> QED
      BY <3>1 DEF ReadyUi, SyncOut
  <2>6. output'[h] = <<>> /\ elastic'[h] = <<>>
    <3>1. Delivers(h)'
      BY UiKeepsDelivers
    <3>2. ~Held(h)'
      BY <2>4 DEF Held
    <3> QED
      BY <3>1, <3>2 DEF Delivers
  <2> QED
    BY <2>3, <2>4, <2>5, <2>6 DEF HartEmpty, AllEmpty
<1> QED
  BY <1>1, <1>3, <1>4, <1>5, <1>6 DEF AllWritesDone

(* What the logs hold has been produced, and is all once that is reported.   *)
LogSound ==
    /\ memory \in [Harts -> Seq(Nat)] /\ produced \in [Harts -> Nat]
    /\ \A h \in Harts : /\ Run(memory[h], 0) /\ Len(memory[h]) <= produced[h]
                        /\ AllWritesDone => Len(memory[h]) = produced[h]

(* The two facts follow from the invariant.                                  *)
LEMMA LogIsSound == ASSUME HandInv, LogInv, 1 <= FlushGuard PROVE LogSound
<1>1. memory \in [Harts -> Seq(Nat)] /\ produced \in [Harts -> Nat]
  BY DEF LogInv, HandInv, LogTypes
<1>2. ASSUME NEW h \in Harts
      PROVE  /\ Run(memory[h], 0) /\ Len(memory[h]) <= produced[h]
             /\ AllWritesDone => Len(memory[h]) = produced[h]
  <2>1. Run(memory[h], 0)
    BY DEF LogInv, StreamRuns
  <2>2. Len(memory[h]) <= produced[h]
    BY InMemory
  <2>3. AllWritesDone => Len(memory[h]) = produced[h]
    BY DoneGives
  <2> QED
    BY <2>1, <2>2, <2>3
<1> QED
  BY <1>1, <1>2 DEF LogSound

(* The logs of both harts grow by the records that come next.                *)
LEMMA LogsGrow ==
    ASSUME OwnerInv, HandInv, LogInv, LogSound, LogSound', Next, NEW h \in Harts
    PROVE  /\ produced'[h] >= produced[h] /\ Len(memory'[h]) >= Len(memory[h])
           /\ memory'[h] = memory[h] \o Log!Numbers(Len(memory[h]), Len(memory'[h]))
           /\ Len(memory'[h]) <= produced[h]
<1>1. /\ memory[h] \in Seq(Nat) /\ Run(memory[h], 0)
      /\ memory'[h] \in Seq(Nat) /\ Run(memory'[h], 0)
  BY DEF LogSound, Run
<1>2. ASSUME NEW t \in Seq(Nat), memory'[h] = memory[h] \o t
      PROVE  /\ Len(memory'[h]) >= Len(memory[h])
             /\ memory'[h] = memory[h] \o Log!Numbers(Len(memory[h]), Len(memory'[h]))
  <2>1. Run(memory[h] \o t, 0)
    BY <1>1, <1>2
  <2> QED
    BY <1>1, <1>2, <2>1, ExtendsRun
<1>3. CASE CoreEdge
  <2>1. memory'[h] = memory[h] \o <<>> /\ <<>> \in Seq(Nat)
    <3>1. memory' = memory
      BY <1>3 DEF CoreEdge, uiVars
    <3> QED
      BY <1>1, <3>1
  <2>2. produced'[h] >= produced[h]
    <3>1. PICK k \in Nat : QueueRuns(h, k)
      BY DEF LogInv
    <3>2. Len(queue[h]) <= produced[h] /\ Run(queue[h], produced[h] - Len(queue[h]))
      BY <3>1 DEF QueueRuns
    <3> QED
      BY <1>3, <3>2, Fed
  <2>3. Len(memory'[h]) <= produced[h]
    <3>1. memory' = memory
      BY <1>3 DEF CoreEdge, uiVars
    <3> QED
      BY <3>1 DEF LogSound
  <2> QED
    BY <1>2, <2>1, <2>2, <2>3
<1>4. CASE UiEdge
  <2>1. PICK axi \in Answers : UiEdgeWith(axi)
    BY <1>4 DEF UiEdge
  <2>2. PICK t \in Seq(Nat) : memory'[h] = memory[h] \o t
    <3>1. writtenRecords \in [Harts -> Nat] /\ StreamRuns(h) /\ Counted(h)
      BY DEF LogInv
    <3>2. \E t \in Seq(Nat) : memory'[h] = memory[h] \o t
      BY <2>1, <3>1, UiCounts
    <3> QED
      BY <3>2
  <2>3. produced' = produced
    BY <2>1 DEF UiEdgeWith, coreVars
  <2>4. Len(memory'[h]) <= produced'[h] /\ produced[h] \in Nat
    BY DEF LogSound
  <2>5. produced'[h] >= produced[h] /\ Len(memory'[h]) <= produced[h]
    BY <2>3, <2>4
  <2>6. /\ Len(memory'[h]) >= Len(memory[h])
        /\ memory'[h] = memory[h] \o Log!Numbers(Len(memory[h]), Len(memory'[h]))
    BY <1>2, <2>2
  <2> QED
    BY <2>5, <2>6
<1> QED
  BY <1>3, <1>4 DEF Next

(* The log path of a run refines the record log (ImplementsRecordLog): the   *)
(* records of a hart come to DDR1 in the order they were produced, each      *)
(* once, and "all writes done" is final.                                     *)
THEOREM RefinesRecordLog == Paced /\ 1 <= FlushGuard => (Spec => ImplementsRecordLog)
<1>1. Init => Log!Init
  <2>1. Init => AllWritesDone = FALSE
    BY DEF Init, AllWritesDone, ChainOf, Stages
  <2> QED
    BY <2>1 DEF Init, Log!Init
<1>2. ASSUME 1 <= FlushGuard, OwnerInv, HandInv, LogInv, LogSound, LogSound', [Next]_vars
      PROVE  [Log!Move]_(Log!logVars)
  <2>1. CASE UNCHANGED vars
    <3>1. /\ produced' = produced /\ memory' = memory /\ doneSync' = doneSync /\ state' = state
          /\ ui' = ui /\ readySync' = readySync /\ output' = output /\ elastic' = elastic
      BY <2>1 DEF vars, coreVars, uiVars, dmaVars
    <3>2. \A h \in Harts : HartEmpty(h)' <=> HartEmpty(h)
      BY <3>1 DEF HartEmpty, AllEmpty, ReadyUi
    <3>3. AllWritesDone' = AllWritesDone
      BY <3>1, <3>2 DEF AllWritesDone
    <3> QED
      BY <3>1, <3>3 DEF Log!logVars
  <2>2. CASE Next /\ AllWritesDone
    <3>1. produced' = produced /\ memory' = memory /\ AllWritesDone'
      <4>1. CASE CoreEdge
        BY <1>2, <2>2, <4>1, CoreStaysDone
      <4>2. CASE UiEdge
        BY <1>2, <2>2, <4>2, UiStaysDone DEF UiEdge
      <4> QED
        BY <2>2, <4>1, <4>2 DEF Next
    <3>2. AllWritesDone' = AllWritesDone
      BY <2>2, <3>1 DEF AllWritesDone
    <3> QED
      BY <3>1, <3>2 DEF Log!logVars
  <2>3. CASE Next /\ ~AllWritesDone
    <3>1. ASSUME NEW h \in Harts
          PROVE  /\ produced'[h] >= produced[h] /\ Len(memory'[h]) >= Len(memory[h])
                 /\ memory'[h] = memory[h] \o Log!Numbers(Len(memory[h]), Len(memory'[h]))
                 /\ Len(memory'[h]) <= produced[h]
      BY <1>2, <2>3, LogsGrow
    <3>2. DOMAIN produced' = Harts /\ DOMAIN memory' = Harts
      BY <1>2 DEF LogSound
    <3>3. AllWritesDone' => \A h \in Harts : Len(memory'[h]) = produced'[h]
      BY <1>2 DEF LogSound
    <3>4. \A h \in Harts : Log!Extends(h, produced[h])
      BY <3>1 DEF Log!Extends
    <3> QED
      BY <2>3, <3>1, <3>2, <3>3, <3>4 DEF Log!Move
  <2> QED
    BY <1>2, <2>1, <2>2, <2>3
<1>3. ASSUME Paced, 1 <= FlushGuard
      PROVE  Spec => ImplementsRecordLog
  <2>1. OwnerInv /\ HandInv /\ LogInv /\ LogSound /\ LogSound' /\ [Next]_vars
           => [Log!Move]_(Log!logVars)
    BY <1>2, <1>3
  <2>2. Spec => []LogInv
    BY <1>3, LogInvariant
  <2>3. HandInv /\ LogInv => LogSound
    BY <1>3, LogIsSound
  <2> QED
    BY <1>1, <2>1, <2>2, <2>3, OwnerInvariant, HandInvariant, PTL
       DEF Spec, ImplementsRecordLog, Log!Spec
<1> QED
  BY <1>3
=============================================================================
