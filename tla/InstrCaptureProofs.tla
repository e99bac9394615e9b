-------------------------- MODULE InstrCaptureProofs --------------------------
(* Proofs about the capture of retired instructions, for any number of       *)
(* harts, registers and instructions, whatever order the bus takes the       *)
(* stores in and the results arrive in: the paired halves of two stores      *)
(* never stop a hart that keeps off the marker's address, and every          *)
(* instruction has exactly one record, which tells what became of it.        *)
EXTENDS InstrCapture, FiniteSetTheorems, SequenceTheorems, TLAPS

Fates == [fate : {"wrote", "cut", "waits", "none", "recorded", "misrecorded"},
          by : SUBSET Nat]
StoreTypes == [hart : CapHarts, addr : BOOLEAN, data : BOOLEAN, aw : BOOLEAN, w : BOOLEAN]
LaneTypes == [Lanes -> LaneInputs \cup {None}]

Parked(h) == parked[h] # None
MarkerTypes ==
    /\ story \in [CapHarts -> Seq(Fates)]
    /\ parked \in [CapHarts -> Nat \cup {None}]
    /\ strayed \subseteq CapHarts
    /\ stores \in Seq(StoreTypes)
    /\ marker \in [addr : BOOLEAN, data : BOOLEAN, hart : CapHarts \cup {None}]
    /\ stopped \subseteq CapHarts

(* Every store to the marker's address that is on its way, its address half  *)
(* that was remembered, and every stop come from a hart that has parked or   *)
(* has stored another value there.                                           *)
Marks(h) == Parked(h) \/ h \in strayed
MarksNext(h) == parked'[h] # None \/ h \in strayed'
FromMarkers ==
    /\ \A i \in 1..Len(stores) : stores[i].addr => Marks(stores[i].hart)
    /\ marker.addr => marker.hart \in CapHarts /\ Marks(marker.hart)
    /\ \A h \in stopped : Marks(h)

MarkerInv == MarkerTypes /\ FromMarkers

-----------------------------------------------------------------------------
(* The number of an instruction is one.                                      *)
LEMMA OwnIsNumber ==
    ASSUME MarkerTypes, NEW lanes, NEW i, lanes[i] \in LaneInputs
    PROVE  Own(lanes, i) \in Nat /\ lanes[i].hart \in CapHarts
<1>2. lanes[i].hart \in CapHarts
  BY DEF LaneInputs
<1>3. Len(story[lanes[i].hart]) \in Nat
  BY <1>2 DEF MarkerTypes
<1> DEFINE both == i = 1 /\ lanes[0] # None /\ lanes[0].hart = lanes[i].hart
<1>4. Own(lanes, i) = Len(story[lanes[i].hart]) + IF both THEN 1 ELSE 0
  BY DEF Own
<1> HIDE DEF both
<1>5. CASE both
  BY <1>2, <1>3, <1>4, <1>5
<1>6. CASE ~both
  BY <1>2, <1>3, <1>4, <1>6
<1> QED
  BY <1>5, <1>6

-----------------------------------------------------------------------------
(* What the inputs and the wires of a cycle are.                             *)
Legal(in) ==
    /\ in.lanes \in LaneTypes
    /\ \A i \in Lanes : in.lanes[i] # None =>
          (in.lanes[i].kind = "other" <=> Parked(in.lanes[i].hart))
    /\ in.lanes[1] # None => in.lanes[1].kind # "div"
    /\ in.load \in Arrivals(in.lanes, "load") /\ in.div \in Arrivals(in.lanes, "div")
    /\ in.aw \in BOOLEAN /\ in.w \in BOOLEAN /\ (in.aw \/ in.w => stores # <<>>)
    /\ \A h \in CapHarts :
          /\ in.ready[h] \in BOOLEAN
          /\ in.direct[h] = Direct(in, h)
          /\ in.selected[h] = Selected(in, h)
          /\ \A r \in Regs : /\ in.cancel[h][r] = Cancellers(in, h, r)
                             /\ in.alloc[h][r] = Allocators(in, h, r)

(* Wires that depend on the inputs alone.                                    *)
LEMMA SameWires ==
    ASSUME NEW a, NEW b, b.lanes = a.lanes, b.load = a.load, b.div = a.div,
           b.aw = a.aw, b.w = a.w, NEW h, NEW r
    PROVE  /\ Direct(b, h) = Direct(a, h)
           /\ Cancellers(b, h, r) = Cancellers(a, h, r)
           /\ Allocators(b, h, r) = Allocators(a, h, r)
<1>1. StoppedNext(b) = StoppedNext(a)
  BY DEF StoppedNext, MarkerEvent, MarkerHart, MarkerAddr, MarkerData
<1>2. \A i : Processed(b, i) <=> Processed(a, i)
  BY <1>1 DEF Processed
<1>3. \A i \in Lanes : SameCycleReturn(b, i) <=> SameCycleReturn(a, i)
  BY DEF SameCycleReturn, Nonblock, Arrives
<1>4. \A i \in Lanes : Allocates(b, i) <=> Allocates(a, i)
  BY <1>2, <1>3 DEF Allocates
<1>5. ProcessedOf(b, h) = ProcessedOf(a, h)
  BY <1>2 DEF ProcessedOf
<1>6. Direct(b, h) = Direct(a, h)
  BY <1>4, <1>5 DEF Direct, ProcessedOf
<1>7. Cancellers(b, h, r) = Cancellers(a, h, r)
  BY DEF Cancellers, NbWaw
<1>8. Allocators(b, h, r) = Allocators(a, h, r)
  BY <1>4 DEF Allocators
<1> QED
  BY <1>6, <1>7, <1>8

(* A cycle of the capture block has such inputs.                             *)
LEMMA EdgeIsLegal == CaptureEdge => \E in : Legal(in) /\ Step(in)
<1> SUFFICES ASSUME CaptureEdge PROVE \E in : Legal(in) /\ Step(in)
  OBVIOUS
<1>1. PICK pair \in Retiring : Cycle(pair)
  BY DEF CaptureEdge
<1> DEFINE lanes == [i \in Lanes |-> IF i = 0 THEN pair[1] ELSE pair[2]]
<1>2. /\ pair[1] \in LaneInputs \cup {None} /\ pair[2] \in LaneInputs \cup {None}
      /\ pair[1] # None => MayRetire(pair[1])
      /\ pair[2] # None => MayRetire(pair[2]) /\ pair[2].kind # "div"
  BY DEF Retiring
<1>3. /\ lanes \in LaneTypes
      /\ \A i \in Lanes : lanes[i] # None => MayRetire(lanes[i])
      /\ lanes[1] # None => lanes[1].kind # "div"
  BY <1>2 DEF LaneTypes, Lanes
<1>4. PICK load \in Arrivals(lanes, "load"), div \in Arrivals(lanes, "div"),
           aw \in Handshakes("aw"), w \in Handshakes("w") :
        \E in \in {Wires([lanes |-> lanes, load |-> load, div |-> div,
                         aw |-> aw, w |-> w])} :
           \E full \in SUBSET {h \in CapHarts : ~refused /\ Offers(in, h)} :
              Step(Wired([in EXCEPT !.ready = [h \in CapHarts |-> h \notin full]]))
  BY <1>1 DEF Cycle
<1> DEFINE inputs == [lanes |-> lanes, load |-> load, div |-> div, aw |-> aw, w |-> w]
           wires == Wires(inputs)
<1>5. PICK full : Step(Wired([wires EXCEPT !.ready = [h \in CapHarts |-> h \notin full]]))
  <2> HIDE DEF inputs
  <2>1. PICK in \in {wires} :
          \E full \in SUBSET {h \in CapHarts : ~refused /\ Offers(in, h)} :
             Step(Wired([in EXCEPT !.ready = [h \in CapHarts |-> h \notin full]]))
    BY <1>4 DEF inputs
  <2> QED
    BY <2>1
<1> DEFINE ready == [h \in CapHarts |-> h \notin full]
           before == [wires EXCEPT !.ready = ready]
           in == Wired(before)
<1>6. /\ before.lanes = lanes /\ before.load = load /\ before.div = div
      /\ before.aw = aw /\ before.w = w /\ before.ready = ready
  <2> HIDE DEF lanes, ready
  <2> QED
    BY DEF Wires
<1>7. /\ before.direct = [h \in CapHarts |-> Direct(inputs, h)]
      /\ before.cancel = [h \in CapHarts |-> [r \in Regs |-> Cancellers(inputs, h, r)]]
      /\ before.alloc = [h \in CapHarts |-> [r \in Regs |-> Allocators(inputs, h, r)]]
  <2> HIDE DEF lanes, ready
  <2> QED
    BY DEF Wires
<1>8. /\ in.lanes = lanes /\ in.load = load /\ in.div = div
      /\ in.aw = aw /\ in.w = w /\ in.ready = ready
      /\ in.direct = before.direct /\ in.cancel = before.cancel /\ in.alloc = before.alloc
      /\ in.selected = [h \in CapHarts |-> Selected(before, h)]
  <2> HIDE DEF lanes, ready, inputs
  <2> QED
    BY <1>6 DEF Wires, Wired
<1>9. inputs.lanes = lanes /\ inputs.load = load /\ inputs.div = div
      /\ inputs.aw = aw /\ inputs.w = w
  BY DEF inputs
<1> HIDE DEF inputs, before, in, lanes, ready
<1>10. ASSUME NEW h \in CapHarts
       PROVE  /\ in.ready[h] \in BOOLEAN
              /\ in.direct[h] = Direct(in, h)
              /\ in.selected[h] = Selected(in, h)
              /\ \A r \in Regs : /\ in.cancel[h][r] = Cancellers(in, h, r)
                                 /\ in.alloc[h][r] = Allocators(in, h, r)
  <2>1. in.ready[h] \in BOOLEAN
    BY <1>8 DEF ready
  <2>a. /\ in.lanes = inputs.lanes /\ in.load = inputs.load /\ in.div = inputs.div
        /\ in.aw = inputs.aw /\ in.w = inputs.w
    BY <1>8, <1>9
  <2>b. /\ Direct(in, h) = Direct(inputs, h)
        /\ \A r : /\ Cancellers(in, h, r) = Cancellers(inputs, h, r)
                  /\ Allocators(in, h, r) = Allocators(inputs, h, r)
    BY ONLY <2>a, SameWires
  <2>2. in.direct[h] = Direct(in, h)
    BY <1>7, <1>8, <2>b
  <2>3. Selected(before, h) = Selected(in, h)
    BY <1>6, <1>8 DEF Selected
  <2>4. ASSUME NEW r \in Regs
        PROVE  /\ in.cancel[h][r] = Cancellers(in, h, r)
               /\ in.alloc[h][r] = Allocators(in, h, r)
    BY <1>7, <1>8, <2>b
  <2> QED
    BY <1>8, <2>1, <2>2, <2>3, <2>4
<1>11. aw \in BOOLEAN /\ w \in BOOLEAN /\ (aw \/ w => stores # <<>>)
  BY DEF Handshakes
<1>12. Legal(in)
  BY <1>3, <1>4, <1>8, <1>10, <1>11 DEF Legal, MayRetire, Parked
<1> QED
  BY <1>5, <1>12 DEF in, before, ready

(* What becomes of an instruction is a fate.                                 *)
LEMMA FateHasType ==
    ASSUME MarkerTypes, NEW in, in.lanes \in LaneTypes, NEW i \in Lanes, in.lanes[i] # None
    PROVE  Fate(in, i) \in Fates
<1>1. WawVictim(in.lanes) => Own(in.lanes, 1) \in Nat
  BY OwnIsNumber DEF WawVictim, SameDest, Writes, Lanes, LaneTypes
<1>2. \A f \in {"wrote", "waits", "none"} : [fate |-> f, by |-> {}] \in Fates
  BY DEF Fates
<1>3. WawVictim(in.lanes) => [fate |-> "cut", by |-> {Own(in.lanes, 1)}] \in Fates
  BY <1>1 DEF Fates
<1> QED
  BY <1>2, <1>3 DEF Fate

(* So is what an earlier instruction learns.                                 *)
LEMMA LearnsHasType ==
    ASSUME MarkerTypes, NEW in, in.lanes \in LaneTypes,
           NEW h \in CapHarts, NEW n \in 1..Len(story[h])
    PROVE  Learns(in, h, n) \in Fates
<1> DEFINE mine == {r \in Regs : waiting[h][r] # None /\ waiting[h][r].num = n - 1}
           over == {i \in Lanes : \E r \in mine :
                       Wen(in.lanes, i) /\ in.lanes[i].hart = h /\ in.lanes[i].rd = r}
           by == {Own(in.lanes, i) : i \in over}
<1>1. story[h] \in Seq(Fates) /\ story[h][n] \in Fates
  BY DEF MarkerTypes
<1>2. \A i \in over : i \in Lanes /\ in.lanes[i] \in LaneInputs
  BY DEF Wen, Writes, LaneTypes
<1>3. by \subseteq Nat
  BY <1>2, OwnIsNumber
<1>4. [fate |-> "cut", by |-> by] \in Fates /\ [fate |-> "wrote", by |-> {}] \in Fates
  BY <1>3 DEF Fates
<1> QED
  BY <1>1, <1>4 DEF Learns

(* What is told of the instructions stays a sequence of fates.               *)
LEMMA StoryHasType ==
    ASSUME MarkerTypes, NEW in, in.lanes \in LaneTypes, NEW h \in CapHarts, NEW handed
    PROVE  Judged(StoryNow(in, h), handed) \in Seq(Fates)
<1> DEFINE new(i) == IF in.lanes[i] # None /\ in.lanes[i].hart = h
                     THEN <<Fate(in, i)>> ELSE <<>>
           old == [n \in 1..Len(story[h]) |-> Learns(in, h, n)]
<1>1. old \in Seq(Fates)
  <2>1. Len(story[h]) \in Nat
    BY DEF MarkerTypes
  <2>2. \A n \in 1..Len(story[h]) : Learns(in, h, n) \in Fates
    BY LearnsHasType
  <2> QED
    BY <2>1, <2>2
<1>2. new(0) \in Seq(Fates) /\ new(1) \in Seq(Fates)
  BY FateHasType DEF Lanes
<1>3. StoryNow(in, h) \in Seq(Fates)
  <2> HIDE DEF old, new
  <2>1. StoryNow(in, h) = old \o new(0) \o new(1)
    BY DEF StoryNow, old, new
  <2> QED
    BY <1>1, <1>2, <2>1
<1> DEFINE told == StoryNow(in, h)
<1> HIDE DEF told
<1>4. told \in Seq(Fates) /\ Len(told) \in Nat
  BY <1>3 DEF told
<1> DEFINE mine(n) == {rec \in handed : rec.num = n - 1}
           next(n) == IF mine(n) = {} THEN told[n]
                      ELSE [by |-> {},
                            fate |-> IF Cardinality(mine(n)) = 1
                                        /\ \A rec \in mine(n) : Tells(rec, told[n])
                                     THEN "recorded" ELSE "misrecorded"]
<1>5. ASSUME NEW n \in 1..Len(told) PROVE next(n) \in Fates
  <2>1. told[n] \in Fates
    BY <1>4
  <2>2. /\ [by |-> {}, fate |-> "recorded"] \in Fates
        /\ [by |-> {}, fate |-> "misrecorded"] \in Fates
    BY DEF Fates
  <2> QED
    BY <2>1, <2>2
<1>6. Judged(told, handed) = [n \in 1..Len(told) |-> next(n)]
  BY DEF Judged
<1> HIDE DEF next
<1> QED
  BY <1>4, <1>5, <1>6 DEF told

-----------------------------------------------------------------------------
(* Nothing is stored at first.                                               *)
LEMMA MarkerStarts == CaptureInit => MarkerInv
BY DEF CaptureInit, MarkerInv, MarkerTypes, FromMarkers

(* A hart that has parked stays so, and one that stores the marker parks;    *)
(* one that stores another value at its address is remembered.               *)
LEMMA ParksForGood ==
    ASSUME MarkerTypes, NEW in, in.lanes \in LaneTypes, CoreStep(in)
    PROVE  /\ parked' \in [CapHarts -> Nat \cup {None}]
           /\ strayed' \subseteq CapHarts
           /\ \A h \in CapHarts : Marks(h) => MarksNext(h)
           /\ \A i \in Lanes, h \in CapHarts :
                 in.lanes[i] = [hart |-> h, kind |-> "marker"] => MarksNext(h)
           /\ \A i \in Lanes, h \in CapHarts :
                 in.lanes[i] = [hart |-> h, kind |-> "addr"] => MarksNext(h)
<1> DEFINE marks(i, h) == in.lanes[i] = [hart |-> h, kind |-> "marker"]
           first(h) == CHOOSE i \in Lanes : marks(i, h)
<1>1. parked' = [h \in CapHarts |->
          IF \E i \in Lanes : marks(i, h) THEN Own(in.lanes, first(h)) ELSE parked[h]]
  BY DEF CoreStep
<1>2. None \notin Nat
  BY CaptureAssumption DEF CaptureAssumption
<1>3. ASSUME NEW h \in CapHarts, \E i \in Lanes : marks(i, h)
      PROVE  Own(in.lanes, first(h)) \in Nat
  <2>1. marks(first(h), h)
    BY <1>3
  <2>2. in.lanes[first(h)] \in LaneInputs
    BY <2>1 DEF LaneInputs
  <2> QED
    BY <2>2, OwnIsNumber
<1>4. strayed' = strayed \cup {h \in CapHarts :
                    \E i \in Lanes : in.lanes[i] = [hart |-> h, kind |-> "addr"]}
  BY DEF CoreStep
<1> HIDE DEF first
<1>5. /\ parked' \in [CapHarts -> Nat \cup {None}]
      /\ \A h \in CapHarts : parked[h] # None => parked'[h] # None
      /\ \A i \in Lanes, h \in CapHarts : marks(i, h) => parked'[h] # None
  BY <1>1, <1>2, <1>3 DEF MarkerTypes
<1> QED
  BY <1>4, <1>5 DEF Parked, Marks, MarksNext, MarkerTypes

(* What is left of the store at the head comes from the same hart.           *)
LEMMA StoresFromMarkers ==
    ASSUME MarkerInv, NEW in, in.lanes \in LaneTypes, CoreStep(in),
           in.aw \in BOOLEAN, in.w \in BOOLEAN
    PROVE  /\ stores' \in Seq(StoreTypes)
           /\ \A i \in 1..Len(stores') : stores'[i].addr => MarksNext(stores'[i].hart)
<1> DEFINE Good == {s \in StoreTypes : s.addr => MarksNext(s.hart)}
           s1 == [Head(stores) EXCEPT !.aw = @ \/ in.aw, !.w = @ \/ in.w]
           left == IF stores = <<>> THEN <<>>
                   ELSE IF s1.aw /\ s1.w THEN Tail(stores) ELSE <<s1>> \o Tail(stores)
           sent(i) == IF ~Stores(in.lanes[i]) THEN <<>>
                      ELSE <<[hart |-> in.lanes[i].hart, aw |-> FALSE, w |-> FALSE,
                              addr |-> in.lanes[i].kind # "data",
                              data |-> in.lanes[i].kind # "addr"]>>
<1>1. stores' = left \o sent(0) \o sent(1)
  BY DEF CoreStep
<1>2. stores \in Seq(Good)
  <2>1. \A i \in 1..Len(stores) : stores[i] \in StoreTypes /\ stores[i].hart \in CapHarts
    <3>1. \A i \in 1..Len(stores) : stores[i] \in StoreTypes
      BY DEF MarkerInv, MarkerTypes
    <3> QED
      BY <3>1 DEF StoreTypes
  <2>2. \A i \in 1..Len(stores) : stores[i] \in Good
    BY <2>1, ParksForGood DEF MarkerInv, FromMarkers
  <2> QED
    BY <2>2 DEF MarkerInv, MarkerTypes
<1>3. left \in Seq(Good)
  <2>1. stores # <<>> => Head(stores) \in Good /\ Tail(stores) \in Seq(Good)
    BY <1>2
  <2>2. ASSUME stores # <<>> PROVE s1 \in Good
    <3>1. Head(stores) \in StoreTypes
      BY <2>1, <2>2
    <3>2. s1 \in StoreTypes /\ s1.addr = Head(stores).addr /\ s1.hart = Head(stores).hart
      BY <3>1 DEF StoreTypes
    <3> QED
      BY <2>1, <2>2, <3>2
  <2> HIDE DEF s1, Good
  <2>3. stores # <<>> => <<s1>> \o Tail(stores) \in Seq(Good)
    BY <2>1, <2>2
  <2> QED
    BY <2>1, <2>3
<1>4. ASSUME NEW i \in Lanes, Stores(in.lanes[i])
      PROVE  [hart |-> in.lanes[i].hart, aw |-> FALSE, w |-> FALSE,
              addr |-> in.lanes[i].kind # "data",
              data |-> in.lanes[i].kind # "addr"] \in Good
  <2>1. in.lanes[i] \in LaneInputs /\ in.lanes[i].hart \in CapHarts
    BY <1>4 DEF Stores, LaneTypes, LaneInputs
  <2>2. in.lanes[i].kind # "data" =>
            \/ in.lanes[i] = [hart |-> in.lanes[i].hart, kind |-> "marker"]
            \/ in.lanes[i] = [hart |-> in.lanes[i].hart, kind |-> "addr"]
    BY <1>4, <2>1 DEF LaneInputs, Stores
  <2>3. in.lanes[i].kind # "data" => MarksNext(in.lanes[i].hart)
    BY <2>1, <2>2, ParksForGood DEF MarkerInv
  <2> QED
    BY <2>1, <2>3 DEF StoreTypes
<1>5. sent(0) \in Seq(Good) /\ sent(1) \in Seq(Good)
  <2> HIDE DEF Good
  <2> QED
    BY <1>4 DEF Lanes
<1>6. stores' \in Seq(Good)
  <2> HIDE DEF Good, left, sent
  <2> QED
    BY <1>1, <1>3, <1>5
<1> QED
  BY <1>6

(* The marker registers, in the same cycle.                                  *)
LEMMA StopsKeep ==
    ASSUME MarkerInv, NEW in, in.lanes \in LaneTypes, CoreStep(in), MarkerStep(in),
           in.aw \in BOOLEAN, in.w \in BOOLEAN, in.aw \/ in.w => stores # <<>>
    PROVE  /\ marker' \in [addr : BOOLEAN, data : BOOLEAN, hart : CapHarts \cup {None}]
           /\ stopped' \subseteq CapHarts
           /\ marker'.addr => marker'.hart \in CapHarts /\ MarksNext(marker'.hart)
           /\ \A h \in stopped' : MarksNext(h)
<1>1. MarkerAddr(in) =>
          /\ Head(stores).hart \in CapHarts /\ MarksNext(Head(stores).hart)
          /\ Head(stores) \in StoreTypes
  <2> SUFFICES ASSUME MarkerAddr(in)
               PROVE  /\ Head(stores).hart \in CapHarts /\ MarksNext(Head(stores).hart)
                      /\ Head(stores) \in StoreTypes
    OBVIOUS
  <2>1. stores # <<>> /\ stores \in Seq(StoreTypes) /\ Head(stores).addr
    BY DEF MarkerAddr, MarkerInv, MarkerTypes
  <2>2. Head(stores) = stores[1] /\ 1 \in 1..Len(stores) /\ stores[1] \in StoreTypes
    BY <2>1
  <2>3. Marks(stores[1].hart) /\ stores[1].hart \in CapHarts
    BY <2>1, <2>2 DEF MarkerInv, FromMarkers, StoreTypes
  <2> QED
    BY <2>2, <2>3, ParksForGood DEF MarkerInv
<1>2. MarkerAddr(in) \in BOOLEAN /\ MarkerData(in) \in BOOLEAN
  <2>1. in.w => Head(stores) \in StoreTypes
    BY DEF MarkerInv, MarkerTypes
  <2> QED
    BY <1>1, <2>1 DEF MarkerAddr, MarkerData, StoreTypes
<1>3. marker.addr => marker.hart \in CapHarts /\ MarksNext(marker.hart)
  BY ParksForGood DEF MarkerInv, FromMarkers
<1>4. \A h \in stopped : h \in CapHarts /\ MarksNext(h)
  BY ParksForGood DEF MarkerInv, MarkerTypes, FromMarkers
<1>5. marker \in [addr : BOOLEAN, data : BOOLEAN, hart : CapHarts \cup {None}]
  BY DEF MarkerInv, MarkerTypes
<1>6. MarkerEvent(in) => MarkerHart(in) \in CapHarts /\ MarksNext(MarkerHart(in))
  BY <1>1, <1>3 DEF MarkerEvent, MarkerHart
<1>7. stopped' \subseteq CapHarts /\ \A h \in stopped' : MarksNext(h)
  BY <1>4, <1>6 DEF MarkerStep, StoppedNext
<1>8. CASE MarkerEvent(in)
  BY <1>5, <1>7, <1>8 DEF MarkerStep
<1>9. CASE ~MarkerEvent(in)
  <2>1. marker' = [addr |-> marker.addr \/ MarkerAddr(in), data |-> marker.data \/ MarkerData(in),
                   hart |-> IF MarkerAddr(in) THEN Head(stores).hart ELSE marker.hart]
    BY <1>9 DEF MarkerStep
  <2>2. MarkerAddr(in) \/ marker.addr =>
            LET h == IF MarkerAddr(in) THEN Head(stores).hart ELSE marker.hart
            IN  h \in CapHarts /\ MarksNext(h)
    BY <1>1, <1>3
  <2> QED
    BY <1>1, <1>2, <1>5, <1>7, <2>1, <2>2
<1> QED
  BY <1>8, <1>9

(* A cycle of the capture block.                                             *)
LEMMA CaptureEdgeKeeps ==
    ASSUME MarkerInv, NEW in, Legal(in), Step(in)
    PROVE  MarkerInv'
<1>1. in.lanes \in LaneTypes /\ in.aw \in BOOLEAN /\ in.w \in BOOLEAN /\ (in.aw \/ in.w => stores # <<>>)
  BY DEF Legal
<1>2. CoreStep(in) /\ MarkerStep(in) /\ BankStep(in)
  BY DEF Step
<1>3. story' \in [CapHarts -> Seq(Fates)]
  <2>1. story' = [h \in CapHarts |-> Judged(StoryNow(in, h), Handed(in, h))]
    BY <1>2 DEF BankStep
  <2> QED
    BY <1>1, <2>1, StoryHasType DEF MarkerInv
<1>4. /\ parked' \in [CapHarts -> Nat \cup {None}]
      /\ strayed' \subseteq CapHarts
      /\ stores' \in Seq(StoreTypes)
      /\ \A i \in 1..Len(stores') : stores'[i].addr => MarksNext(stores'[i].hart)
  BY <1>1, <1>2, ParksForGood, StoresFromMarkers DEF MarkerInv
<1>5. /\ marker' \in [addr : BOOLEAN, data : BOOLEAN, hart : CapHarts \cup {None}]
      /\ stopped' \subseteq CapHarts
      /\ marker'.addr => marker'.hart \in CapHarts /\ MarksNext(marker'.hart)
      /\ \A h \in stopped' : MarksNext(h)
  BY <1>1, <1>2, StopsKeep
<1> QED
  BY <1>3, <1>4, <1>5 DEF MarkerInv, MarkerTypes, FromMarkers, Parked, Marks, MarksNext

-----------------------------------------------------------------------------
(* In every state what stops a hart comes from that hart.                    *)
THEOREM MarkerInvariant == CaptureSpec => []MarkerInv
<1>1. MarkerInv /\ UNCHANGED captureVars => MarkerInv'
  BY DEF MarkerInv, MarkerTypes, FromMarkers, Parked, Marks, captureVars, coreVars, bankVars
<1>2. MarkerInv /\ [CaptureEdge]_captureVars => MarkerInv'
  BY <1>1, EdgeIsLegal, CaptureEdgeKeeps
<1> QED
  BY MarkerStarts, <1>2, PTL DEF CaptureSpec

-----------------------------------------------------------------------------
(* The state of a hart's bank and of the core that faces it.                 *)
BankTypes(h) ==
    /\ waiting[h] \in [Regs -> WaitTypes \cup {None}]
    /\ nb[h] \in [Regs -> LateTypes \cup {None}]
    /\ emit[h] \in [Regs -> RecordTypes \cup {None}]
    /\ nextSequence[h] \in Nat
    /\ generated[h] \in Nat
    /\ errors[h] \subseteq {"overflow", "conflict", "waw"}

(* What became of the instruction with a number.                             *)
FateOf(h, num) == story[h][num + 1]

(* A running hart's instructions all have numbers; one that stopped got past *)
(* the number of its marker store.                                           *)
Numbered(h) ==
    /\ nextSequence[h] <= Len(story[h])
    /\ h \notin stopped => nextSequence[h] = Len(story[h])
    /\ parked[h] # None => parked[h] < nextSequence[h]

(* The core waits for exactly the results the bank waits for.                *)
InStep(h) ==
    \A r \in Regs :
        /\ waiting[h][r] # None <=> nb[h][r] # None /\ ~nb[h][r].resolved
        /\ waiting[h][r] # None =>
              /\ nb[h][r].rec.num = waiting[h][r].num
              /\ nb[h][r].kind = waiting[h][r].kind
              /\ nb[h][r].rec.end = "gpr"
              /\ FateOf(h, waiting[h][r].num).fate = "waits"

(* Every other record in a place is final and true.                          *)
TrueRecords(h) ==
    \A r \in Regs :
        /\ nb[h][r] # None /\ nb[h][r].resolved =>
              Tells(nb[h][r].rec, FateOf(h, nb[h][r].rec.num))
        /\ emit[h][r] # None => Tells(emit[h][r], FateOf(h, emit[h][r].num))

(* The places of the bank and the numbers of the records in them.            *)
NbNum(h, r) == nb[h][r].rec.num
OnePlace(h) ==
    /\ \A r \in Regs :
          /\ nb[h][r] # None => NbNum(h, r) < nextSequence[h]
          /\ emit[h][r] # None => emit[h][r].num < nextSequence[h]
          /\ nb[h][r] # None /\ emit[h][r] # None => NbNum(h, r) # emit[h][r].num
    /\ \A r, q \in Regs : r # q =>
          /\ nb[h][r] # None /\ nb[h][q] # None => NbNum(h, r) # NbNum(h, q)
          /\ emit[h][r] # None /\ emit[h][q] # None => emit[h][r].num # emit[h][q].num
          /\ nb[h][r] # None /\ emit[h][q] # None => NbNum(h, r) # emit[h][q].num

(* A number that has its record in one of the places.                        *)
Placed(h, num) == \E r \in Regs : \/ nb[h][r] # None /\ NbNum(h, r) = num
                                  \/ emit[h][r] # None /\ emit[h][r].num = num

(* What has been handed over, once and truly; everything else that was       *)
(* numbered has a place.                                                     *)
RecordedOf(h) == {n \in 1..Len(story[h]) : story[h][n].fate = "recorded"}
NoneLost(h) ==
    /\ \A n \in 1..Len(story[h]) : story[h][n].fate # "misrecorded"
    /\ \A n \in 1..Len(story[h]) :
          Placed(h, n - 1) <=> n <= nextSequence[h] /\ n \notin RecordedOf(h)
    /\ RecordedOf(h) \subseteq 1..nextSequence[h]
    /\ generated[h] = Cardinality(RecordedOf(h))

(* What holds of a hart that has set none of its error bits.                 *)
Sound(h) == Numbered(h) /\ InStep(h) /\ TrueRecords(h) /\ OnePlace(h) /\ NoneLost(h)

(* No hart has more numbers than instructions.                               *)
Behind(h) == nextSequence[h] \in Nat /\ nextSequence[h] <= Len(story[h])

CaptureInv ==
    /\ MarkerInv
    /\ \A h \in CapHarts : Behind(h)
    /\ \A h \in CapHarts : Misled(h) => h \in strayed
    /\ \A h \in CapHarts : ~Misled(h) =>
          /\ BankTypes(h)
          /\ errors[h] = {} => Sound(h)
          /\ errors[h] # {} => \/ refused
                              \/ /\ errors[h] = {"conflict"}
                                 /\ Cardinality(Regs) >= RecordSlots

-----------------------------------------------------------------------------
(* The lanes in which a hart retires something in this cycle.                *)
LanesOf(in, h) == {i \in Lanes : in.lanes[i] # None /\ in.lanes[i].hart = h}

(* A hart that is stopped or stops in this cycle parked in an earlier one or *)
(* strayed.                                                                  *)
LEMMA StopperMarked ==
    ASSUME MarkerInv, NEW in, Legal(in), NEW h \in StoppedNext(in)
    PROVE  h \in CapHarts /\ Marks(h)
<1>1. CASE h \in stopped
  BY <1>1 DEF MarkerInv, MarkerTypes, FromMarkers
<1>2. CASE h \notin stopped
  <2>1. MarkerEvent(in) /\ h = MarkerHart(in)
    BY <1>2 DEF StoppedNext
  <2>2. CASE MarkerAddr(in)
    <3>1. stores # <<>> /\ Head(stores).addr /\ stores \in Seq(StoreTypes)
      BY <2>2 DEF MarkerAddr, Legal, MarkerInv, MarkerTypes
    <3>2. Head(stores) = stores[1] /\ 1 \in 1..Len(stores) /\ stores[1] \in StoreTypes
      BY <3>1
    <3>3. Marks(stores[1].hart) /\ stores[1].hart \in CapHarts
      BY <3>1, <3>2 DEF MarkerInv, FromMarkers, StoreTypes
    <3> QED
      BY <2>1, <2>2, <3>2, <3>3 DEF MarkerHart
  <2>3. CASE ~MarkerAddr(in)
    BY <2>1, <2>3 DEF MarkerEvent, MarkerHart, MarkerInv, FromMarkers
  <2> QED
    BY <2>2, <2>3
<1> QED
  BY <1>1, <1>2

(* The hart is not misled in this cycle: if it is stopped, it has parked.    *)
Led(in, h) == h \in StoppedNext(in) => Parked(h)

(* What a parked hart retires is looked at or not, anything else is.         *)
LEMMA WorkersRun ==
    ASSUME NEW in, Legal(in), NEW i \in Lanes, in.lanes[i] # None,
           in.lanes[i].kind # "other", Led(in, in.lanes[i].hart)
    PROVE  /\ in.lanes[i].hart \in CapHarts /\ ~Parked(in.lanes[i].hart)
           /\ in.lanes[i].hart \notin StoppedNext(in) /\ in.lanes[i].hart \notin stopped
           /\ Processed(in, i)
<1>1. in.lanes[i] \in LaneInputs /\ ~Parked(in.lanes[i].hart)
  BY DEF Legal, LaneTypes
<1>2. in.lanes[i].hart \in CapHarts
  BY <1>1 DEF LaneInputs
<1>3. in.lanes[i].hart \notin StoppedNext(in)
  BY <1>1 DEF Led
<1> QED
  BY <1>1, <1>2, <1>3 DEF Processed, StoppedNext

(* The numbers of the instructions a hart retires in one cycle.              *)
LEMMA OwnNumbers ==
    ASSUME MarkerTypes, NEW in, in.lanes \in LaneTypes, NEW h \in CapHarts
    PROVE  /\ Len(story[h]) \in Nat
           /\ LanesOf(in, h) \subseteq {0, 1}
           /\ 0 \in LanesOf(in, h) => Own(in.lanes, 0) = Len(story[h])
           /\ 1 \in LanesOf(in, h) /\ 0 \in LanesOf(in, h) =>
                 Own(in.lanes, 1) = Len(story[h]) + 1
           /\ 1 \in LanesOf(in, h) /\ 0 \notin LanesOf(in, h) =>
                 Own(in.lanes, 1) = Len(story[h])
<1>1. Len(story[h]) \in Nat
  BY DEF MarkerTypes
<1>2. 0 \in LanesOf(in, h) <=> in.lanes[0] # None /\ in.lanes[0].hart = h
  BY DEF LanesOf, Lanes
<1>3. 1 \in LanesOf(in, h) <=> in.lanes[1] # None /\ in.lanes[1].hart = h
  BY DEF LanesOf, Lanes
<1>4. LanesOf(in, h) \subseteq {0, 1}
  BY DEF LanesOf, Lanes
<1>5. 0 \in LanesOf(in, h) => Own(in.lanes, 0) = Len(story[h])
  BY <1>1, <1>2 DEF Own
<1>6. 1 \in LanesOf(in, h) /\ 0 \in LanesOf(in, h) =>
        Own(in.lanes, 1) = Len(story[h]) + 1
  BY <1>1, <1>2, <1>3 DEF Own
<1>7. ASSUME 1 \in LanesOf(in, h), 0 \notin LanesOf(in, h)
      PROVE  Own(in.lanes, 1) = Len(story[h])
  <2>1. in.lanes[1].hart = h /\ ~(in.lanes[0] # None /\ in.lanes[0].hart = h)
    BY <1>2, <1>3, <1>7
  <2>2. Own(in.lanes, 1) = Len(story[h]) + 0
    BY <2>1 DEF Own
  <2> QED
    BY <1>1, <2>2
<1> QED
  BY <1>1, <1>4, <1>5, <1>6, <1>7

(* The lanes of a hart are looked at together or not at all.                 *)
LEMMA ProcessedLanes ==
    ASSUME NEW in, NEW h
    PROVE  ProcessedOf(in, h) = IF h \in StoppedNext(in) THEN {} ELSE LanesOf(in, h)
BY DEF ProcessedOf, Processed, LanesOf

(* The capture block gives an instruction its own number.                    *)
LEMMA SequenceIsOwn ==
    ASSUME MarkerInv, NEW in, Legal(in), NEW h \in CapHarts, Numbered(h),
           NEW i \in ProcessedOf(in, h)
    PROVE  LaneSequence(in, i) = Own(in.lanes, i)
<1>1. /\ h \notin StoppedNext(in) /\ i \in LanesOf(in, h)
      /\ ProcessedOf(in, h) = LanesOf(in, h)
  BY ProcessedLanes
<1>2. nextSequence[h] = Len(story[h])
  BY <1>1 DEF StoppedNext, Numbered
<1>3. in.lanes[i].hart = h /\ i \in {0, 1}
  BY <1>1 DEF LanesOf, Lanes
<1>4. in.lanes \in LaneTypes /\ MarkerTypes
  BY DEF Legal, MarkerInv
<1>5. /\ Len(story[h]) \in Nat
      /\ 0 \in LanesOf(in, h) => Own(in.lanes, 0) = Len(story[h])
      /\ 1 \in LanesOf(in, h) /\ 0 \in LanesOf(in, h) =>
            Own(in.lanes, 1) = Len(story[h]) + 1
      /\ 1 \in LanesOf(in, h) /\ 0 \notin LanesOf(in, h) =>
            Own(in.lanes, 1) = Len(story[h])
  BY <1>4, OwnNumbers
<1>6. CASE i = 0
  BY <1>1, <1>2, <1>3, <1>5, <1>6 DEF LaneSequence
<1>7. CASE i = 1
  BY <1>1, <1>2, <1>3, <1>5, <1>7 DEF LaneSequence
<1> QED
  BY <1>3, <1>6, <1>7

(* One hart in a cycle; it may go on if the cycle sets none of its errors.   *)
Fine(in, h) ==
    /\ MarkerInv /\ Legal(in) /\ h \in CapHarts /\ Led(in, h)
    /\ BankTypes(h) /\ Sound(h)
GoesOn(in, h) == Fine(in, h) /\ NewErrors(in, h) = {}

(* A result is the one its register waits for, if no lane writes that        *)
(* register, or that of the divide which is at write-back itself.            *)
LEMMA ArrivalCases ==
    ASSUME NEW in, Legal(in), NEW h, NEW r, NEW k \in {"load", "div"}, Arrives(in, k, h, r)
    PROVE  \/ /\ ~Hits(in.lanes, h, r)
              /\ waiting[h][r] # None /\ waiting[h][r].kind = k
              /\ in[k].num = waiting[h][r].num
           \/ /\ Hits(in.lanes, h, r)
              /\ k = "div" /\ in.lanes[0] # None /\ in.lanes[0].kind = "div"
              /\ in[k].num = Own(in.lanes, 0)
<1>1. in[k] \in Arrivals(in.lanes, k) /\ in[k] # None /\ in[k].hart = h /\ in[k].rd = r
  BY DEF Arrives, Legal
<1>2. CASE in[k] \in {[hart |-> p[1], rd |-> p[2], num |-> waiting[p[1]][p[2]].num] :
             p \in {q \in PendingKind(k) : ~Hits(in.lanes, q[1], q[2])}}
  <2>1. PICK p \in PendingKind(k) :
           /\ in[k] = [hart |-> p[1], rd |-> p[2], num |-> waiting[p[1]][p[2]].num]
           /\ ~Hits(in.lanes, p[1], p[2])
    BY <1>2
  <2>2. p[1] = h /\ p[2] = r /\ in[k].num = waiting[p[1]][p[2]].num
    BY <1>1, <2>1
  <2> QED
    BY <2>1, <2>2 DEF PendingKind, PendingPairs
<1>3. CASE /\ k = "div" /\ in.lanes[0] # None /\ in.lanes[0].kind = "div"
           /\ ~SameDest(in.lanes)
           /\ in[k] = [hart |-> in.lanes[0].hart, rd |-> in.lanes[0].rd,
                       num |-> Own(in.lanes, 0)]
  <2>1. Wen(in.lanes, 0) /\ in.lanes[0].hart = h /\ in.lanes[0].rd = r
    BY <1>1, <1>3 DEF Wen, Writes
  <2>2. Hits(in.lanes, h, r)
    BY <2>1 DEF Hits, Lanes
  <2> QED
    BY <1>3, <2>2
<1> QED
  BY <1>1, <1>2, <1>3 DEF Arrivals

(* A lane that takes a place in the bank is one whose result is awaited; any *)
(* other record goes out at once and tells what became of its instruction.   *)
LEMMA LaneFates ==
    ASSUME NEW in, NEW h, Fine(in, h), NEW i \in LanesOf(in, h)
    PROVE  /\ Allocates(in, i) <=> Fate(in, i).fate = "waits"
           /\ Allocates(in, i) => LaneRecord(in, i) = Record(Own(in.lanes, i), "gpr", None)
           /\ i \in Direct(in, h) => /\ LaneRecord(in, i).num = Own(in.lanes, i)
                                     /\ Tells(LaneRecord(in, i), Fate(in, i))
<1> DEFINE lane == in.lanes[i]
<1>1. /\ i \in Lanes /\ lane # None /\ lane.hart = h /\ lane \in LaneInputs
      /\ in.lanes \in LaneTypes /\ h \in CapHarts
  BY DEF LanesOf, Fine, Legal, LaneTypes
<1>2. ASSUME NEW j \in Lanes, in.lanes[j] # None, in.lanes[j].kind # "other",
             in.lanes[j].hart = h
      PROVE  Processed(in, j) /\ LaneSequence(in, j) = Own(in.lanes, j)
  <2>1. Processed(in, j)
    BY <1>2, WorkersRun DEF Fine
  <2>2. j \in ProcessedOf(in, h)
    BY <1>2, <2>1 DEF ProcessedOf
  <2> QED
    BY <2>1, <2>2, SequenceIsOwn DEF Fine, Sound
<1>3. i \in ProcessedOf(in, h) => LaneSequence(in, i) = Own(in.lanes, i)
  BY SequenceIsOwn DEF Fine, Sound
<1>4. Allocates(in, i) => i \in ProcessedOf(in, h)
  BY <1>1 DEF Allocates, ProcessedOf
<1>5. Allocates(in, i) => LaneRecord(in, i) = Record(Own(in.lanes, i), "gpr", None)
  BY <1>3, <1>4 DEF Allocates, LaneRecord, Nonblock, Writes
<1>6. i \in Direct(in, h) => i \in ProcessedOf(in, h) /\ ~Allocates(in, i)
  BY DEF Direct
<1>7. CASE i = 0 /\ WawVictim(in.lanes)
  <2>1. 1 \in Lanes /\ in.lanes[1] # None /\ in.lanes[1].kind # "other" /\ in.lanes[1].hart = h
    BY <1>1, <1>7 DEF WawVictim, SameDest, Writes, Lanes
  <2>2. Fate(in, i) = [fate |-> "cut", by |-> {Own(in.lanes, 1)}]
    BY <1>7 DEF Fate
  <2>3. LaneRecord(in, i) = Record(LaneSequence(in, i), "direct", LaneSequence(in, 1))
    BY <1>7 DEF LaneRecord
  <2>4. LaneSequence(in, 1) = Own(in.lanes, 1)
    BY <1>2, <2>1
  <2>5. ~Allocates(in, i)
    BY <1>7 DEF Allocates
  <2> QED
    BY <1>3, <1>6, <2>2, <2>3, <2>4, <2>5 DEF Record, Tells
<1>8. CASE ~(i = 0 /\ WawVictim(in.lanes)) /\ lane.kind = "alu"
  <2>1. Fate(in, i) = [fate |-> "wrote", by |-> {}]
    BY <1>8 DEF Fate
  <2>2. ~Nonblock(lane) /\ Writes(lane) /\ ~Allocates(in, i)
    BY <1>1, <1>8 DEF Nonblock, Writes, Allocates
  <2>3. LaneRecord(in, i) = Record(LaneSequence(in, i), "gpr", Own(in.lanes, i))
    BY <1>8, <2>2 DEF LaneRecord, SameCycleReturn
  <2> QED
    BY <1>3, <1>6, <2>1, <2>2, <2>3 DEF Record, Tells
<1>9. CASE ~(i = 0 /\ WawVictim(in.lanes)) /\ Nonblock(lane) /\ SameCycleReturn(in, i)
  <2>1. lane.kind \in {"load", "div"} /\ lane.kind # "alu" /\ Writes(lane)
    BY <1>9 DEF Nonblock, Writes
  <2>2. Arrives(in, lane.kind, h, lane.rd)
    BY <1>1, <1>9 DEF SameCycleReturn
  <2>3. Fate(in, i) = [fate |-> "wrote", by |-> {}]
    BY <1>1, <1>9, <2>1, <2>2 DEF Fate
  <2>4. LaneRecord(in, i) = Record(LaneSequence(in, i), "gpr", in[lane.kind].num)
    BY <1>9 DEF LaneRecord
  <2>5. Hits(in.lanes, h, lane.rd)
    <3>1. Wen(in.lanes, i)
      BY <1>9, <2>1 DEF Wen, WawVictim
    <3> QED
      BY <1>1, <3>1 DEF Hits
  <2>6. in[lane.kind].num = Own(in.lanes, i)
    <3>1. lane.kind = "div" /\ in[lane.kind].num = Own(in.lanes, 0)
      BY <2>1, <2>2, <2>5, ArrivalCases DEF Fine
    <3>2. i = 0
      BY <1>1, <3>1 DEF Fine, Legal, Lanes
    <3> QED
      BY <3>1, <3>2
  <2>7. ~Allocates(in, i)
    BY <1>9 DEF Allocates
  <2> QED
    BY <1>3, <1>6, <2>3, <2>4, <2>6, <2>7 DEF Record, Tells
<1>10. CASE ~(i = 0 /\ WawVictim(in.lanes)) /\ Nonblock(lane) /\ ~SameCycleReturn(in, i)
  <2>1. lane.kind # "alu" /\ lane.kind # "other"
    BY <1>10 DEF Nonblock
  <2>2. Fate(in, i).fate = "waits"
    BY <1>1, <1>10, <2>1 DEF Fate, SameCycleReturn
  <2>3. Allocates(in, i)
    BY <1>1, <1>2, <1>10, <2>1 DEF Allocates
  <2> QED
    BY <1>5, <1>6, <2>2, <2>3
<1>11. CASE ~Writes(lane)
  <2>1. ~Nonblock(lane) /\ lane.kind # "alu" /\ ~(i = 0 /\ WawVictim(in.lanes))
    BY <1>1, <1>11 DEF Nonblock, Writes, WawVictim, SameDest
  <2>2. Fate(in, i) = [fate |-> "none", by |-> {}] /\ ~Allocates(in, i)
    BY <2>1 DEF Fate, Allocates
  <2>3. LaneRecord(in, i) = Record(LaneSequence(in, i), "none", None)
    BY <1>11, <2>1 DEF LaneRecord, SameCycleReturn
  <2> QED
    BY <1>3, <1>6, <2>2, <2>3 DEF Record, Tells
<1> QED
  BY <1>1, <1>7, <1>8, <1>9, <1>10, <1>11 DEF Writes, Nonblock

-----------------------------------------------------------------------------
(* A record is cancelled by the lanes that write its register.               *)
LEMMA CancelIs ==
    ASSUME NEW in, Legal(in), NEW h \in CapHarts, NEW r \in Regs
    PROVE  /\ in.cancel[h][r] = {i \in Lanes : /\ waiting[h][r] # None
                                               /\ Wen(in.lanes, i)
                                               /\ in.lanes[i].hart = h
                                               /\ in.lanes[i].rd = r}
           /\ in.cancel[h][r] # {} <=> waiting[h][r] # None /\ Hits(in.lanes, h, r)
<1>1. in.cancel[h][r] = Cancellers(in, h, r)
  BY DEF Legal
<1>2. Cancellers(in, h, r) = {i \in Lanes : /\ waiting[h][r] # None
                                            /\ Wen(in.lanes, i)
                                            /\ in.lanes[i].hart = h
                                            /\ in.lanes[i].rd = r}
  BY DEF Cancellers, NbWaw
<1> QED
  BY <1>1, <1>2 DEF Hits

(* What an instruction of an earlier cycle learns.                           *)
LEMMA LearnsOther ==
    ASSUME NEW in, NEW h, Fine(in, h), NEW n \in 1..Len(story[h]),
           \A r \in Regs : waiting[h][r] # None => waiting[h][r].num # n - 1
    PROVE  Learns(in, h, n) = story[h][n]
<1> DEFINE mine == {r \in Regs : waiting[h][r] # None /\ waiting[h][r].num = n - 1}
<1>1. mine = {}
  OBVIOUS
<1> QED
  BY <1>1 DEF Learns

(* What the core waits for is an instruction of an earlier cycle, and one    *)
(* register waits for it.                                                    *)
LEMMA WaitingFacts ==
    ASSUME NEW in, NEW h, Fine(in, h), NEW r \in Regs, waiting[h][r] # None
    PROVE  /\ waiting[h][r].num \in Nat /\ waiting[h][r].kind \in {"load", "div"}
           /\ waiting[h][r].num + 1 \in 1..Len(story[h])
           /\ story[h][waiting[h][r].num + 1].fate = "waits"
           /\ \A q \in Regs : waiting[h][q] # None /\ waiting[h][q].num = waiting[h][r].num
                                => q = r
<1>1. waiting[h][r] \in WaitTypes /\ nextSequence[h] \in Nat /\ Len(story[h]) \in Nat
  BY DEF Fine, BankTypes, MarkerInv, MarkerTypes
<1>2. /\ nb[h][r] # None /\ NbNum(h, r) = waiting[h][r].num
      /\ FateOf(h, waiting[h][r].num).fate = "waits"
  BY DEF Fine, Sound, InStep, NbNum
<1>3. waiting[h][r].num < nextSequence[h] /\ nextSequence[h] <= Len(story[h])
  BY <1>2 DEF Fine, Sound, OnePlace, Numbered
<1>4. waiting[h][r].num \in Nat /\ waiting[h][r].kind \in {"load", "div"}
  BY <1>1 DEF WaitTypes
<1>5. ASSUME NEW q \in Regs, waiting[h][q] # None, waiting[h][q].num = waiting[h][r].num
      PROVE  q = r
  <2>1. nb[h][q] # None /\ NbNum(h, q) = waiting[h][q].num
    BY <1>5 DEF Fine, Sound, InStep, NbNum
  <2> QED
    BY <1>2, <1>5, <2>1 DEF Fine, Sound, OnePlace
<1>6. waiting[h][r].num + 1 \in 1..Len(story[h])
  BY <1>1, <1>3, <1>4
<1> QED
  BY <1>2, <1>4, <1>5, <1>6 DEF FateOf

(* It is cut short by the lanes that write its register, or it has its       *)
(* result, or it waits on.                                                   *)
LEMMA LearnsWaiting ==
    ASSUME NEW in, NEW h, Fine(in, h), NEW r \in Regs, waiting[h][r] # None
    PROVE  /\ Learns(in, h, waiting[h][r].num + 1) =
                IF in.cancel[h][r] # {}
                THEN [fate |-> "cut", by |-> {Own(in.lanes, i) : i \in in.cancel[h][r]}]
                ELSE IF Arrives(in, waiting[h][r].kind, h, r)
                THEN [fate |-> "wrote", by |-> {}]
                ELSE story[h][waiting[h][r].num + 1]
           /\ Learns(in, h, waiting[h][r].num + 1).fate \in {"cut", "wrote", "waits"}
<1> DEFINE n == waiting[h][r].num + 1
           mine == {q \in Regs : waiting[h][q] # None /\ waiting[h][q].num = n - 1}
           over == {i \in Lanes : \E q \in mine :
                      Wen(in.lanes, i) /\ in.lanes[i].hart = h /\ in.lanes[i].rd = q}
<1>1. n - 1 = waiting[h][r].num
  BY WaitingFacts
<1>2. mine = {r}
  BY <1>1, WaitingFacts
<1>3. over = in.cancel[h][r]
  <2>1. over = {i \in Lanes : Wen(in.lanes, i) /\ in.lanes[i].hart = h /\ in.lanes[i].rd = r}
    BY <1>2
  <2> QED
    BY <2>1, CancelIs DEF Fine
<1>4. Learns(in, h, n) =
         IF over # {}
         THEN [fate |-> "cut", by |-> {Own(in.lanes, i) : i \in over}]
         ELSE IF \E q \in mine : Arrives(in, waiting[h][q].kind, h, q)
         THEN [fate |-> "wrote", by |-> {}]
         ELSE story[h][n]
  BY DEF Learns
<1> HIDE DEF mine, over, n
<1>5. Learns(in, h, n) =
         IF in.cancel[h][r] # {}
         THEN [fate |-> "cut", by |-> {Own(in.lanes, i) : i \in in.cancel[h][r]}]
         ELSE IF Arrives(in, waiting[h][r].kind, h, r)
         THEN [fate |-> "wrote", by |-> {}]
         ELSE story[h][n]
  BY <1>2, <1>3, <1>4
<1>6. Learns(in, h, n).fate \in {"cut", "wrote", "waits"}
  <2>1. story[h][n].fate = "waits"
    BY WaitingFacts DEF n
  <2> DEFINE by == {Own(in.lanes, i) : i \in in.cancel[h][r]}
  <2>2. \/ Learns(in, h, n) = [fate |-> "cut", by |-> by]
        \/ Learns(in, h, n) = [fate |-> "wrote", by |-> {}]
        \/ Learns(in, h, n) = story[h][n]
    BY <1>5
  <2> HIDE DEF by
  <2> QED
    BY <2>1, <2>2
<1> QED
  BY <1>5, <1>6 DEF n

(* What has become of a hart's instructions: first those of earlier cycles,  *)
(* then those of its lanes, each under its own number.                       *)
LEMMA StoryShape ==
    ASSUME NEW in, NEW h \in CapHarts, MarkerTypes, Legal(in)
    PROVE  /\ StoryNow(in, h) \in Seq(Fates)
           /\ Cardinality(LanesOf(in, h)) \in Nat
           /\ Len(StoryNow(in, h)) = Len(story[h]) + Cardinality(LanesOf(in, h))
           /\ \A n \in 1..Len(story[h]) : StoryNow(in, h)[n] = Learns(in, h, n)
           /\ \A i \in LanesOf(in, h) :
                 /\ Own(in.lanes, i) \in Nat
                 /\ Own(in.lanes, i) >= Len(story[h])
                 /\ Own(in.lanes, i) < Len(StoryNow(in, h))
                 /\ StoryNow(in, h)[Own(in.lanes, i) + 1] = Fate(in, i)
                 /\ \A j \in LanesOf(in, h) : Own(in.lanes, i) = Own(in.lanes, j) => i = j
           /\ \A n \in 1..Len(StoryNow(in, h)) :
                 n > Len(story[h]) => \E i \in LanesOf(in, h) : n = Own(in.lanes, i) + 1
<1> DEFINE new(i) == IF in.lanes[i] # None /\ in.lanes[i].hart = h
                     THEN <<Fate(in, i)>> ELSE <<>>
           L == Len(story[h])
           old == [n \in 1..L |-> Learns(in, h, n)]
<1>1. /\ MarkerTypes /\ in.lanes \in LaneTypes /\ h \in CapHarts
  BY DEF Legal
<1>2. L \in Nat
  BY <1>1 DEF MarkerTypes
<1>3. old \in Seq(Fates) /\ Len(old) = L /\ \A n \in 1..L : old[n] = Learns(in, h, n)
  <2>1. \A n \in 1..L : Learns(in, h, n) \in Fates
    BY <1>1, LearnsHasType
  <2> QED
    BY <1>2, <2>1
<1>4. StoryNow(in, h) = old \o new(0) \o new(1)
  BY DEF StoryNow
<1>5. \A i \in LanesOf(in, h) : Fate(in, i) \in Fates
  BY <1>1, FateHasType DEF LanesOf
<1>6. /\ 0 \in LanesOf(in, h) => new(0) = <<Fate(in, 0)>>
      /\ 0 \notin LanesOf(in, h) => new(0) = <<>>
      /\ 1 \in LanesOf(in, h) => new(1) = <<Fate(in, 1)>>
      /\ 1 \notin LanesOf(in, h) => new(1) = <<>>
  BY DEF LanesOf, Lanes
<1>7. /\ LanesOf(in, h) \subseteq {0, 1}
      /\ 0 \in LanesOf(in, h) => Own(in.lanes, 0) = L
      /\ 1 \in LanesOf(in, h) /\ 0 \in LanesOf(in, h) => Own(in.lanes, 1) = L + 1
      /\ 1 \in LanesOf(in, h) /\ 0 \notin LanesOf(in, h) => Own(in.lanes, 1) = L
  BY <1>1, OwnNumbers
<1>8. \A n \in 1..L : Learns(in, h, n) = old[n]
  BY <1>3
<1> DEFINE mine == LanesOf(in, h)
           told == StoryNow(in, h)
           own(i) == Own(in.lanes, i)
           fate(i) == Fate(in, i)
           learns(n) == Learns(in, h, n)
<1> SUFFICES /\ told \in Seq(Fates)
             /\ Cardinality(mine) \in Nat
             /\ Len(told) = L + Cardinality(mine)
             /\ \A n \in 1..L : told[n] = old[n]
             /\ \A i \in mine : /\ own(i) \in Nat /\ own(i) >= L /\ own(i) < Len(told)
                                /\ told[own(i) + 1] = fate(i)
                                /\ \A j \in mine : own(i) = own(j) => i = j
             /\ \A n \in 1..Len(told) : n > L => \E i \in mine : n = own(i) + 1
  BY <1>8
<1> HIDE DEF new, old, L, mine, told, own, fate
<1>9. /\ mine \subseteq {0, 1} /\ told = old \o new(0) \o new(1)
      /\ \A i \in mine : fate(i) \in Fates
  BY <1>4, <1>5, <1>7 DEF mine, told, fate
<1>10. CASE mine = {0, 1}
  <2>1. own(0) = L /\ own(1) = L + 1 /\ new(0) = <<fate(0)>> /\ new(1) = <<fate(1)>>
    BY <1>6, <1>7, <1>10 DEF mine, own, fate
  <2> DEFINE first == Append(old, fate(0))
  <2>a. fate(0) \in Fates /\ fate(1) \in Fates
    BY <1>9, <1>10
  <2>b. old \o <<fate(0)>> = Append(old, fate(0))
    BY ONLY <1>3, <2>a
  <2>2. old \o new(0) = first /\ fate(0) \in Fates /\ fate(1) \in Fates
    BY <2>1, <2>a, <2>b
  <2>3. /\ first \in Seq(Fates) /\ Len(first) = L + 1 /\ first[L + 1] = fate(0)
        /\ \A n \in 1..L : first[n] = old[n]
    BY <1>2, <1>3, <2>2, AppendProperties
  <2> HIDE DEF first
  <2>4. told = Append(first, fate(1))
    <3>1. first \o <<fate(1)>> = Append(first, fate(1))
      BY ONLY <2>2, <2>3
    <3> QED
      BY <1>9, <2>1, <2>2, <3>1
  <2>5. /\ told \in Seq(Fates) /\ Len(told) = Len(first) + 1 /\ told[Len(first) + 1] = fate(1)
        /\ \A n \in 1..Len(first) : told[n] = first[n]
    BY <2>2, <2>3, <2>4, AppendProperties
  <2>6. Cardinality(mine) = 2
    <3>1. Cardinality({0}) = 1 /\ IsFiniteSet({0})
      BY FS_Singleton
    <3>2. Cardinality({0} \cup {1}) = Cardinality({0}) + 1
      BY <3>1, FS_AddElement
    <3>3. mine = {0} \cup {1}
      BY <1>10
    <3> QED
      BY <3>1, <3>2, <3>3
  <2>7. Len(told) = L + 2 /\ told[L + 2] = fate(1) /\ \A n \in 1..L + 1 : told[n] = first[n]
    BY ONLY <1>2, <2>3, <2>5
  <2>8. told[L + 1] = fate(0) /\ \A n \in 1..L : told[n] = old[n]
    BY ONLY <1>2, <2>3, <2>7
  <2> QED
    BY ONLY <1>2, <1>10, <2>1, <2>5, <2>6, <2>7, <2>8
<1>11. CASE mine = {0}
  <2>1. own(0) = L /\ new(0) = <<fate(0)>> /\ new(1) = <<>>
    BY <1>6, <1>7, <1>11 DEF mine, own, fate
  <2>2. told = Append(old, fate(0))
    BY <1>3, <1>9, <1>11, <2>1
  <2>3. Cardinality(mine) = 1
    BY <1>11, FS_Singleton
  <2>4. /\ told \in Seq(Fates) /\ Len(told) = L + 1 /\ told[L + 1] = fate(0)
        /\ \A n \in 1..L : told[n] = old[n]
    <3>1. fate(0) \in Fates
      BY <1>9, <1>11
    <3> QED
      BY ONLY <1>2, <1>3, <2>2, <3>1, AppendProperties
  <2> QED
    BY ONLY <1>2, <1>11, <2>1, <2>3, <2>4
<1>12. CASE mine = {1}
  <2>1. own(1) = L /\ new(1) = <<fate(1)>> /\ new(0) = <<>>
    BY <1>6, <1>7, <1>12 DEF mine, own, fate
  <2>2. told = Append(old, fate(1))
    BY <1>3, <1>9, <1>12, <2>1
  <2>3. Cardinality(mine) = 1
    BY <1>12, FS_Singleton
  <2>4. /\ told \in Seq(Fates) /\ Len(told) = L + 1 /\ told[L + 1] = fate(1)
        /\ \A n \in 1..L : told[n] = old[n]
    <3>1. fate(1) \in Fates
      BY <1>9, <1>12
    <3> QED
      BY ONLY <1>2, <1>3, <2>2, <3>1, AppendProperties
  <2> QED
    BY ONLY <1>2, <1>12, <2>1, <2>3, <2>4
<1>13. CASE mine = {}
  <2>1. new(0) = <<>> /\ new(1) = <<>>
    BY <1>6, <1>13 DEF mine
  <2>2. told = old
    BY <1>3, <1>9, <2>1
  <2>3. Cardinality(mine) = 0
    BY <1>13, FS_EmptySet
  <2> QED
    BY ONLY <1>2, <1>3, <1>13, <2>2, <2>3
<1> QED
  BY <1>9, <1>10, <1>11, <1>12, <1>13

(* The same for a hart that is not misled.                                   *)
LEMMA StoryNowIs ==
    ASSUME NEW in, NEW h, Fine(in, h)
    PROVE  /\ StoryNow(in, h) \in Seq(Fates)
           /\ Cardinality(LanesOf(in, h)) \in Nat
           /\ Len(StoryNow(in, h)) = Len(story[h]) + Cardinality(LanesOf(in, h))
           /\ \A n \in 1..Len(story[h]) : StoryNow(in, h)[n] = Learns(in, h, n)
           /\ \A i \in LanesOf(in, h) :
                 /\ Own(in.lanes, i) \in Nat
                 /\ Own(in.lanes, i) >= Len(story[h])
                 /\ Own(in.lanes, i) < Len(StoryNow(in, h))
                 /\ StoryNow(in, h)[Own(in.lanes, i) + 1] = Fate(in, i)
                 /\ \A j \in LanesOf(in, h) : Own(in.lanes, i) = Own(in.lanes, j) => i = j
           /\ \A n \in 1..Len(StoryNow(in, h)) :
                 n > Len(story[h]) => \E i \in LanesOf(in, h) : n = Own(in.lanes, i) + 1
BY StoryShape DEF Fine, MarkerInv

-----------------------------------------------------------------------------
(* The fate of a late record is decided in this cycle or was before, and the *)
(* record leaves the first place.                                            *)
Settled(in, h, r) ==
    in.cancel[h][r] # {} \/ nb[h][r].resolved \/ OldReturn(in, h, r)
Moves(in, h, r) == Atomic(in, h, r) \/ Leaves(in, h, r)

(* The number of a record in a place belongs to an earlier cycle.            *)
LEMMA PlacedFacts ==
    ASSUME NEW in, NEW h, Fine(in, h), NEW r \in Regs
    PROVE  /\ nb[h][r] # None =>
                 /\ nb[h][r] \in LateTypes /\ NbNum(h, r) \in Nat
                 /\ NbNum(h, r) < nextSequence[h] /\ NbNum(h, r) + 1 \in 1..Len(story[h])
           /\ emit[h][r] # None =>
                 /\ emit[h][r] \in RecordTypes /\ emit[h][r].num \in Nat
                 /\ emit[h][r].num < nextSequence[h]
                 /\ emit[h][r].num + 1 \in 1..Len(story[h])
<1>1. /\ nb[h][r] \in LateTypes \cup {None} /\ emit[h][r] \in RecordTypes \cup {None}
      /\ nextSequence[h] \in Nat /\ Len(story[h]) \in Nat /\ nextSequence[h] <= Len(story[h])
  BY DEF Fine, BankTypes, MarkerInv, MarkerTypes, Sound, Numbered
<1>2. ASSUME nb[h][r] # None
      PROVE  nb[h][r] \in LateTypes /\ NbNum(h, r) \in Nat /\ NbNum(h, r) < nextSequence[h]
  <2>1. nb[h][r] \in LateTypes /\ nb[h][r].rec \in RecordTypes
    BY <1>1, <1>2 DEF LateTypes
  <2> QED
    BY <1>2, <2>1 DEF NbNum, RecordTypes, Fine, Sound, OnePlace
<1>3. ASSUME emit[h][r] # None
      PROVE  /\ emit[h][r] \in RecordTypes /\ emit[h][r].num \in Nat
             /\ emit[h][r].num < nextSequence[h]
  BY <1>1, <1>3 DEF RecordTypes, Fine, Sound, OnePlace
<1> QED
  BY <1>1, <1>2, <1>3

(* What becomes of a late record in this cycle is true; without news it      *)
(* waits on.                                                                 *)
LEMMA LateRecord ==
    ASSUME NEW in, NEW h, Fine(in, h), NEW r \in Regs, nb[h][r] # None
    PROVE  LET rec == Resolved(in, h, r)
               told == StoryNow(in, h)[NbNum(h, r) + 1]
           IN  /\ rec \in RecordTypes /\ rec.num = NbNum(h, r)
               /\ Settled(in, h, r) => Tells(rec, told)
               /\ ~Settled(in, h, r) =>
                     /\ rec = nb[h][r].rec /\ waiting[h][r] # None /\ told.fate = "waits"
               /\ nb[h][r].resolved => in.cancel[h][r] = {} /\ rec = nb[h][r].rec
<1> DEFINE rec == Resolved(in, h, r)
           num == NbNum(h, r)
           told == StoryNow(in, h)[num + 1]
<1>1. /\ nb[h][r] \in LateTypes /\ nb[h][r].rec \in RecordTypes /\ num \in Nat
      /\ num + 1 \in 1..Len(story[h]) /\ nb[h][r].rec.num = num
  BY PlacedFacts DEF LateTypes, NbNum
<1>2. told = Learns(in, h, num + 1)
  BY <1>1, StoryNowIs
<1>3. h \in CapHarts /\ Legal(in)
  BY DEF Fine
<1>4. CASE nb[h][r].resolved
  <2>1. waiting[h][r] = None
    BY <1>4 DEF Fine, Sound, InStep
  <2>2. in.cancel[h][r] = {}
    BY <1>3, <2>1, CancelIs
  <2>3. rec = nb[h][r].rec
    BY <1>4, <2>2 DEF Resolved
  <2>4. ASSUME NEW q \in Regs, waiting[h][q] # None PROVE waiting[h][q].num # (num + 1) - 1
    <3>1. nb[h][q] # None /\ NbNum(h, q) = waiting[h][q].num /\ q # r
      BY <2>1, <2>4 DEF Fine, Sound, InStep, NbNum
    <3>2. NbNum(h, q) # NbNum(h, r)
      BY <3>1 DEF Fine, Sound, OnePlace
    <3> QED
      BY <1>1, <3>1, <3>2
  <2>5. told = story[h][num + 1]
    BY <1>1, <1>2, <2>4, LearnsOther
  <2>6. Tells(nb[h][r].rec, FateOf(h, nb[h][r].rec.num))
    BY <1>4 DEF Fine, Sound, TrueRecords
  <2>7. Tells(rec, told)
    BY <1>1, <2>3, <2>5, <2>6 DEF FateOf
  <2> QED
    BY <1>1, <1>4, <2>2, <2>3, <2>7 DEF Settled
<1>5. CASE ~nb[h][r].resolved
  <2>1. /\ waiting[h][r] # None /\ waiting[h][r].num = num
        /\ waiting[h][r].kind = nb[h][r].kind /\ nb[h][r].rec.end = "gpr"
        /\ waiting[h][r].kind \in {"load", "div"}
    <3>1. waiting[h][r] # None
      BY <1>5 DEF Fine, Sound, InStep
    <3> QED
      BY <3>1, WaitingFacts DEF Fine, Sound, InStep, NbNum
  <2>2. OldReturn(in, h, r) <=> Arrives(in, waiting[h][r].kind, h, r)
    BY <2>1 DEF OldReturn
  <2> DEFINE wrote == Arrives(in, waiting[h][r].kind, h, r)
  <2>3. /\ in.cancel[h][r] = {} /\ wrote =>
              Learns(in, h, num + 1) = [fate |-> "wrote", by |-> {}]
        /\ in.cancel[h][r] = {} /\ ~wrote => Learns(in, h, num + 1) = story[h][num + 1]
    <3>1. waiting[h][r] # None /\ waiting[h][r].num = num
      BY <2>1
    <3>2. Learns(in, h, waiting[h][r].num + 1) =
             IF in.cancel[h][r] # {}
             THEN [fate |-> "cut", by |-> {Own(in.lanes, i) : i \in in.cancel[h][r]}]
             ELSE IF wrote THEN [fate |-> "wrote", by |-> {}]
             ELSE story[h][waiting[h][r].num + 1]
      BY <3>1, LearnsWaiting
    <3> HIDE DEF wrote, num
    <3> QED
      BY ONLY <3>1, <3>2
  <2>4. CASE in.cancel[h][r] # {}
    <3> DEFINE i == IF 1 \in in.cancel[h][r] THEN 1 ELSE 0
    <3>1. rec = [nb[h][r].rec EXCEPT !.end = waiting[h][r].kind, !.val = LaneSequence(in, i)]
      BY <2>4 DEF Resolved, Cancelled
    <3>2. i \in in.cancel[h][r]
      BY <1>3, <2>4, CancelIs DEF Lanes
    <3>3. i \in Lanes /\ Wen(in.lanes, i) /\ in.lanes[i].hart = h
      BY <1>3, <3>2, CancelIs
    <3> HIDE DEF i
    <3>4. in.lanes[i] # None /\ in.lanes[i].kind # "other"
      BY <3>3 DEF Wen, Writes
    <3>5. i \in ProcessedOf(in, h)
      BY <3>3, <3>4, WorkersRun DEF ProcessedOf, Fine
    <3>6. LaneSequence(in, i) = Own(in.lanes, i)
      BY <3>5, SequenceIsOwn DEF Fine, Sound
    <3>7. Own(in.lanes, i) \in Nat
      BY <3>3, <3>4, StoryNowIs DEF LanesOf
    <3>8. told = [fate |-> "cut", by |-> {Own(in.lanes, j) : j \in in.cancel[h][r]}]
      BY <1>2, <2>1, <2>4, LearnsWaiting
    <3>9. /\ rec \in RecordTypes /\ rec.num = num
          /\ rec.end = waiting[h][r].kind /\ rec.val = Own(in.lanes, i)
      <4> DEFINE own == Own(in.lanes, i)
                 held == nb[h][r].rec
                 end == waiting[h][r].kind
      <4>1. held \in RecordTypes /\ held.num = num
        BY <1>1
      <4>2. rec = [held EXCEPT !.end = end, !.val = own]
        BY <3>1, <3>6
      <4>3. own \in Nat /\ end \in {"load", "div"}
        BY <2>1, <3>7
      <4> HIDE DEF own, held, end, rec, num
      <4>4. rec \in RecordTypes /\ rec.num = num /\ rec.end = end /\ rec.val = own
        BY ONLY <4>1, <4>2, <4>3 DEF RecordTypes
      <4> QED
        BY <4>4 DEF own, end
    <3>10. Tells(rec, told)
      BY <2>1, <3>2, <3>8, <3>9 DEF Tells
    <3> QED
      BY <1>5, <2>4, <3>9, <3>10 DEF Settled
  <2>5. CASE in.cancel[h][r] = {} /\ OldReturn(in, h, r)
    <3>1. rec = [nb[h][r].rec EXCEPT !.val = in[nb[h][r].kind].num]
      BY <1>5, <2>5 DEF Resolved
    <3>2. ~Hits(in.lanes, h, r)
      BY <1>3, <2>1, <2>5, CancelIs
    <3>3. in[nb[h][r].kind].num = num
      BY <1>3, <2>1, <2>2, <2>5, <3>2, ArrivalCases
    <3>4. told = [fate |-> "wrote", by |-> {}]
      BY <1>2, <2>2, <2>5, <2>3
    <3>5. rec \in RecordTypes /\ rec.num = num /\ rec.end = "gpr" /\ rec.val = num
      BY <1>1, <2>1, <3>1, <3>3 DEF RecordTypes
    <3>6. Tells(rec, told)
      BY <3>4, <3>5 DEF Tells
    <3> QED
      BY <1>5, <2>5, <3>5, <3>6 DEF Settled
  <2>6. CASE in.cancel[h][r] = {} /\ ~OldReturn(in, h, r)
    <3>1. rec = nb[h][r].rec
      BY <2>6 DEF Resolved
    <3>2. told = story[h][num + 1]
      BY <1>2, <2>2, <2>6, <2>3
    <3>3. told.fate = "waits"
      BY <2>1, <3>2, WaitingFacts
    <3> QED
      BY <1>1, <1>5, <2>1, <2>6, <3>1, <3>3 DEF Settled
  <2> QED
    BY <2>4, <2>5, <2>6
<1>6. nb[h][r].resolved \in BOOLEAN
  BY <1>1 DEF LateTypes
<1> QED
  BY <1>4, <1>5, <1>6

(* What waits to be handed over stays true.                                  *)
LEMMA EmitTells ==
    ASSUME NEW in, NEW h, Fine(in, h), NEW r \in Regs, emit[h][r] # None
    PROVE  Tells(emit[h][r], StoryNow(in, h)[emit[h][r].num + 1])
<1> DEFINE num == emit[h][r].num
<1>1. num \in Nat /\ num + 1 \in 1..Len(story[h])
  BY PlacedFacts
<1>2. ASSUME NEW q \in Regs, waiting[h][q] # None PROVE waiting[h][q].num # (num + 1) - 1
  <2>1. nb[h][q] # None /\ NbNum(h, q) = waiting[h][q].num
    BY <1>2 DEF Fine, Sound, InStep, NbNum
  <2>2. NbNum(h, q) # num
    BY <2>1 DEF Fine, Sound, OnePlace
  <2> QED
    BY <1>1, <2>1, <2>2
<1>3. StoryNow(in, h)[num + 1] = story[h][num + 1]
  BY <1>1, <1>2, LearnsOther, StoryNowIs
<1> QED
  BY <1>3 DEF Fine, Sound, TrueRecords, FateOf

-----------------------------------------------------------------------------
(* One lane at most takes the place of a register.                           *)
LEMMA AllocIs ==
    ASSUME NEW in, NEW h, Fine(in, h), NEW r \in Regs
    PROVE  /\ \A i \in Lanes : i \in in.alloc[h][r] <=>
                 i \in LanesOf(in, h) /\ Allocates(in, i) /\ in.lanes[i].rd = r
           /\ in.alloc[h][r] # {} =>
                 \E i \in LanesOf(in, h) : in.alloc[h][r] = {i} /\ Allocates(in, i)
<1>1. in.alloc[h][r] = Allocators(in, h, r)
  BY DEF Fine, Legal
<1>2. \A i \in Lanes : i \in in.alloc[h][r] <=>
         i \in LanesOf(in, h) /\ Allocates(in, i) /\ in.lanes[i].rd = r
  BY <1>1 DEF Allocators, LanesOf, Allocates, Processed
<1>3. in.alloc[h][r] \subseteq Lanes
  BY <1>1 DEF Allocators
<1>4. ~(0 \in in.alloc[h][r] /\ 1 \in in.alloc[h][r])
  <2> SUFFICES ASSUME 0 \in in.alloc[h][r], 1 \in in.alloc[h][r] PROVE FALSE
    OBVIOUS
  <2>1. /\ in.lanes[0] # None /\ in.lanes[0].hart = h /\ in.lanes[0].rd = r
        /\ in.lanes[1] # None /\ in.lanes[1].hart = h /\ in.lanes[1].rd = r
        /\ Nonblock(in.lanes[0]) /\ Nonblock(in.lanes[1]) /\ ~WawVictim(in.lanes)
    BY <1>2 DEF Lanes, LanesOf, Allocates
  <2> QED
    BY <2>1 DEF WawVictim, SameDest, Writes, Nonblock
<1>5. ASSUME NEW i \in in.alloc[h][r] PROVE in.alloc[h][r] = {i}
  BY <1>3, <1>4, <1>5 DEF Lanes
<1> QED
  BY <1>2, <1>3, <1>5

(* What the two places of a register hold after the cycle.                   *)
LEMMA NextPlaces ==
    ASSUME NEW in, NEW h, GoesOn(in, h), NEW r \in Regs
    PROVE  /\ Moves(in, h, r) => /\ nb[h][r] # None /\ Settled(in, h, r)
                                 /\ emit[h][r] = None \/ r \in in.selected[h]
           /\ \A i \in Lanes : in.alloc[h][r] = {i} =>
                 /\ nb[h][r] = None \/ Moves(in, h, r)
                 /\ NextNb(in, h, r) = [rec |-> LaneRecord(in, i),
                                        kind |-> in.lanes[i].kind, resolved |-> FALSE]
           /\ in.alloc[h][r] = {} /\ (nb[h][r] = None \/ Moves(in, h, r)) =>
                 NextNb(in, h, r) = None
           /\ nb[h][r] # None /\ ~Moves(in, h, r) =>
                 /\ in.alloc[h][r] = {}
                 /\ NextNb(in, h, r) = [rec |-> Resolved(in, h, r), kind |-> nb[h][r].kind,
                                        resolved |-> Settled(in, h, r)]
           /\ NextEmit(in, h, r) = IF Moves(in, h, r) THEN Resolved(in, h, r)
                                   ELSE IF r \in in.selected[h] THEN None
                                   ELSE emit[h][r]
<1>0. Fine(in, h)
  BY DEF GoesOn
<1> USE <1>0
<1> DEFINE alloc == in.alloc[h][r]
           cancel == in.cancel[h][r]
<1>1. h \in CapHarts /\ Legal(in)
  BY DEF Fine
<1>2. alloc # {} => Accepted(in, h, r)
  BY DEF GoesOn, NewErrors
<1>3. alloc # {} => nb[h][r] = None \/ HandsOver(in, h, r)
  BY <1>2 DEF Accepted
<1>4. alloc # {} /\ HandsOver(in, h, r) => Atomic(in, h, r)
  BY DEF Atomic
<1>5. Moves(in, h, r) => HandsOver(in, h, r)
  BY DEF Moves, Atomic, Leaves, HandsOver
<1>6. HandsOver(in, h, r) => /\ nb[h][r] # None /\ Settled(in, h, r)
                             /\ emit[h][r] = None \/ r \in in.selected[h]
  BY DEF HandsOver, Settled, SlotReady
<1>7. ASSUME NEW i \in Lanes, alloc = {i}
      PROVE  /\ nb[h][r] = None \/ Moves(in, h, r)
             /\ NextNb(in, h, r) = [rec |-> LaneRecord(in, i),
                                    kind |-> in.lanes[i].kind, resolved |-> FALSE]
  <2>1. (CHOOSE j \in in.alloc[h][r] : TRUE) = i
    BY <1>7
  <2> QED
    BY <1>2, <1>3, <1>4, <1>7, <2>1 DEF NextNb, Moves
<1>8. ASSUME alloc = {}, nb[h][r] = None \/ Moves(in, h, r) PROVE NextNb(in, h, r) = None
  BY <1>8 DEF NextNb, Accepted, Moves, Atomic
<1>9. ASSUME nb[h][r] # None, ~Moves(in, h, r)
      PROVE  /\ alloc = {}
             /\ NextNb(in, h, r) = [rec |-> Resolved(in, h, r), kind |-> nb[h][r].kind,
                                    resolved |-> Settled(in, h, r)]
  <2>1. alloc = {} /\ ~Leaves(in, h, r) /\ ~Accepted(in, h, r)
    BY <1>3, <1>4, <1>9 DEF Moves, Accepted
  <2>2. nb[h][r] \in LateTypes /\ nb[h][r].rec \in RecordTypes /\ nb[h][r].resolved \in BOOLEAN
    BY <1>9, PlacedFacts DEF LateTypes
  <2>3. CASE cancel # {}
    <3>1. NextNb(in, h, r) = [nb[h][r] EXCEPT !.rec = Cancelled(in, h, r), !.resolved = TRUE]
      BY <1>9, <2>1, <2>3 DEF NextNb
    <3>2. Resolved(in, h, r) = Cancelled(in, h, r) /\ Settled(in, h, r) = TRUE
      BY <2>3 DEF Resolved, Settled
    <3> QED
      BY <2>1, <2>2, <3>1, <3>2 DEF LateTypes
  <2>4. CASE cancel = {} /\ nb[h][r].resolved
    <3>1. NextNb(in, h, r) = nb[h][r]
      BY <1>9, <2>1, <2>4 DEF NextNb
    <3>2. Resolved(in, h, r) = nb[h][r].rec /\ Settled(in, h, r) = TRUE
      BY <2>4 DEF Resolved, Settled
    <3> QED
      BY <2>1, <2>2, <2>4, <3>1, <3>2 DEF LateTypes
  <2>5. CASE cancel = {} /\ ~nb[h][r].resolved
    <3>1. /\ waiting[h][r] # None /\ waiting[h][r].kind = nb[h][r].kind
          /\ waiting[h][r].kind \in {"load", "div"}
      <4>1. waiting[h][r] # None /\ waiting[h][r].kind = nb[h][r].kind
        BY <1>9, <2>5 DEF Fine, Sound, InStep
      <4> QED
        BY <4>1, WaitingFacts
    <3>2. ~Hits(in.lanes, h, r)
      BY <1>1, <2>5, <3>1, CancelIs
    <3>3. \A k \in {"load", "div"} : Arrives(in, k, h, r) => nb[h][r].kind = k
      BY <1>1, <3>1, <3>2, ArrivalCases
    <3>4. CASE OldReturn(in, h, r)
      <4>1. Arrives(in, nb[h][r].kind, h, r)
        BY <3>4 DEF OldReturn
      <4>2. nb[h][r].kind = IF Arrives(in, "load", h, r) THEN "load" ELSE "div"
        BY <3>1, <3>3, <4>1
      <4>3. NextNb(in, h, r) = [nb[h][r] EXCEPT !.rec.val = in[nb[h][r].kind].num,
                                                !.resolved = TRUE]
        BY <1>9, <2>1, <2>5, <3>1, <4>1, <4>2 DEF NextNb
      <4>4. Resolved(in, h, r) = [nb[h][r].rec EXCEPT !.val = in[nb[h][r].kind].num]
        BY <2>5, <3>4 DEF Resolved
      <4>5. Settled(in, h, r) = TRUE
        BY <3>4 DEF Settled
      <4> QED
        BY <2>1, <2>2, <4>3, <4>4, <4>5 DEF LateTypes
    <3>5. CASE ~OldReturn(in, h, r)
      <4>1. \A k \in {"load", "div"} : ~Arrives(in, k, h, r)
        BY <3>3, <3>5 DEF OldReturn
      <4>2. NextNb(in, h, r) = nb[h][r]
        BY <1>9, <2>1, <2>5, <4>1 DEF NextNb
      <4>3. Resolved(in, h, r) = nb[h][r].rec
        BY <2>5, <3>5 DEF Resolved
      <4>4. Settled(in, h, r) = FALSE
        BY <2>5, <3>5 DEF Settled
      <4> QED
        BY <2>1, <2>2, <2>5, <4>2, <4>3, <4>4 DEF LateTypes
    <3> QED
      BY <3>4, <3>5
  <2> QED
    BY <2>3, <2>4, <2>5
<1>10. Leaves(in, h, r) => Resolved(in, h, r) = nb[h][r].rec
  BY DEF Leaves, Resolved
<1>11. NextEmit(in, h, r) = IF Moves(in, h, r) THEN Resolved(in, h, r)
                            ELSE IF r \in in.selected[h] THEN None ELSE emit[h][r]
  BY <1>10 DEF NextEmit, Moves
<1> QED
  BY <1>5, <1>6, <1>7, <1>8, <1>9, <1>11

(* What the core waits for after the cycle.                                  *)
LEMMA NextWaiting ==
    ASSUME NEW in, NEW h, Fine(in, h), CoreStep(in), NEW r \in Regs
    PROVE  /\ \A i \in Lanes : in.alloc[h][r] = {i} =>
                 waiting'[h][r] = [kind |-> in.lanes[i].kind, num |-> Own(in.lanes, i)]
           /\ in.alloc[h][r] = {} =>
                 waiting'[h][r] = IF \/ Hits(in.lanes, h, r)
                                     \/ \E k \in {"load", "div"} : Arrives(in, k, h, r)
                                  THEN None ELSE waiting[h][r]
<1> DEFINE starts == {i \in Lanes : /\ Nonblock(in.lanes[i])
                                    /\ in.lanes[i].hart = h /\ in.lanes[i].rd = r
                                    /\ Fate(in, i).fate = "waits"}
<1>1. starts = in.alloc[h][r]
  <2>1. starts \subseteq Lanes /\ in.alloc[h][r] \subseteq Lanes
    BY DEF Fine, Legal, Allocators
  <2>2. ASSUME NEW i \in Lanes PROVE i \in starts <=> i \in in.alloc[h][r]
    <3>1. i \in starts => i \in LanesOf(in, h)
      BY DEF LanesOf, Nonblock
    <3>2. i \in LanesOf(in, h) => (Allocates(in, i) <=> Fate(in, i).fate = "waits")
      BY LaneFates
    <3>3. Allocates(in, i) => Nonblock(in.lanes[i])
      BY DEF Allocates
    <3> QED
      BY <3>1, <3>2, <3>3, AllocIs DEF LanesOf
  <2> QED
    BY <2>1, <2>2
<1>2. waiting'[h][r] = IF starts # {}
                       THEN LET i == CHOOSE i \in starts : TRUE
                            IN  [kind |-> in.lanes[i].kind, num |-> Own(in.lanes, i)]
                       ELSE IF \/ Hits(in.lanes, h, r)
                               \/ \E k \in {"load", "div"} : Arrives(in, k, h, r)
                            THEN None ELSE waiting[h][r]
  <2>1. h \in CapHarts
    BY DEF Fine
  <2> QED
    BY <2>1 DEF CoreStep
<1> HIDE DEF starts
<1>3. ASSUME NEW i \in Lanes, in.alloc[h][r] = {i}
      PROVE  waiting'[h][r] = [kind |-> in.lanes[i].kind, num |-> Own(in.lanes, i)]
  <2>1. (CHOOSE j \in starts : TRUE) = i
    BY <1>1, <1>3
  <2> QED
    BY <1>1, <1>2, <1>3, <2>1
<1> QED
  BY <1>1, <1>2, <1>3

-----------------------------------------------------------------------------
(* The records a running hart does not place go out at once.                 *)
LEMMA DirectIs ==
    ASSUME NEW in, NEW h, Fine(in, h)
    PROVE  /\ in.direct[h] \subseteq LanesOf(in, h)
           /\ h \in StoppedNext(in) => in.direct[h] = {}
           /\ h \notin StoppedNext(in) =>
                 /\ nextSequence[h] = Len(story[h])
                 /\ in.direct[h] = {i \in LanesOf(in, h) : ~Allocates(in, i)}
           /\ \A i \in LanesOf(in, h) : Allocates(in, i) => h \notin StoppedNext(in)
           /\ GoesOn(in, h) => (in.direct[h] # {} => in.ready[h])
           /\ in.selected[h] \subseteq {r \in Regs : emit[h][r] # None}
<1>1. in.direct[h] = Direct(in, h) /\ in.selected[h] = Selected(in, h)
  BY DEF Fine, Legal
<1>2. ProcessedOf(in, h) = IF h \in StoppedNext(in) THEN {} ELSE LanesOf(in, h)
  BY ProcessedLanes
<1>3. Direct(in, h) = {i \in ProcessedOf(in, h) : ~Allocates(in, i)}
  BY DEF Direct
<1>4. h \notin StoppedNext(in) => nextSequence[h] = Len(story[h])
  BY DEF StoppedNext, Fine, Sound, Numbered
<1>5. \A i \in LanesOf(in, h) : Allocates(in, i) => h \notin StoppedNext(in)
  BY DEF Allocates, Processed, LanesOf
<1>6. GoesOn(in, h) => (in.direct[h] # {} => in.ready[h])
  BY DEF GoesOn, NewErrors
<1>7. in.selected[h] \subseteq {r \in Regs : emit[h][r] # None}
  BY <1>1 DEF Selected
<1> QED
  BY <1>1, <1>2, <1>3, <1>4, <1>5, <1>6, <1>7

(* The numbers of the records that leave in this cycle.                      *)
Given(in, h) == {Own(in.lanes, i) : i \in in.direct[h]}
                \cup {emit[h][r].num : r \in in.selected[h]}

(* What is handed over in a cycle is true, and no two records have one       *)
(* number.                                                                   *)
LEMMA HandedIs ==
    ASSUME NEW in, NEW h, GoesOn(in, h)
    PROVE  /\ Given(in, h) = {rec.num : rec \in Handed(in, h)}
           /\ \A rec \in Handed(in, h) :
                 /\ rec.num \in Nat /\ rec.num + 1 \in 1..Len(StoryNow(in, h))
                 /\ Tells(rec, StoryNow(in, h)[rec.num + 1])
                 /\ \A other \in Handed(in, h) : other.num = rec.num => other = rec
<1>0. Fine(in, h)
  BY DEF GoesOn
<1> USE <1>0
<1> DEFINE lanes == {LaneRecord(in, i) : i \in in.direct[h]}
           places == {emit[h][r] : r \in in.selected[h]}
           told == StoryNow(in, h)
           L == Len(story[h])
<1>1. Handed(in, h) = lanes \cup places
  BY DirectIs DEF Handed
<1>2. ASSUME NEW i \in in.direct[h]
      PROVE  /\ i \in LanesOf(in, h) /\ LaneRecord(in, i).num = Own(in.lanes, i)
             /\ Tells(LaneRecord(in, i), Fate(in, i))
  <2>1. i \in LanesOf(in, h) /\ i \in Direct(in, h)
    BY DirectIs DEF Fine, Legal
  <2> QED
    BY <2>1, LaneFates
<1>3. /\ told \in Seq(Fates) /\ L \in Nat /\ Len(told) \in Nat /\ L <= Len(told)
      /\ nextSequence[h] <= L /\ nextSequence[h] \in Nat
  <2>1. L \in Nat /\ nextSequence[h] <= L /\ nextSequence[h] \in Nat
    BY DEF Fine, MarkerInv, MarkerTypes, BankTypes, Sound, Numbered
  <2> QED
    BY <2>1, StoryNowIs
<1>4. ASSUME NEW i \in in.direct[h]
      PROVE  LET rec == LaneRecord(in, i)
             IN  /\ rec.num \in Nat /\ rec.num + 1 \in 1..Len(told) /\ rec.num >= L
                 /\ Tells(rec, told[rec.num + 1])
  <2>1. /\ Own(in.lanes, i) \in Nat /\ Own(in.lanes, i) < Len(told)
        /\ Own(in.lanes, i) >= L /\ told[Own(in.lanes, i) + 1] = Fate(in, i)
    BY <1>2, StoryNowIs
  <2> HIDE DEF told, L
  <2> QED
    BY <1>2, <1>3, <2>1
<1>5. ASSUME NEW r \in in.selected[h]
      PROVE  LET rec == emit[h][r]
             IN  /\ r \in Regs /\ rec # None
                 /\ rec.num \in Nat /\ rec.num + 1 \in 1..Len(told) /\ rec.num < L
                 /\ Tells(rec, told[rec.num + 1])
  <2>1. r \in Regs /\ emit[h][r] # None
    BY DirectIs
  <2>2. emit[h][r].num \in Nat /\ emit[h][r].num < nextSequence[h]
    BY <2>1, PlacedFacts
  <2>3. Tells(emit[h][r], told[emit[h][r].num + 1])
    BY <2>1, EmitTells
  <2> HIDE DEF told, L
  <2> QED
    BY <1>3, <2>1, <2>2, <2>3
<1>6. \A i, j \in in.direct[h] :
         LaneRecord(in, i).num = LaneRecord(in, j).num => i = j
  BY <1>2, StoryNowIs
<1>7. \A r, q \in in.selected[h] : emit[h][r].num = emit[h][q].num => r = q
  BY <1>5 DEF Fine, Sound, OnePlace
<1>8. \A i \in in.direct[h], r \in in.selected[h] :
         LaneRecord(in, i).num # emit[h][r].num
  BY <1>3, <1>4, <1>5
<1>9. ASSUME NEW rec \in Handed(in, h)
      PROVE  /\ rec.num \in Nat /\ rec.num + 1 \in 1..Len(told)
             /\ Tells(rec, told[rec.num + 1])
  BY <1>1, <1>4, <1>5
<1>10. ASSUME NEW rec \in Handed(in, h), NEW other \in Handed(in, h), other.num = rec.num
       PROVE  other = rec
  BY <1>1, <1>6, <1>7, <1>8, <1>10
<1>11. Given(in, h) = {rec.num : rec \in Handed(in, h)}
  <2>1. {Own(in.lanes, i) : i \in in.direct[h]} = {rec.num : rec \in lanes}
    BY <1>2
  <2>2. {emit[h][r].num : r \in in.selected[h]} = {rec.num : rec \in places}
    OBVIOUS
  <2> HIDE DEF lanes, places
  <2> QED
    BY <1>1, <2>1, <2>2 DEF Given
<1> QED
  BY <1>9, <1>10, <1>11

(* Nothing that is told of an instruction is "recorded" but what was.        *)
LEMMA ToldFates ==
    ASSUME NEW in, NEW h, Fine(in, h), NEW n \in 1..Len(StoryNow(in, h))
    PROVE  /\ StoryNow(in, h)[n].fate # "misrecorded"
           /\ StoryNow(in, h)[n].fate = "recorded" <=>
                 n <= Len(story[h]) /\ story[h][n].fate = "recorded"
<1> DEFINE told == StoryNow(in, h)
           L == Len(story[h])
<1>1. L \in Nat /\ Len(told) \in Nat /\ n \in Nat /\ n >= 1
  <2>1. L \in Nat
    BY DEF Fine, MarkerInv, MarkerTypes
  <2> QED
    BY <2>1, StoryNowIs
<1>2. CASE n > L
  <2>1. PICK i \in LanesOf(in, h) : n = Own(in.lanes, i) + 1
    BY <1>2, StoryNowIs
  <2>2. told[n] = Fate(in, i)
    BY <2>1, StoryNowIs
  <2>3. Fate(in, i).fate \in {"wrote", "cut", "waits", "none"}
    BY DEF Fate
  <2> QED
    BY <1>1, <1>2, <2>2, <2>3
<1>3. CASE n <= L
  <2>1. n \in 1..L /\ told[n] = Learns(in, h, n)
    BY <1>1, <1>3, StoryNowIs
  <2>2. story[h][n].fate # "misrecorded"
    BY <2>1 DEF Fine, Sound, NoneLost
  <2>3. CASE \E r \in Regs : waiting[h][r] # None /\ waiting[h][r].num = n - 1
    <3>1. PICK r \in Regs : waiting[h][r] # None /\ waiting[h][r].num = n - 1
      BY <2>3
    <3>2. waiting[h][r].num + 1 = n
      BY <1>1, <3>1
    <3>3. story[h][n].fate = "waits"
      BY <3>1, <3>2, WaitingFacts
    <3>4. Learns(in, h, n).fate \in {"cut", "wrote", "waits"}
      <4>1. Learns(in, h, waiting[h][r].num + 1).fate \in {"cut", "wrote", "waits"}
        BY <3>1, LearnsWaiting
      <4> QED
        BY <3>2, <4>1
    <3> QED
      BY <2>1, <3>3, <3>4
  <2>4. CASE ~\E r \in Regs : waiting[h][r] # None /\ waiting[h][r].num = n - 1
    <3>1. told[n] = story[h][n]
      BY <2>1, <2>4, LearnsOther
    <3> QED
      BY <1>3, <2>2, <3>1
  <2> QED
    BY <2>3, <2>4
<1> QED
  BY <1>1, <1>2, <1>3

(* The story after the cycle: what is handed over is recorded, the rest is   *)
(* what was told.                                                            *)
LEMMA NextStory ==
    ASSUME NEW in, NEW h, GoesOn(in, h), BankStep(in)
    PROVE  /\ Len(story'[h]) = Len(StoryNow(in, h))
           /\ Given(in, h) \subseteq {n - 1 : n \in 1..Len(StoryNow(in, h))}
           /\ \A n \in 1..Len(StoryNow(in, h)) :
                 /\ n - 1 \notin Given(in, h) => story'[h][n] = StoryNow(in, h)[n]
                 /\ n - 1 \in Given(in, h) => story'[h][n].fate = "recorded"
                 /\ story'[h][n].fate # "misrecorded"
                 /\ story'[h][n].fate = "recorded" <=>
                       \/ n - 1 \in Given(in, h)
                       \/ n <= Len(story[h]) /\ story[h][n].fate = "recorded"
<1>0. Fine(in, h)
  BY DEF GoesOn
<1> USE <1>0
<1> DEFINE told == StoryNow(in, h)
           handed == Handed(in, h)
           mine(n) == {rec \in handed : rec.num = n - 1}
           next(n) == IF mine(n) = {} THEN told[n]
                      ELSE [by |-> {},
                            fate |-> IF Cardinality(mine(n)) = 1
                                        /\ \A rec \in mine(n) : Tells(rec, told[n])
                                     THEN "recorded" ELSE "misrecorded"]
<1>1. told \in Seq(Fates) /\ Len(told) \in Nat
  BY StoryNowIs
<1>2. story'[h] = [n \in 1..Len(told) |-> next(n)]
  BY DEF BankStep, Judged, Fine
<1>3. /\ Given(in, h) = {rec.num : rec \in handed}
      /\ \A rec \in handed :
            /\ rec.num \in Nat /\ rec.num + 1 \in 1..Len(told)
            /\ Tells(rec, told[rec.num + 1])
            /\ \A other \in handed : other.num = rec.num => other = rec
  BY HandedIs
<1>4. \A n \in 1..Len(told) : /\ told[n].fate # "misrecorded"
                              /\ told[n].fate = "recorded" <=>
                                    n <= Len(story[h]) /\ story[h][n].fate = "recorded"
  BY ToldFates
<1> HIDE DEF told, handed
<1>5. Len(story'[h]) = Len(told)
  BY <1>1, <1>2
<1>6. Given(in, h) \subseteq {n - 1 : n \in 1..Len(told)}
  <2>1. ASSUME NEW rec \in handed PROVE \E n \in 1..Len(told) : rec.num = n - 1
    <3>1. rec.num + 1 \in 1..Len(told) /\ rec.num = (rec.num + 1) - 1
      BY <1>3
    <3> QED
      BY <3>1
  <2> QED
    BY <1>3, <2>1
<1>7. ASSUME NEW n \in 1..Len(told), n - 1 \notin Given(in, h)
      PROVE  story'[h][n] = told[n]
  <2>1. mine(n) = {}
    BY <1>3, <1>7
  <2> QED
    BY <1>2, <2>1
<1>8. ASSUME NEW n \in 1..Len(told), n - 1 \in Given(in, h)
      PROVE  story'[h][n].fate = "recorded"
  <2>1. PICK rec \in handed : rec.num = n - 1
    BY <1>3, <1>8
  <2>2. mine(n) = {rec}
    BY <1>3, <2>1
  <2>3. Cardinality(mine(n)) = 1
    BY <2>2, FS_Singleton
  <2>4. Tells(rec, told[n])
    <3>1. rec.num + 1 = n
      BY <1>1, <1>3, <2>1
    <3> QED
      BY <1>3, <3>1
  <2>5. next(n) = [by |-> {}, fate |-> "recorded"]
    BY <2>2, <2>3, <2>4
  <2> HIDE DEF next
  <2> QED
    BY <1>2, <2>5
<1> HIDE DEF next
<1>9. ASSUME NEW n \in 1..Len(told)
      PROVE  /\ n - 1 \notin Given(in, h) => story'[h][n] = told[n]
             /\ n - 1 \in Given(in, h) => story'[h][n].fate = "recorded"
             /\ story'[h][n].fate # "misrecorded"
             /\ story'[h][n].fate = "recorded" <=>
                   \/ n - 1 \in Given(in, h)
                   \/ n <= Len(story[h]) /\ story[h][n].fate = "recorded"
  BY <1>4, <1>7, <1>8
<1> QED
  BY <1>5, <1>6, <1>9 DEF told

-----------------------------------------------------------------------------
(* A record that keeps a place, or takes one, is not handed over.            *)
LEMMA NotGiven ==
    ASSUME NEW in, NEW h, GoesOn(in, h)
    PROVE  /\ \A i \in LanesOf(in, h) : Allocates(in, i) => Own(in.lanes, i) \notin Given(in, h)
           /\ \A r \in Regs : nb[h][r] # None => NbNum(h, r) \notin Given(in, h)
           /\ \A r \in Regs : emit[h][r] # None /\ r \notin in.selected[h] =>
                 emit[h][r].num \notin Given(in, h)
           /\ \A n \in Given(in, h) : n < nextSequence[h] =>
                 \E r \in in.selected[h] : n = emit[h][r].num
<1>0. Fine(in, h) /\ nextSequence[h] \in Nat /\ Len(story[h]) \in Nat
      /\ nextSequence[h] <= Len(story[h])
  BY DEF GoesOn, Fine, MarkerInv, MarkerTypes, BankTypes, Sound, Numbered
<1>1. \A j \in in.direct[h] : /\ j \in LanesOf(in, h) /\ ~Allocates(in, j)
                              /\ Own(in.lanes, j) \in Nat
                              /\ Own(in.lanes, j) >= Len(story[h])
  <2> SUFFICES ASSUME NEW j \in in.direct[h]
               PROVE  /\ j \in LanesOf(in, h) /\ ~Allocates(in, j)
                      /\ Own(in.lanes, j) \in Nat /\ Own(in.lanes, j) >= Len(story[h])
    OBVIOUS
  <2>1. j \in LanesOf(in, h) /\ ~Allocates(in, j)
    BY <1>0, DirectIs
  <2> QED
    BY <1>0, <2>1, StoryNowIs
<1>2. \A q \in in.selected[h] : /\ q \in Regs /\ emit[h][q] # None
                                /\ emit[h][q].num \in Nat
                                /\ emit[h][q].num < nextSequence[h]
  BY <1>0, DirectIs, PlacedFacts
<1>3. ASSUME NEW i \in LanesOf(in, h), Allocates(in, i)
      PROVE  Own(in.lanes, i) \notin Given(in, h)
  <2>1. Own(in.lanes, i) \in Nat /\ Own(in.lanes, i) >= Len(story[h])
    BY <1>0, StoryNowIs
  <2>2. \A j \in in.direct[h] : Own(in.lanes, j) # Own(in.lanes, i)
    BY <1>0, <1>1, <1>3, StoryNowIs
  <2>3. \A q \in in.selected[h] : emit[h][q].num # Own(in.lanes, i)
    BY <1>0, <1>2, <2>1
  <2> QED
    BY <2>2, <2>3 DEF Given
<1>4. ASSUME NEW r \in Regs, nb[h][r] # None PROVE NbNum(h, r) \notin Given(in, h)
  <2>1. NbNum(h, r) \in Nat /\ NbNum(h, r) < nextSequence[h]
    BY <1>0, <1>4, PlacedFacts
  <2>2. \A j \in in.direct[h] : Own(in.lanes, j) # NbNum(h, r)
    BY <1>0, <1>1, <2>1
  <2>3. \A q \in in.selected[h] : emit[h][q].num # NbNum(h, r)
    BY <1>0, <1>2, <1>4 DEF Fine, Sound, OnePlace
  <2> QED
    BY <2>2, <2>3 DEF Given
<1>5. ASSUME NEW r \in Regs, emit[h][r] # None, r \notin in.selected[h]
      PROVE  emit[h][r].num \notin Given(in, h)
  <2>1. emit[h][r].num \in Nat /\ emit[h][r].num < nextSequence[h]
    BY <1>0, <1>5, PlacedFacts
  <2>2. \A j \in in.direct[h] : Own(in.lanes, j) # emit[h][r].num
    BY <1>0, <1>1, <2>1
  <2>3. \A q \in in.selected[h] : emit[h][q].num # emit[h][r].num
    BY <1>0, <1>2, <1>5 DEF Fine, Sound, OnePlace
  <2> QED
    BY <2>2, <2>3 DEF Given
<1>6. ASSUME NEW n \in Given(in, h), n < nextSequence[h]
      PROVE  \E r \in in.selected[h] : n = emit[h][r].num
  <2>1. \A j \in in.direct[h] : n # Own(in.lanes, j)
    BY <1>0, <1>1, <1>6
  <2> QED
    BY <2>1 DEF Given
<1> QED
  BY <1>3, <1>4, <1>5, <1>6

(* A lane that takes a place fills it with its own record, to be resolved.   *)
LEMMA NextAlloc ==
    ASSUME NEW in, NEW h, GoesOn(in, h), BankStep(in), NEW r \in Regs,
           NEW i \in LanesOf(in, h), in.alloc[h][r] = {i}
    PROVE  /\ i \in LanesOf(in, h) /\ Allocates(in, i) /\ in.lanes[i].rd = r
           /\ nb'[h][r] # None /\ ~nb'[h][r].resolved
           /\ nb'[h][r].kind = in.lanes[i].kind
           /\ nb'[h][r].rec.num = Own(in.lanes, i) /\ nb'[h][r].rec.end = "gpr"
<1>1. Fine(in, h) /\ h \in CapHarts /\ nb'[h][r] = NextNb(in, h, r)
  BY DEF GoesOn, Fine, BankStep
<1>2. i \in Lanes /\ i \in LanesOf(in, h) /\ Allocates(in, i) /\ in.lanes[i].rd = r
  <2>1. i \in Lanes
    BY <1>1, AllocIs DEF LanesOf
  <2> QED
    BY <1>1, <2>1, AllocIs
<1>3. LaneRecord(in, i) = Record(Own(in.lanes, i), "gpr", None)
  BY <1>1, <1>2, LaneFates
<1>4. nb'[h][r] = [rec |-> Record(Own(in.lanes, i), "gpr", None),
                   kind |-> in.lanes[i].kind, resolved |-> FALSE]
  BY <1>1, <1>2, <1>3, NextPlaces
<1>5. Own(in.lanes, i) \in Nat /\ in.lanes[i].kind \in {"load", "div"}
  BY <1>1, <1>2, StoryNowIs DEF Allocates, Nonblock
<1>6. nb'[h][r] \in LateTypes
  BY <1>4, <1>5 DEF LateTypes, RecordTypes, Record
<1>7. nb'[h][r] # None
  BY <1>6, CaptureAssumption DEF CaptureAssumption
<1>8. /\ ~nb'[h][r].resolved /\ nb'[h][r].kind = in.lanes[i].kind
      /\ nb'[h][r].rec.num = Own(in.lanes, i) /\ nb'[h][r].rec.end = "gpr"
  BY <1>4 DEF Record
<1> QED
  BY <1>2, <1>7, <1>8

(* The numbers that the places hold after the cycle.                         *)
LEMMA NextNums ==
    ASSUME NEW in, NEW h, GoesOn(in, h), BankStep(in), NEW r \in Regs
    PROVE  /\ nb'[h][r] # None <=> \/ in.alloc[h][r] # {}
                                   \/ nb[h][r] # None /\ ~Moves(in, h, r)
           /\ nb[h][r] # None /\ ~Moves(in, h, r) =>
                 /\ in.alloc[h][r] = {}
                 /\ nb'[h][r] = [rec |-> Resolved(in, h, r), kind |-> nb[h][r].kind,
                                 resolved |-> Settled(in, h, r)]
                 /\ nb'[h][r].rec.num = NbNum(h, r)
           /\ emit'[h][r] # None <=> \/ Moves(in, h, r)
                                     \/ emit[h][r] # None /\ r \notin in.selected[h]
           /\ Moves(in, h, r) =>
                 /\ nb[h][r] # None /\ Settled(in, h, r)
                 /\ emit'[h][r] = Resolved(in, h, r) /\ emit'[h][r].num = NbNum(h, r)
           /\ ~Moves(in, h, r) /\ r \notin in.selected[h] => emit'[h][r] = emit[h][r]
<1>0. Fine(in, h) /\ h \in CapHarts
  BY DEF GoesOn, Fine
<1>1. nb'[h][r] = NextNb(in, h, r) /\ emit'[h][r] = NextEmit(in, h, r)
  BY <1>0 DEF BankStep
<1>2. nb[h][r] # None => Resolved(in, h, r) \in RecordTypes
                         /\ Resolved(in, h, r).num = NbNum(h, r)
  BY <1>0, LateRecord
<1>3. None \notin LateTypes /\ None \notin RecordTypes
  BY CaptureAssumption DEF CaptureAssumption
<1>4. nb[h][r] # None => nb[h][r].kind \in {"load", "div"}
  BY <1>0, PlacedFacts DEF LateTypes
<1>5. ASSUME nb[h][r] # None, ~Moves(in, h, r)
      PROVE  /\ in.alloc[h][r] = {} /\ nb'[h][r] # None
             /\ nb'[h][r] = [rec |-> Resolved(in, h, r), kind |-> nb[h][r].kind,
                             resolved |-> Settled(in, h, r)]
             /\ nb'[h][r].rec.num = NbNum(h, r)
  <2>1. /\ in.alloc[h][r] = {}
        /\ nb'[h][r] = [rec |-> Resolved(in, h, r), kind |-> nb[h][r].kind,
                        resolved |-> Settled(in, h, r)]
    BY <1>1, <1>5, NextPlaces
  <2>2. Settled(in, h, r) \in BOOLEAN
    <3>1. nb[h][r].resolved \in BOOLEAN
      BY <1>0, <1>5, PlacedFacts DEF LateTypes
    <3> QED
      BY <3>1 DEF Settled, OldReturn, Arrives
  <2>3. nb'[h][r] \in LateTypes
    BY <1>2, <1>4, <1>5, <2>1, <2>2 DEF LateTypes
  <2> QED
    BY <1>2, <1>3, <1>5, <2>1, <2>3
<1>6. in.alloc[h][r] # {} => nb'[h][r] # None
  <2> SUFFICES ASSUME in.alloc[h][r] # {} PROVE nb'[h][r] # None
    OBVIOUS
  <2>1. PICK i \in LanesOf(in, h) : in.alloc[h][r] = {i} /\ Allocates(in, i)
    BY <1>0, AllocIs
  <2>2. nb'[h][r] # None /\ nb'[h][r].rec.num = Own(in.lanes, i)
    BY <2>1, NextAlloc
  <2> QED
    BY <2>2
<1>7. ASSUME in.alloc[h][r] = {}, nb[h][r] = None \/ Moves(in, h, r) PROVE nb'[h][r] = None
  BY <1>1, <1>7, NextPlaces
<1>8. Moves(in, h, r) =>
         /\ nb[h][r] # None /\ Settled(in, h, r)
         /\ emit'[h][r] = Resolved(in, h, r) /\ emit'[h][r].num = NbNum(h, r)
         /\ emit'[h][r] # None
  BY <1>1, <1>2, <1>3, NextPlaces
<1>9. ~Moves(in, h, r) => emit'[h][r] = IF r \in in.selected[h] THEN None ELSE emit[h][r]
  BY <1>1, NextPlaces
<1> QED
  BY <1>5, <1>6, <1>7, <1>8, <1>9

(* Numbers run on.                                                           *)
LEMMA NextCounts ==
    ASSUME NEW in, NEW h, Fine(in, h), Step(in)
    PROVE  /\ nextSequence'[h] \in Nat /\ nextSequence'[h] >= nextSequence[h]
           /\ nextSequence'[h] <= Len(StoryNow(in, h))
           /\ h \in StoppedNext(in) => nextSequence'[h] = nextSequence[h]
           /\ h \notin StoppedNext(in) => nextSequence'[h] = Len(StoryNow(in, h))
<1>1. nextSequence'[h] = nextSequence[h] + Cardinality(ProcessedOf(in, h))
  BY DEF Step, Fine
<1>2. /\ nextSequence[h] \in Nat /\ Len(story[h]) \in Nat /\ nextSequence[h] <= Len(story[h])
  BY DEF Fine, BankTypes, MarkerInv, MarkerTypes, Sound, Numbered
<1>3. /\ Cardinality(LanesOf(in, h)) \in Nat
      /\ Len(StoryNow(in, h)) = Len(story[h]) + Cardinality(LanesOf(in, h))
  BY StoryNowIs
<1>4. CASE h \in StoppedNext(in)
  <2>1. Cardinality(ProcessedOf(in, h)) = 0
    BY <1>4, ProcessedLanes, FS_EmptySet
  <2> QED
    BY <1>1, <1>2, <1>3, <1>4, <2>1
<1>5. CASE h \notin StoppedNext(in)
  <2>1. ProcessedOf(in, h) = LanesOf(in, h)
    BY <1>5, ProcessedLanes
  <2>2. nextSequence[h] = Len(story[h])
    BY <1>5, DirectIs
  <2> QED
    BY <1>1, <1>2, <1>3, <1>5, <2>1, <2>2
<1> QED
  BY <1>4, <1>5

(* The five parts of Sound after a cycle without an error: the numbers are   *)
(* still those of the instructions.                                          *)
LEMMA NumberedNext ==
    ASSUME NEW in, NEW h, GoesOn(in, h), Step(in)
    PROVE  Numbered(h)'
<1>0. Fine(in, h) /\ h \in CapHarts /\ CoreStep(in) /\ MarkerStep(in) /\ BankStep(in)
  BY DEF GoesOn, Fine, Step
<1>1. Len(story'[h]) = Len(StoryNow(in, h))
  BY <1>0, NextStory
<1>2. stopped' = StoppedNext(in)
  BY <1>0 DEF MarkerStep
<1>3. parked'[h] # None => parked'[h] < nextSequence'[h]
  <2> SUFFICES ASSUME parked'[h] # None PROVE parked'[h] < nextSequence'[h]
    OBVIOUS
  <2> DEFINE marks(i) == in.lanes[i] = [hart |-> h, kind |-> "marker"]
             first == CHOOSE i \in Lanes : marks(i)
  <2>1. parked'[h] = IF \E i \in Lanes : marks(i) THEN Own(in.lanes, first) ELSE parked[h]
    BY <1>0 DEF CoreStep
  <2>2. CASE \E i \in Lanes : marks(i)
    <3>1. first \in Lanes /\ marks(first)
      BY <2>2
    <3>2. parked'[h] = Own(in.lanes, first)
      BY <2>1, <2>2
    <3>3. in.lanes[first].hart = h /\ in.lanes[first].kind = "marker"
      BY <3>1
    <3>4. in.lanes[first] # None
      <4>1. in.lanes[first] \in LaneInputs
        BY <1>0, <3>1 DEF LaneInputs
      <4>2. None \notin LaneInputs
        BY CaptureAssumption DEF CaptureAssumption
      <4> QED
        BY <4>1, <4>2
    <3> HIDE DEF first
    <3>5. first \in LanesOf(in, h)
      BY <3>1, <3>3, <3>4 DEF LanesOf
    <3>6. h \notin StoppedNext(in)
      BY <1>0, <3>1, <3>3, <3>4, WorkersRun DEF Fine
    <3> QED
      BY <1>0, <3>2, <3>5, <3>6, NextCounts, StoryNowIs
  <2>3. CASE ~\E i \in Lanes : marks(i)
    <3>1. parked'[h] = parked[h]
      BY <2>1, <2>3
    <3>2. parked[h] < nextSequence[h] /\ parked[h] \in Nat /\ nextSequence[h] \in Nat
      BY <1>0, <3>1 DEF Fine, Sound, Numbered, MarkerInv, MarkerTypes, BankTypes
    <3> QED
      BY <1>0, <3>1, <3>2, NextCounts
  <2> QED
    BY <2>2, <2>3
<1> QED
  BY <1>0, <1>1, <1>2, <1>3, NextCounts DEF Numbered

-----------------------------------------------------------------------------
(* The core waits on for a register exactly when the bank does.              *)
LEMMA WaitsOn ==
    ASSUME NEW in, NEW h, Fine(in, h), CoreStep(in), NEW r \in Regs, in.alloc[h][r] = {}
    PROVE  waiting'[h][r] = IF nb[h][r] = None \/ Settled(in, h, r) THEN None
                            ELSE waiting[h][r]
<1> DEFINE over == \/ Hits(in.lanes, h, r)
                   \/ \E k \in {"load", "div"} : Arrives(in, k, h, r)
<1>1. waiting'[h][r] = IF over THEN None ELSE waiting[h][r]
  BY NextWaiting
<1>2. Legal(in) /\ h \in CapHarts
  BY DEF Fine
<1>3. waiting[h][r] # None <=> nb[h][r] # None /\ ~nb[h][r].resolved
  BY DEF Fine, Sound, InStep
<1>4. CASE waiting[h][r] = None
  <2>1. nb[h][r] = None \/ nb[h][r].resolved
    BY <1>3, <1>4
  <2> QED
    BY <1>1, <1>4, <2>1 DEF Settled
<1>5. CASE waiting[h][r] # None
  <2>1. /\ nb[h][r] # None /\ ~nb[h][r].resolved /\ waiting[h][r].kind = nb[h][r].kind
        /\ nb[h][r].kind \in {"load", "div"}
    <3>1. nb[h][r] # None /\ ~nb[h][r].resolved /\ waiting[h][r].kind = nb[h][r].kind
      BY <1>3, <1>5 DEF Fine, Sound, InStep
    <3> QED
      BY <1>5, <3>1, WaitingFacts
  <2>2. in.cancel[h][r] # {} <=> Hits(in.lanes, h, r)
    BY <1>2, <1>5, CancelIs
  <2>3. ASSUME ~Hits(in.lanes, h, r)
        PROVE  OldReturn(in, h, r) <=> \E k \in {"load", "div"} : Arrives(in, k, h, r)
    <3>1. \A k \in {"load", "div"} : Arrives(in, k, h, r) => nb[h][r].kind = k
      BY <1>2, <2>1, <2>3, ArrivalCases
    <3> QED
      BY <2>1, <3>1 DEF OldReturn
  <2>4. Settled(in, h, r) <=> over
    BY <2>1, <2>2, <2>3 DEF Settled
  <2> QED
    BY <1>1, <2>1, <2>4
<1> QED
  BY <1>4, <1>5

(* The core and the bank start, cancel and finish a wait in the same cycle.  *)
LEMMA InStepNext ==
    ASSUME NEW in, NEW h, GoesOn(in, h), Step(in)
    PROVE  InStep(h)'
<1>0. Fine(in, h) /\ h \in CapHarts /\ CoreStep(in) /\ BankStep(in)
  BY DEF GoesOn, Fine, Step
<1> SUFFICES ASSUME NEW r \in Regs
    PROVE  /\ waiting'[h][r] # None <=> nb'[h][r] # None /\ ~nb'[h][r].resolved
           /\ waiting'[h][r] # None =>
                 /\ nb'[h][r].rec.num = waiting'[h][r].num
                 /\ nb'[h][r].kind = waiting'[h][r].kind
                 /\ nb'[h][r].rec.end = "gpr"
                 /\ story'[h][waiting'[h][r].num + 1].fate = "waits"
  BY DEF InStep, FateOf
<1>1. CASE in.alloc[h][r] # {}
  <2>1. PICK i \in LanesOf(in, h) : in.alloc[h][r] = {i} /\ Allocates(in, i)
    BY <1>0, <1>1, AllocIs
  <2>2. i \in Lanes
    BY DEF LanesOf
  <2>3. waiting'[h][r] = [kind |-> in.lanes[i].kind, num |-> Own(in.lanes, i)]
    BY <1>0, <2>1, <2>2, NextWaiting
  <2>4. /\ nb'[h][r] # None /\ ~nb'[h][r].resolved
        /\ nb'[h][r].kind = in.lanes[i].kind
        /\ nb'[h][r].rec.num = Own(in.lanes, i) /\ nb'[h][r].rec.end = "gpr"
    BY <1>0, <2>1, NextAlloc
  <2>5. waiting'[h][r] # None
    <3>1. Own(in.lanes, i) \in Nat /\ in.lanes[i].kind \in {"load", "div"}
      BY <1>0, <2>1, StoryNowIs DEF Allocates, Nonblock
    <3>2. waiting'[h][r] \in WaitTypes
      BY <2>3, <3>1 DEF WaitTypes
    <3> QED
      BY <3>2, CaptureAssumption DEF CaptureAssumption
  <2>6. /\ Own(in.lanes, i) + 1 \in 1..Len(StoryNow(in, h))
        /\ (Own(in.lanes, i) + 1) - 1 = Own(in.lanes, i)
    BY <1>0, StoryNowIs
  <2>7. (Own(in.lanes, i) + 1) - 1 \notin Given(in, h)
    BY <2>1, <2>6, NotGiven
  <2>8. story'[h][Own(in.lanes, i) + 1] = StoryNow(in, h)[Own(in.lanes, i) + 1]
    BY <1>0, <2>6, <2>7, NextStory
  <2>9. story'[h][Own(in.lanes, i) + 1].fate = "waits"
    <3>1. StoryNow(in, h)[Own(in.lanes, i) + 1] = Fate(in, i)
      BY <1>0, StoryNowIs
    <3>2. Fate(in, i).fate = "waits"
      BY <1>0, <2>1, LaneFates
    <3> QED
      BY <2>8, <3>1, <3>2
  <2> QED
    BY <2>3, <2>4, <2>5, <2>9
<1>2. CASE in.alloc[h][r] = {}
  <2>1. waiting'[h][r] = IF nb[h][r] = None \/ Settled(in, h, r) THEN None ELSE waiting[h][r]
    BY <1>0, <1>2, WaitsOn
  <2>2. CASE nb[h][r] = None \/ Moves(in, h, r)
    <3>1. nb'[h][r] = None
      <4>1. nb'[h][r] # None => \/ in.alloc[h][r] # {}
                                \/ nb[h][r] # None /\ ~Moves(in, h, r)
        BY <1>0, NextNums
      <4> QED
        BY <4>1, <1>2, <2>2
    <3>2. nb[h][r] = None \/ Settled(in, h, r)
      BY <1>0, <2>2, NextNums
    <3> QED
      BY <2>1, <3>1, <3>2
  <2>3. CASE nb[h][r] # None /\ ~Moves(in, h, r)
    <3>1. /\ nb'[h][r] # None
          /\ nb'[h][r] = [rec |-> Resolved(in, h, r), kind |-> nb[h][r].kind,
                          resolved |-> Settled(in, h, r)]
      BY <1>0, <2>3, NextNums
    <3>2. CASE Settled(in, h, r)
      BY <2>1, <3>1, <3>2
    <3>3. CASE ~Settled(in, h, r)
      <4>1. /\ Resolved(in, h, r) = nb[h][r].rec /\ waiting[h][r] # None
            /\ StoryNow(in, h)[NbNum(h, r) + 1].fate = "waits"
        BY <1>0, <2>3, <3>3, LateRecord
      <4>2. /\ NbNum(h, r) = waiting[h][r].num /\ nb[h][r].rec.num = waiting[h][r].num
            /\ nb[h][r].kind = waiting[h][r].kind /\ nb[h][r].rec.end = "gpr"
        BY <1>0, <4>1 DEF Fine, Sound, InStep, NbNum
      <4>3. waiting'[h][r] = waiting[h][r]
        BY <2>1, <2>3, <3>3
      <4>4. NbNum(h, r) \in Nat /\ NbNum(h, r) + 1 \in 1..Len(StoryNow(in, h))
        <5>0. NbNum(h, r) \in Nat /\ NbNum(h, r) + 1 \in 1..Len(story[h])
          BY <1>0, <2>3, PlacedFacts DEF Fine
        <5>1. /\ Len(story[h]) \in Nat /\ Len(StoryNow(in, h)) \in Nat
              /\ Len(StoryNow(in, h)) >= Len(story[h])
          BY <1>0, StoryNowIs
        <5> QED
          BY <5>0, <5>1
      <4>5. (NbNum(h, r) + 1) - 1 \notin Given(in, h)
        BY <2>3, <4>4, NotGiven
      <4>6. story'[h][NbNum(h, r) + 1] = StoryNow(in, h)[NbNum(h, r) + 1]
        BY <1>0, <4>4, <4>5, NextStory
      <4> QED
        BY <3>1, <3>3, <4>1, <4>2, <4>3, <4>6
    <3> QED
      BY <3>2, <3>3
  <2> QED
    BY <2>2, <2>3
<1> QED
  BY <1>1, <1>2

(* A number that is placed and not handed over keeps what was told of it.    *)
LEMMA KeepsTold ==
    ASSUME NEW in, NEW h, GoesOn(in, h), BankStep(in),
           NEW n \in Nat, n + 1 \in 1..Len(story[h]), n \notin Given(in, h)
    PROVE  story'[h][n + 1] = StoryNow(in, h)[n + 1]
<1>0. Fine(in, h)
  BY DEF GoesOn
<1>1. Len(story[h]) \in Nat
  BY <1>0 DEF Fine, MarkerInv, MarkerTypes
<1>2. Len(StoryNow(in, h)) \in Nat /\ Len(StoryNow(in, h)) >= Len(story[h])
  BY <1>0, <1>1, StoryNowIs
<1>3. n + 1 \in 1..Len(StoryNow(in, h)) /\ (n + 1) - 1 = n
  BY <1>1, <1>2
<1> QED
  BY <1>3, NextStory

(* A record whose fate is decided names it, whichever place it goes to.      *)
LEMMA TrueNext ==
    ASSUME NEW in, NEW h, GoesOn(in, h), Step(in)
    PROVE  TrueRecords(h)'
<1>0. Fine(in, h) /\ BankStep(in)
  BY DEF GoesOn, Step
<1> SUFFICES ASSUME NEW r \in Regs
    PROVE  /\ nb'[h][r] # None /\ nb'[h][r].resolved =>
                 Tells(nb'[h][r].rec, story'[h][nb'[h][r].rec.num + 1])
           /\ emit'[h][r] # None => Tells(emit'[h][r], story'[h][emit'[h][r].num + 1])
  BY DEF TrueRecords, FateOf
<1>1. nb[h][r] # None => /\ NbNum(h, r) \in Nat /\ NbNum(h, r) + 1 \in 1..Len(story[h])
                         /\ NbNum(h, r) \notin Given(in, h)
  BY <1>0, PlacedFacts, NotGiven
<1>2. nb[h][r] # None => story'[h][NbNum(h, r) + 1] = StoryNow(in, h)[NbNum(h, r) + 1]
  BY <1>0, <1>1, KeepsTold
<1>3. ASSUME nb[h][r] # None, Settled(in, h, r)
      PROVE  Tells(Resolved(in, h, r), story'[h][NbNum(h, r) + 1])
  BY <1>0, <1>2, <1>3, LateRecord
<1>4. ASSUME nb'[h][r] # None, nb'[h][r].resolved
      PROVE  Tells(nb'[h][r].rec, story'[h][nb'[h][r].rec.num + 1])
  <2>1. in.alloc[h][r] = {}
    <3> SUFFICES ASSUME in.alloc[h][r] # {} PROVE FALSE
      OBVIOUS
    <3>1. PICK i \in LanesOf(in, h) : in.alloc[h][r] = {i} /\ Allocates(in, i)
      BY <1>0, AllocIs
    <3>2. ~nb'[h][r].resolved
      BY <1>0, <3>1, NextAlloc
    <3> QED
      BY <1>4, <3>2
  <2>2. nb[h][r] # None /\ ~Moves(in, h, r)
    BY <1>0, <1>4, <2>1, NextNums
  <2>3. /\ nb'[h][r] = [rec |-> Resolved(in, h, r), kind |-> nb[h][r].kind,
                        resolved |-> Settled(in, h, r)]
        /\ nb'[h][r].rec.num = NbNum(h, r)
    BY <1>0, <2>2, NextNums
  <2> QED
    BY <1>3, <1>4, <2>2, <2>3
<1>5. ASSUME emit'[h][r] # None
      PROVE  Tells(emit'[h][r], story'[h][emit'[h][r].num + 1])
  <2>1. CASE Moves(in, h, r)
    <3>1. /\ nb[h][r] # None /\ Settled(in, h, r)
          /\ emit'[h][r] = Resolved(in, h, r) /\ emit'[h][r].num = NbNum(h, r)
      BY <1>0, <2>1, NextNums
    <3> QED
      BY <1>3, <3>1
  <2>2. CASE ~Moves(in, h, r)
    <3>1. emit[h][r] # None /\ r \notin in.selected[h] /\ emit'[h][r] = emit[h][r]
      BY <1>0, <1>5, <2>2, NextNums
    <3>2. /\ emit[h][r].num \in Nat /\ emit[h][r].num + 1 \in 1..Len(story[h])
          /\ emit[h][r].num \notin Given(in, h)
      BY <1>0, <3>1, PlacedFacts, NotGiven
    <3>3. story'[h][emit[h][r].num + 1] = StoryNow(in, h)[emit[h][r].num + 1]
      BY <1>0, <3>2, KeepsTold
    <3>4. Tells(emit[h][r], StoryNow(in, h)[emit[h][r].num + 1])
      BY <1>0, <3>1, EmitTells
    <3> QED
      BY <3>1, <3>3, <3>4
  <2> QED
    BY <2>1, <2>2
<1> QED
  BY <1>4, <1>5

-----------------------------------------------------------------------------
(* Where a number is placed after the cycle.                                 *)
LEMMA NextNbNum ==
    ASSUME NEW in, NEW h, GoesOn(in, h), BankStep(in), NEW r \in Regs, nb'[h][r] # None
    PROVE  \/ \E i \in LanesOf(in, h) : /\ Allocates(in, i) /\ in.lanes[i].rd = r
                                        /\ nb'[h][r].rec.num = Own(in.lanes, i)
           \/ /\ nb[h][r] # None /\ ~Moves(in, h, r)
              /\ nb'[h][r].rec.num = NbNum(h, r)
<1>0. Fine(in, h)
  BY DEF GoesOn
<1>1. CASE in.alloc[h][r] # {}
  <2>1. PICK i \in LanesOf(in, h) : in.alloc[h][r] = {i} /\ Allocates(in, i)
    BY <1>0, <1>1, AllocIs
  <2>2. in.lanes[i].rd = r /\ nb'[h][r].rec.num = Own(in.lanes, i)
    BY <2>1, NextAlloc
  <2> QED
    BY <2>1, <2>2
<1>2. CASE in.alloc[h][r] = {}
  <2>1. nb[h][r] # None /\ ~Moves(in, h, r)
    BY <1>2, NextNums
  <2>2. nb'[h][r].rec.num = NbNum(h, r)
    BY <2>1, NextNums
  <2> QED
    BY <2>1, <2>2
<1> QED
  BY <1>1, <1>2

(* A record in the second place was there, or comes from the first.          *)
LEMMA NextEmitNum ==
    ASSUME NEW in, NEW h, GoesOn(in, h), BankStep(in), NEW r \in Regs, emit'[h][r] # None
    PROVE  \/ Moves(in, h, r) /\ nb[h][r] # None /\ emit'[h][r].num = NbNum(h, r)
           \/ /\ ~Moves(in, h, r) /\ emit[h][r] # None /\ r \notin in.selected[h]
              /\ emit'[h][r].num = emit[h][r].num
<1>1. CASE Moves(in, h, r)
  <2>1. nb[h][r] # None /\ emit'[h][r].num = NbNum(h, r)
    BY <1>1, NextNums
  <2> QED
    BY <1>1, <2>1
<1>2. CASE ~Moves(in, h, r)
  <2>1. emit[h][r] # None /\ r \notin in.selected[h]
    BY <1>2, NextNums
  <2>2. emit'[h][r] = emit[h][r]
    BY <1>2, <2>1, NextNums
  <2> QED
    BY <1>2, <2>1, <2>2
<1> QED
  BY <1>1, <1>2

(* A number that comes into a place is new or leaves another.                *)
LEMMA OnePlaceNext ==
    ASSUME NEW in, NEW h, GoesOn(in, h), Step(in)
    PROVE  OnePlace(h)'
<1>0. Fine(in, h) /\ BankStep(in)
  BY DEF GoesOn, Step
<1> DEFINE was == nextSequence[h]
           now == nextSequence'[h]
           num(r) == NbNum(h, r)
           own(i) == Own(in.lanes, i)
           takes(r) == {i \in LanesOf(in, h) : Allocates(in, i) /\ in.lanes[i].rd = r}
<1>1. was \in Nat /\ now \in Nat /\ was <= now
  BY <1>0, NextCounts DEF Fine, BankTypes
<1>2. ASSUME NEW i \in LanesOf(in, h), Allocates(in, i)
      PROVE  own(i) \in Nat /\ own(i) >= was /\ own(i) < now
  <2>1. h \notin StoppedNext(in)
    BY <1>0, <1>2, DirectIs
  <2>2. was = Len(story[h]) /\ now = Len(StoryNow(in, h))
    BY <1>0, <2>1, DirectIs, NextCounts
  <2> QED
    BY <1>0, <2>2, StoryNowIs
<1>3. \A r \in Regs : /\ nb[h][r] # None => num(r) \in Nat /\ num(r) < was
                      /\ emit[h][r] # None => emit[h][r].num \in Nat /\ emit[h][r].num < was
  BY <1>0, PlacedFacts
<1>4. \A r \in Regs : nb'[h][r] # None =>
         \/ \E i \in takes(r) : nb'[h][r].rec.num = own(i)
         \/ nb[h][r] # None /\ ~Moves(in, h, r) /\ nb'[h][r].rec.num = num(r)
  BY <1>0, NextNbNum
<1>5. \A r \in Regs : emit'[h][r] # None =>
         \/ Moves(in, h, r) /\ nb[h][r] # None /\ emit'[h][r].num = num(r)
         \/ /\ ~Moves(in, h, r) /\ emit[h][r] # None
            /\ emit'[h][r].num = emit[h][r].num
  BY <1>0, NextEmitNum
<1>6. \A r, q \in Regs : \A i \in takes(r), j \in takes(q) : own(i) = own(j) => r = q
  <2> SUFFICES ASSUME NEW r \in Regs, NEW q \in Regs, NEW i \in takes(r), NEW j \in takes(q),
                      own(i) = own(j)
               PROVE  r = q
    OBVIOUS
  <2>1. i = j
    BY <1>0, StoryNowIs
  <2> QED
    BY <2>1
<1>7. \A r, q \in Regs :
         /\ nb[h][r] # None /\ nb[h][q] # None /\ num(r) = num(q) => r = q
         /\ emit[h][r] # None /\ emit[h][q] # None /\ emit[h][r].num = emit[h][q].num => r = q
         /\ nb[h][r] # None /\ emit[h][q] # None => num(r) # emit[h][q].num
  BY <1>0 DEF Fine, Sound, OnePlace
<1>8. \A r \in Regs : \A i \in takes(r) : own(i) \in Nat /\ own(i) >= was /\ own(i) < now
  BY <1>2
<1> HIDE DEF was, now, num, own, takes
<1>9. ASSUME NEW r \in Regs, nb'[h][r] # None PROVE nb'[h][r].rec.num < now
  BY <1>1, <1>3, <1>4, <1>8, <1>9
<1>10. ASSUME NEW r \in Regs, emit'[h][r] # None
       PROVE  emit'[h][r].num < was /\ emit'[h][r].num \in Nat
  BY <1>1, <1>3, <1>5, <1>10
<1>11. ASSUME NEW r \in Regs, NEW q \in Regs, nb'[h][r] # None, nb'[h][q] # None,
              nb'[h][r].rec.num = nb'[h][q].rec.num
       PROVE  r = q
  <2>1. CASE \E i \in takes(r) : nb'[h][r].rec.num = own(i)
    <3>1. PICK i \in takes(r) : nb'[h][r].rec.num = own(i)
      BY <2>1
    <3>2. ~(nb[h][q] # None /\ nb'[h][q].rec.num = num(q))
      <4>1. nb'[h][q].rec.num \in Nat /\ nb'[h][q].rec.num >= was
        BY <1>8, <1>11, <3>1
      <4> QED
        BY <1>1, <1>3, <4>1
    <3>3. PICK j \in takes(q) : nb'[h][q].rec.num = own(j)
      BY <1>4, <1>11, <3>2
    <3> QED
      BY <1>6, <1>11, <3>1, <3>3
  <2>2. CASE nb[h][r] # None /\ ~Moves(in, h, r) /\ nb'[h][r].rec.num = num(r)
    <3>1. ~\E j \in takes(q) : nb'[h][q].rec.num = own(j)
      BY <1>1, <1>3, <1>8, <1>11, <2>2
    <3>2. nb[h][q] # None /\ nb'[h][q].rec.num = num(q)
      BY <1>4, <1>11, <3>1
    <3> QED
      BY <1>7, <1>11, <2>2, <3>2
  <2> QED
    BY <1>4, <1>11, <2>1, <2>2
<1>12. ASSUME NEW r \in Regs, NEW q \in Regs, emit'[h][r] # None, emit'[h][q] # None,
              emit'[h][r].num = emit'[h][q].num
       PROVE  r = q
  BY <1>5, <1>7, <1>12
<1>13. ASSUME NEW r \in Regs, NEW q \in Regs, nb'[h][r] # None, emit'[h][q] # None
       PROVE  nb'[h][r].rec.num # emit'[h][q].num
  <2>1. CASE \E i \in takes(r) : nb'[h][r].rec.num = own(i)
    BY <1>1, <1>8, <1>10, <1>13, <2>1
  <2>2. CASE nb[h][r] # None /\ ~Moves(in, h, r) /\ nb'[h][r].rec.num = num(r)
    BY <1>5, <1>7, <1>13, <2>2
  <2> QED
    BY <1>4, <1>13, <2>1, <2>2
<1>14. ASSUME NEW r \in Regs, emit'[h][r] # None PROVE emit'[h][r].num < now
  BY <1>1, <1>10, <1>14
<1> QED
  BY <1>9, <1>11, <1>12, <1>13, <1>14 DEF OnePlace, NbNum, now

(* A number stays placed until its record is handed over, and is placed when *)
(* its lane takes a place.                                                   *)
LEMMA PlacedNext ==
    ASSUME NEW in, NEW h, GoesOn(in, h), BankStep(in), NEW n
    PROVE  Placed(h, n)' <=>
             \/ Placed(h, n) /\ n \notin Given(in, h)
             \/ \E i \in LanesOf(in, h) : Allocates(in, i) /\ n = Own(in.lanes, i)
<1>0. Fine(in, h)
  BY DEF GoesOn
<1>1. ASSUME NEW r \in Regs, nb'[h][r] # None, nb'[h][r].rec.num = n
      PROVE  \/ Placed(h, n) /\ n \notin Given(in, h)
             \/ \E i \in LanesOf(in, h) : Allocates(in, i) /\ n = Own(in.lanes, i)
  <2>1. CASE \E i \in LanesOf(in, h) : /\ Allocates(in, i)
                                       /\ nb'[h][r].rec.num = Own(in.lanes, i)
    BY <1>1, <2>1
  <2>2. CASE nb[h][r] # None /\ nb'[h][r].rec.num = NbNum(h, r)
    BY <1>1, <2>2, NotGiven DEF Placed
  <2> QED
    BY <1>1, <2>1, <2>2, NextNbNum
<1>2. ASSUME NEW r \in Regs, emit'[h][r] # None, emit'[h][r].num = n
      PROVE  Placed(h, n) /\ n \notin Given(in, h)
  <2>1. CASE nb[h][r] # None /\ emit'[h][r].num = NbNum(h, r)
    BY <1>2, <2>1, NotGiven DEF Placed
  <2>2. CASE /\ emit[h][r] # None /\ r \notin in.selected[h]
             /\ emit'[h][r].num = emit[h][r].num
    BY <1>2, <2>2, NotGiven DEF Placed
  <2> QED
    BY <1>2, <2>1, <2>2, NextEmitNum
<1>3. ASSUME Placed(h, n), n \notin Given(in, h) PROVE Placed(h, n)'
  <2>1. PICK r \in Regs : \/ nb[h][r] # None /\ NbNum(h, r) = n
                          \/ emit[h][r] # None /\ emit[h][r].num = n
    BY <1>3 DEF Placed
  <2>2. CASE nb[h][r] # None /\ NbNum(h, r) = n
    <3>1. CASE Moves(in, h, r)
      <4>1. emit'[h][r] # None /\ emit'[h][r].num = n
        BY <2>2, <3>1, NextNums
      <4> QED
        BY <4>1 DEF Placed
    <3>2. CASE ~Moves(in, h, r)
      <4>1. nb'[h][r] # None
        BY <2>2, <3>2, NextNums
      <4>2. nb'[h][r].rec.num = n
        BY <2>2, <3>2, NextNums
      <4> QED
        BY <4>1, <4>2 DEF Placed, NbNum
    <3> QED
      BY <3>1, <3>2
  <2>3. CASE emit[h][r] # None /\ emit[h][r].num = n
    <3>1. r \notin in.selected[h]
      BY <1>3, <2>3 DEF Given
    <3>2. ~Moves(in, h, r)
      BY <2>3, <3>1, NextPlaces
    <3>3. emit'[h][r] = emit[h][r]
      BY <3>1, <3>2, NextNums
    <3> QED
      BY <2>3, <3>3 DEF Placed
  <2> QED
    BY <2>1, <2>2, <2>3
<1>4. ASSUME NEW i \in LanesOf(in, h), Allocates(in, i), n = Own(in.lanes, i)
      PROVE  Placed(h, n)'
  <2> DEFINE r == in.lanes[i].rd
  <2>1. r \in Regs /\ i \in Lanes
    BY <1>0, <1>4 DEF Allocates, Nonblock, LanesOf, Fine, Legal, LaneTypes, LaneInputs
  <2>2. i \in in.alloc[h][r]
    BY <1>0, <1>4, <2>1, AllocIs
  <2>3. in.alloc[h][r] = {i}
    BY <1>0, <2>1, <2>2, AllocIs
  <2> HIDE DEF r
  <2>4. nb'[h][r] # None /\ nb'[h][r].rec.num = Own(in.lanes, i)
    BY <2>1, <2>3, NextAlloc
  <2> QED
    BY <1>4, <2>1, <2>4 DEF Placed, NbNum
<1> QED
  BY <1>1, <1>2, <1>3, <1>4 DEF Placed, NbNum

(* An injective image is as large as its set.                                *)
LEMMA SameSize ==
    ASSUME NEW S, IsFiniteSet(S), NEW f \in [S -> Nat],
           \A x, y \in S : f[x] = f[y] => x = y
    PROVE  /\ IsFiniteSet({f[x] : x \in S})
           /\ Cardinality({f[x] : x \in S}) = Cardinality(S)
<1> DEFINE T == {f[x] : x \in S}
<1>1. f \in Surjection(S, T)
  BY DEF Surjection
<1>2. f \in Injection(S, T)
  BY DEF Injection, IsInjective
<1> HIDE DEF T
<1>3. IsFiniteSet(T) /\ Cardinality(T) = Cardinality(S)
  BY <1>1, <1>2, FS_Surjection
<1> QED
  BY <1>3 DEF T

(* As many records leave as there are numbers handed over.                   *)
LEMMA GivenCount ==
    ASSUME NEW in, NEW h, GoesOn(in, h)
    PROVE  /\ IsFiniteSet(in.direct[h]) /\ IsFiniteSet(in.selected[h])
           /\ IsFiniteSet(Given(in, h)) /\ Given(in, h) \subseteq Nat
           /\ Cardinality(Given(in, h)) =
                 Cardinality(in.direct[h]) + Cardinality(in.selected[h])
<1>0. Fine(in, h) /\ Len(story[h]) \in Nat /\ nextSequence[h] \in Nat
      /\ nextSequence[h] <= Len(story[h])
  BY DEF GoesOn, Fine, MarkerInv, MarkerTypes, BankTypes, Sound, Numbered
<1> DEFINE A == in.direct[h]
           B == in.selected[h]
           f == [i \in A |-> Own(in.lanes, i)]
           g == [r \in B |-> emit[h][r].num]
           FA == {f[i] : i \in A}
           GB == {g[r] : r \in B}
<1>1. IsFiniteSet(A)
  <2>1. IsFiniteSet({0} \cup {1})
    BY FS_Singleton, FS_Union
  <2>2. A \subseteq {0} \cup {1}
    BY <1>0, DirectIs DEF LanesOf, Lanes
  <2> QED
    BY <2>1, <2>2, FS_Subset
<1>2. IsFiniteSet(B)
  <2>1. B \subseteq Regs
    BY <1>0, DirectIs
  <2> QED
    BY <2>1, FS_Subset, CaptureAssumption DEF CaptureAssumption
<1>3. /\ \A i \in A : i \in LanesOf(in, h)
      /\ \A i \in A : f[i] \in Nat /\ f[i] >= Len(story[h])
      /\ \A i, j \in A : f[i] = f[j] => i = j
  <2>1. \A i \in A : i \in LanesOf(in, h)
    BY <1>0, DirectIs
  <2> QED
    BY <1>0, <2>1, StoryNowIs
<1>4. /\ \A r \in B : g[r] \in Nat /\ g[r] < nextSequence[h]
      /\ \A r, q \in B : g[r] = g[q] => r = q
  <2>1. \A r \in B : r \in Regs /\ emit[h][r] # None
    BY <1>0, DirectIs
  <2>2. \A r \in B : g[r] \in Nat /\ g[r] < nextSequence[h]
    BY <1>0, <2>1, PlacedFacts
  <2>3. \A r, q \in B : g[r] = g[q] => r = q
    BY <1>0, <2>1 DEF Fine, Sound, OnePlace
  <2> QED
    BY <2>2, <2>3
<1>5. f \in [A -> Nat] /\ g \in [B -> Nat]
  BY <1>3, <1>4
<1>6. Given(in, h) = FA \cup GB
  BY DEF Given
<1> HIDE DEF A, B, f, g
<1>7. FA \cap GB = {} /\ FA \subseteq Nat /\ GB \subseteq Nat
  BY <1>0, <1>3, <1>4
<1>8. IsFiniteSet(FA) /\ Cardinality(FA) = Cardinality(A)
  BY ONLY <1>1, <1>3, <1>5, SameSize
<1>9. IsFiniteSet(GB) /\ Cardinality(GB) = Cardinality(B)
  BY ONLY <1>2, <1>4, <1>5, SameSize
<1> HIDE DEF FA, GB
<1>10. IsFiniteSet(FA \cup GB) /\ Cardinality(FA \cup GB) = Cardinality(A) + Cardinality(B)
  <2>1. Cardinality(FA \cap GB) = 0
    BY <1>7, FS_EmptySet
  <2>2. /\ IsFiniteSet(FA \cup GB)
        /\ Cardinality(FA \cup GB) =
              Cardinality(FA) + Cardinality(GB) - Cardinality(FA \cap GB)
    BY <1>8, <1>9, FS_Union
  <2>3. Cardinality(FA) \in Nat /\ Cardinality(GB) \in Nat
    BY <1>8, <1>9, FS_CardinalityType
  <2> QED
    BY <1>8, <1>9, <2>1, <2>2, <2>3
<1> QED
  BY <1>1, <1>2, <1>6, <1>7, <1>10 DEF A, B

(* What leaves the places is recorded, and counted once.                     *)
LEMMA NoneLostNext ==
    ASSUME NEW in, NEW h, GoesOn(in, h), Step(in)
    PROVE  NoneLost(h)'
<1>0. Fine(in, h) /\ BankStep(in) /\ h \in CapHarts
  BY DEF GoesOn, Step, Fine
<1> DEFINE L == Len(story[h])
           N == Len(StoryNow(in, h))
           was == nextSequence[h]
           now == nextSequence'[h]
           old == RecordedOf(h)
           next == {n \in 1..N : story'[h][n].fate = "recorded"}
           given == Given(in, h)
<1>1. /\ L \in Nat /\ N \in Nat /\ was \in Nat /\ now \in Nat
      /\ was <= L /\ L <= N /\ was <= now /\ now <= N
  <2>1. L \in Nat /\ was \in Nat /\ was <= L
    BY <1>0 DEF Fine, MarkerInv, MarkerTypes, BankTypes, Sound, Numbered
  <2>2. now \in Nat /\ was <= now /\ now <= N
    BY <1>0, NextCounts
  <2>3. N \in Nat /\ L <= N
    BY <1>0, <2>1, StoryNowIs
  <2> QED
    BY <2>1, <2>2, <2>3
<1>2. Len(story'[h]) = N
  BY <1>0, NextStory
<1>3. RecordedOf(h)' = next
  BY <1>2 DEF RecordedOf
<1>4. /\ old \subseteq 1..was /\ \A n \in old : n \in 1..L
      /\ \A n \in 1..L : n \in old <=> story[h][n].fate = "recorded"
      /\ \A n \in 1..L : Placed(h, n - 1) <=> n <= was /\ n \notin old
      /\ generated[h] = Cardinality(old) /\ generated[h] \in Nat
  BY <1>0 DEF Fine, BankTypes, Sound, NoneLost, RecordedOf
<1>5. \A n \in 1..N : /\ n \in next <=> n - 1 \in given \/ n \in old
                      /\ story'[h][n].fate # "misrecorded"
  <2> SUFFICES ASSUME NEW n \in 1..N
               PROVE  /\ n \in next <=> n - 1 \in given \/ n \in old
                      /\ story'[h][n].fate # "misrecorded"
    OBVIOUS
  <2>1. n \in old <=> n <= L /\ story[h][n].fate = "recorded"
    BY <1>1, <1>4
  <2> QED
    BY <1>0, <2>1, NextStory
<1>6. \A k : Placed(h, k) => k \in Nat /\ k < was
  BY <1>0, PlacedFacts DEF Placed
<1>7. given \subseteq Nat /\ \A k \in given : k + 1 \in 1..N
  <2>1. given \subseteq Nat
    BY GivenCount
  <2>2. given \subseteq {n - 1 : n \in 1..N}
    BY <1>0, NextStory
  <2> HIDE DEF given, N
  <2> QED
    BY <1>1, <2>1, <2>2
<1>8. \A i \in LanesOf(in, h) :
         /\ Own(in.lanes, i) \in Nat /\ Own(in.lanes, i) >= L
         /\ Allocates(in, i) => Own(in.lanes, i) \notin given
         /\ \A j \in LanesOf(in, h) : Own(in.lanes, i) = Own(in.lanes, j) => i = j
  BY <1>0, StoryNowIs, NotGiven
<1>9. ASSUME NEW n \in 1..N
      PROVE  Placed(h, n - 1)' <=> n <= now /\ n \notin next
  <2>1. Placed(h, n - 1)' <=>
           \/ Placed(h, n - 1) /\ n - 1 \notin given
           \/ \E i \in LanesOf(in, h) : Allocates(in, i) /\ n - 1 = Own(in.lanes, i)
    BY <1>0, PlacedNext
  <2>2. CASE n <= was
    <3>1. n \in 1..L /\ n <= now
      BY <1>1, <2>2
    <3>2. ~\E i \in LanesOf(in, h) : Allocates(in, i) /\ n - 1 = Own(in.lanes, i)
      BY <1>1, <1>8, <3>1
    <3> HIDE DEF given, next, old, was, now
    <3> QED
      BY <1>4, <1>5, <2>1, <2>2, <3>1, <3>2
  <2>3. CASE n > was
    <3>1. ~Placed(h, n - 1) /\ n \notin old
      BY <1>1, <1>4, <1>6, <2>3
    <3>2. CASE h \in StoppedNext(in)
      <4>1. now = was
        BY <1>0, <3>2, NextCounts
      <4>2. \A i \in LanesOf(in, h) : ~Allocates(in, i)
        BY <1>0, <3>2, DirectIs
      <4> QED
        BY <1>1, <2>1, <2>3, <3>1, <4>1, <4>2
    <3>3. CASE h \notin StoppedNext(in)
      <4>1. now = N /\ was = L
        BY <1>0, <3>3, NextCounts, DirectIs
      <4>2. PICK i \in LanesOf(in, h) : n = Own(in.lanes, i) + 1
        BY <1>0, <1>1, <2>3, <4>1, StoryNowIs
      <4>3. n - 1 = Own(in.lanes, i)
        BY <1>8, <4>2
      <4>4. CASE Allocates(in, i)
        <5>1. n - 1 \notin given
          BY <1>8, <4>3, <4>4
        <5> HIDE DEF given, next, old, was, now, N
        <5> QED
          BY <1>1, <1>5, <2>1, <3>1, <4>1, <4>3, <4>4, <5>1
      <4>5. CASE ~Allocates(in, i)
        <5>1. i \in in.direct[h]
          BY <1>0, <3>3, <4>5, DirectIs
        <5>2. n - 1 \in given
          BY <4>3, <5>1 DEF Given
        <5>3. ~\E j \in LanesOf(in, h) : Allocates(in, j) /\ n - 1 = Own(in.lanes, j)
          BY <1>8, <4>3, <4>5
        <5> HIDE DEF given, next, old, was, now
        <5> QED
          BY <1>5, <2>1, <3>1, <5>2, <5>3
      <4> QED
        BY <4>4, <4>5
    <3> QED
      BY <3>2, <3>3
  <2> QED
    BY <1>1, <2>2, <2>3
<1>10. next \subseteq 1..now
  <2> SUFFICES ASSUME NEW n \in next PROVE n <= now
    BY <1>1
  <2>1. n \in 1..N
    OBVIOUS
  <2>2. CASE n \in old
    BY <1>1, <1>4, <2>2
  <2>3. CASE n - 1 \in given /\ n - 1 < was
    BY <1>1, <2>1, <2>3
  <2>4. CASE n - 1 \in given /\ n - 1 >= was
    <3>1. PICK i \in in.direct[h] : n - 1 = Own(in.lanes, i)
      <4>1. \A r \in in.selected[h] : emit[h][r].num < was /\ emit[h][r].num \in Nat
        BY <1>0, DirectIs, PlacedFacts
      <4> QED
        BY <1>1, <2>1, <2>4, <4>1 DEF Given
    <3>2. h \notin StoppedNext(in)
      BY <1>0, <3>1, DirectIs
    <3>3. now = N
      BY <1>0, <3>2, NextCounts
    <3> QED
      BY <1>1, <2>1, <3>3
  <2>5. n - 1 \in given \/ n \in old
    BY <1>5, <2>1
  <2> QED
    BY <1>1, <2>1, <2>2, <2>3, <2>4, <2>5
<1>11. generated'[h] = Cardinality(next)
  <2> DEFINE more == {k + 1 : k \in given}
             f == [k \in given |-> k + 1]
  <2>1. /\ IsFiniteSet(given)
        /\ Cardinality(given) = Cardinality(in.direct[h]) + Cardinality(in.selected[h])
        /\ IsFiniteSet(in.direct[h]) /\ IsFiniteSet(in.selected[h])
    BY GivenCount
  <2>2. IsFiniteSet(old)
    <3>1. IsFiniteSet(1..was)
      <4>1. 1 \in Int /\ was \in Int
        BY <1>1
      <4> HIDE DEF was
      <4> QED
        BY <4>1, FS_Interval
    <3> QED
      BY <1>4, <3>1, FS_Subset
  <2>3. generated'[h] = generated[h] + Cardinality(in.selected[h])
                           + IF in.ready[h] THEN Cardinality(in.direct[h]) ELSE 0
    BY <1>0 DEF BankStep
  <2>4. ~in.ready[h] => Cardinality(in.direct[h]) = 0
    BY <1>0, DirectIs, FS_EmptySet
  <2>5. next = old \cup more
    <3>1. ASSUME NEW n \in next PROVE n \in old \cup more
      <4>1. n \in 1..N /\ (n - 1) + 1 = n
        BY <1>1
      <4>2. n - 1 \in given \/ n \in old
        BY <1>5, <4>1
      <4> QED
        BY <4>1, <4>2
    <3>2. ASSUME NEW n \in old PROVE n \in next
      <4>1. n \in 1..N
        BY <1>1, <1>4
      <4> QED
        BY <1>5, <4>1
    <3>3. ASSUME NEW k \in given PROVE k + 1 \in next
      <4>1. k + 1 \in 1..N /\ (k + 1) - 1 = k
        BY <1>7
      <4> QED
        BY <1>5, <4>1
    <3> QED
      BY <3>1, <3>2, <3>3
  <2>6. old \cap more = {}
    <3> SUFFICES ASSUME NEW k \in given, k + 1 \in old PROVE FALSE
      OBVIOUS
    <3>1. k \in Nat /\ k + 1 \in 1..was /\ k + 1 \in 1..L /\ k < was /\ (k + 1) - 1 = k
      BY <1>1, <1>4, <1>7
    <3>2. PICK r \in in.selected[h] : k = emit[h][r].num
      BY <1>0, <3>1, NotGiven
    <3>3. Placed(h, k)
      BY <1>0, <3>2, DirectIs DEF Placed
    <3> QED
      BY <1>4, <3>1, <3>3
  <2>7. IsFiniteSet(more) /\ Cardinality(more) = Cardinality(given)
    <3>1. f \in [given -> Nat] /\ \A x, y \in given : f[x] = f[y] => x = y
      BY <1>7
    <3>2. more = {f[k] : k \in given}
      OBVIOUS
    <3> HIDE DEF f, given
    <3> QED
      BY ONLY <2>1, <3>1, <3>2, SameSize
  <2> HIDE DEF more, f, given, old, next
  <2>8. Cardinality(next) = Cardinality(old) + Cardinality(more)
    <3>1. Cardinality(old \cap more) = 0
      BY <2>6, FS_EmptySet
    <3>2. Cardinality(old \cup more) =
             Cardinality(old) + Cardinality(more) - Cardinality(old \cap more)
      BY <2>2, <2>7, FS_Union
    <3>3. Cardinality(old) \in Nat /\ Cardinality(more) \in Nat
      BY <2>2, <2>7, FS_CardinalityType
    <3> QED
      BY <2>5, <3>1, <3>2, <3>3
  <2>9. Cardinality(in.direct[h]) \in Nat /\ Cardinality(in.selected[h]) \in Nat
    BY <2>1, FS_CardinalityType
  <2> DEFINE d == Cardinality(in.direct[h])
             s == Cardinality(in.selected[h])
  <2>10. Cardinality(next) = generated[h] + (d + s)
    BY <1>4, <2>1, <2>7, <2>8
  <2>11. generated'[h] = (generated[h] + s) + d
    BY <2>3, <2>4, <2>9
  <2>12. generated[h] \in Nat /\ d \in Nat /\ s \in Nat
    BY <1>4, <2>9
  <2> HIDE DEF d, s
  <2> QED
    BY <2>10, <2>11, <2>12
<1>12. \A n \in 1..N : story'[h][n].fate # "misrecorded"
  BY <1>5
<1> QED
  BY <1>2, <1>3, <1>9, <1>10, <1>11, <1>12 DEF NoneLost


-----------------------------------------------------------------------------
(* The bank keeps its types in every cycle, one that sets an error included. *)
LEMMA ArrivedNumber ==
    ASSUME NEW in, NEW h, Fine(in, h), NEW r \in Regs, NEW k \in {"load", "div"},
           Arrives(in, k, h, r)
    PROVE  in[k].num \in Nat
<1>1. CASE waiting[h][r] # None /\ in[k].num = waiting[h][r].num
  BY <1>1, WaitingFacts
<1>2. CASE in.lanes[0] # None /\ in[k].num = Own(in.lanes, 0)
  <2>1. in.lanes[0] \in LaneInputs /\ MarkerTypes
    BY <1>2 DEF Fine, Legal, LaneTypes, Lanes, MarkerInv
  <2> QED
    BY <1>2, <2>1, OwnIsNumber
<1> QED
  BY <1>1, <1>2, ArrivalCases DEF Fine

(* The first place of a register.                                            *)
LEMMA NextNbTyped ==
    ASSUME NEW in, NEW h, Fine(in, h), NEW r \in Regs
    PROVE  NextNb(in, h, r) \in LateTypes \cup {None}
<1>1. /\ nb[h][r] \in LateTypes \cup {None}
      /\ in.alloc[h][r] = Allocators(in, h, r)
  BY DEF Fine, BankTypes, Legal
<1>2. CASE Accepted(in, h, r)
  <2>1. PICK i \in LanesOf(in, h) : in.alloc[h][r] = {i} /\ Allocates(in, i)
    BY <1>2, AllocIs DEF Accepted
  <2>2. LaneRecord(in, i) = Record(Own(in.lanes, i), "gpr", None)
    BY <2>1, LaneFates
  <2>3. Own(in.lanes, i) \in Nat
    BY StoryNowIs
  <2>4. in.lanes[i].kind \in {"load", "div"}
    BY <2>1 DEF Allocates, Nonblock
  <2>5. LaneRecord(in, i) \in RecordTypes
    BY <2>2, <2>3 DEF Record, RecordTypes
  <2>6. (CHOOSE j \in in.alloc[h][r] : TRUE) = i
    BY <2>1
  <2>7. NextNb(in, h, r) = [rec |-> LaneRecord(in, i), kind |-> in.lanes[i].kind,
                            resolved |-> FALSE]
    BY <1>2, <2>6 DEF NextNb
  <2> QED
    BY <2>4, <2>5, <2>7 DEF LateTypes
<1>3. CASE ~Accepted(in, h, r) /\ (nb[h][r] = None \/ Leaves(in, h, r))
  BY <1>3 DEF NextNb
<1>4. CASE /\ ~Accepted(in, h, r) /\ ~(nb[h][r] = None \/ Leaves(in, h, r))
           /\ in.cancel[h][r] # {}
  <2>1. NextNb(in, h, r) = [nb[h][r] EXCEPT !.rec = Cancelled(in, h, r),
                                            !.resolved = TRUE]
    BY <1>4 DEF NextNb
  <2>2. Resolved(in, h, r) = Cancelled(in, h, r)
    BY <1>4 DEF Resolved
  <2>3. Resolved(in, h, r) \in RecordTypes
    BY <1>4, LateRecord
  <2> QED
    BY <1>1, <1>4, <2>1, <2>2, <2>3 DEF LateTypes
<1>5. CASE /\ ~Accepted(in, h, r) /\ ~(nb[h][r] = None \/ Leaves(in, h, r))
           /\ in.cancel[h][r] = {} /\ ~nb[h][r].resolved
           /\ \E k \in {"load", "div"} : Arrives(in, k, h, r)
  <2> DEFINE k == IF Arrives(in, "load", h, r) THEN "load" ELSE "div"
             v == in[k].num
  <2>1. k \in {"load", "div"} /\ Arrives(in, k, h, r)
    BY <1>5
  <2>2. v \in Nat
    BY <2>1, ArrivedNumber
  <2>3. NextNb(in, h, r) = [nb[h][r] EXCEPT !.rec.val = v, !.resolved = TRUE]
    BY <1>5 DEF NextNb
  <2> HIDE DEF v
  <2>4. nb[h][r] \in LateTypes /\ nb[h][r].rec \in RecordTypes
    BY <1>1, <1>5 DEF LateTypes
  <2>5. [nb[h][r].rec EXCEPT !.val = v] \in RecordTypes
    BY <2>2, <2>4 DEF RecordTypes
  <2> QED
    BY <2>3, <2>4, <2>5 DEF LateTypes
<1>6. CASE /\ ~Accepted(in, h, r) /\ ~(nb[h][r] = None \/ Leaves(in, h, r))
           /\ in.cancel[h][r] = {}
           /\ ~(~nb[h][r].resolved /\ \E k \in {"load", "div"} : Arrives(in, k, h, r))
  BY <1>1, <1>6 DEF NextNb
<1> QED
  BY <1>2, <1>3, <1>4, <1>5, <1>6

(* The second place of a register.                                           *)
LEMMA NextEmitTyped ==
    ASSUME NEW in, NEW h, Fine(in, h), NEW r \in Regs
    PROVE  NextEmit(in, h, r) \in RecordTypes \cup {None}
<1>1. /\ nb[h][r] \in LateTypes \cup {None} /\ emit[h][r] \in RecordTypes \cup {None}
  BY DEF Fine, BankTypes
<1>2. nb[h][r] # None => nb[h][r].rec \in RecordTypes /\ Resolved(in, h, r) \in RecordTypes
  BY <1>1, LateRecord DEF LateTypes
<1>3. Atomic(in, h, r) \/ Leaves(in, h, r) => nb[h][r] # None
  BY DEF Atomic, HandsOver, Leaves
<1> QED
  BY <1>1, <1>2, <1>3 DEF NextEmit

(* What the core waits for.                                                  *)
LEMMA NextWaitingTyped ==
    ASSUME NEW in, NEW h, Fine(in, h), CoreStep(in), NEW r \in Regs
    PROVE  waiting'[h][r] \in WaitTypes \cup {None}
<1>1. waiting[h][r] \in WaitTypes \cup {None}
  BY DEF Fine, BankTypes
<1>2. CASE in.alloc[h][r] # {}
  <2>1. PICK i \in LanesOf(in, h) : in.alloc[h][r] = {i} /\ Allocates(in, i)
    BY <1>2, AllocIs
  <2>2. i \in Lanes /\ Own(in.lanes, i) \in Nat
    BY StoryNowIs DEF LanesOf
  <2>3. in.lanes[i].kind \in {"load", "div"}
    BY <2>1 DEF Allocates, Nonblock
  <2>4. waiting'[h][r] = [kind |-> in.lanes[i].kind, num |-> Own(in.lanes, i)]
    BY <2>1, <2>2, NextWaiting
  <2> QED
    BY <2>2, <2>3, <2>4 DEF WaitTypes
<1>3. CASE in.alloc[h][r] = {}
  BY <1>1, <1>3, NextWaiting
<1> QED
  BY <1>2, <1>3

(* What is offered to the queue can be counted.                              *)
LEMMA OfferedFinite ==
    ASSUME NEW in, NEW h, Fine(in, h)
    PROVE  /\ IsFiniteSet(in.direct[h]) /\ Cardinality(in.direct[h]) \in Nat
           /\ IsFiniteSet(in.selected[h]) /\ Cardinality(in.selected[h]) \in Nat
<1>1. IsFiniteSet({0, 1})
  <2>1. IsFiniteSet({0})
    BY FS_Singleton
  <2>2. {0, 1} = {0} \cup {1}
    OBVIOUS
  <2> QED
    BY <2>1, <2>2, FS_AddElement
<1>2. in.direct[h] \subseteq {0, 1}
  BY DirectIs DEF LanesOf, Lanes
<1>3. IsFiniteSet(in.direct[h])
  BY <1>1, <1>2, FS_Subset
<1>4. in.selected[h] \subseteq Regs
  BY DirectIs
<1>5. IsFiniteSet(in.selected[h])
  BY <1>4, CaptureAssumption, FS_Subset
<1> QED
  BY <1>3, <1>5, FS_CardinalityType

(* Every variable of the bank.                                               *)
LEMMA TypesNext ==
    ASSUME NEW in, NEW h, Fine(in, h), Step(in)
    PROVE  BankTypes(h)'
<1>1. CoreStep(in) /\ BankStep(in) /\ h \in CapHarts /\ BankTypes(h)
  BY DEF Step, Fine
<1>2. waiting'[h] \in [Regs -> WaitTypes \cup {None}]
  <2> DEFINE starts(g, r) == {i \in Lanes : /\ Nonblock(in.lanes[i])
                                     /\ in.lanes[i].hart = g /\ in.lanes[i].rd = r
                                     /\ Fate(in, i).fate = "waits"}
             was(g, r) == IF starts(g, r) # {}
             THEN LET i == CHOOSE i \in starts(g, r) : TRUE
                  IN  [kind |-> in.lanes[i].kind, num |-> Own(in.lanes, i)]
             ELSE IF \/ Hits(in.lanes, g, r)
                     \/ \E k \in {"load", "div"} : Arrives(in, k, g, r)
             THEN None ELSE waiting[g][r]
             row(g) == [r \in Regs |-> was(g, r)]
  <2>1. waiting' = [g \in CapHarts |-> [r \in Regs |-> was(g, r)]]
    BY <1>1, SMTT(20) DEF CoreStep
  <2> HIDE DEF was
  <2>2. \A r \in Regs : waiting'[h][r] \in WaitTypes \cup {None}
    BY <1>1, NextWaitingTyped
  <2>3. waiting'[h] = row(h)
    BY <1>1, <2>1
  <2> HIDE DEF row
  <2>4. \A r \in Regs : row(h)[r] \in WaitTypes \cup {None}
    BY <2>2, <2>3
  <2>5. row(h) = [r \in Regs |-> was(h, r)]
    BY DEF row
  <2> QED
    BY <2>3, <2>4, <2>5
<1>3. nb'[h] \in [Regs -> LateTypes \cup {None}]
  <2>1. nb'[h] = [r \in Regs |-> NextNb(in, h, r)]
    BY <1>1 DEF BankStep
  <2> QED
    BY <2>1, NextNbTyped
<1>4. emit'[h] \in [Regs -> RecordTypes \cup {None}]
  <2>1. emit'[h] = [r \in Regs |-> NextEmit(in, h, r)]
    BY <1>1 DEF BankStep
  <2> QED
    BY <2>1, NextEmitTyped
<1>5. nextSequence'[h] \in Nat
  BY NextCounts
<1>6. generated'[h] \in Nat
  <2>1. generated'[h] = generated[h] + Cardinality(in.selected[h])
                           + IF in.ready[h] THEN Cardinality(in.direct[h]) ELSE 0
    BY <1>1 DEF BankStep
  <2>2. generated[h] \in Nat
    BY <1>1 DEF BankTypes
  <2>3. Cardinality(in.direct[h]) \in Nat /\ Cardinality(in.selected[h]) \in Nat
    BY OfferedFinite
  <2> QED
    BY <2>1, <2>2, <2>3
<1>7. errors'[h] \subseteq {"overflow", "conflict", "waw"}
  <2>1. NewErrors(in, h) \subseteq {"overflow", "conflict", "waw"}
    BY DEF NewErrors
  <2>2. errors'[h] = errors[h] \cup NewErrors(in, h)
    BY <1>1 DEF BankStep
  <2> QED
    BY <1>1, <2>1, <2>2 DEF BankTypes
<1> QED
  BY <1>2, <1>3, <1>4, <1>5, <1>6, <1>7 DEF BankTypes

(* A hart that is not misled after the cycle was not before it, and had      *)
(* parked when it was stopped.                                               *)
LEMMA LedBefore ==
    ASSUME MarkerInv, NEW in, Legal(in), Step(in), NEW h \in CapHarts, Behind(h), ~Misled(h)'
    PROVE  ~Misled(h) /\ Led(in, h)
<1>1. CoreStep(in) /\ stopped' = StoppedNext(in)
  BY DEF Step, MarkerStep
<1>2. nextSequence'[h] = nextSequence[h] + Cardinality(ProcessedOf(in, h))
  BY DEF Step
<1>3. CASE h \notin StoppedNext(in)
  BY <1>3 DEF Misled, Led, StoppedNext
<1>4. CASE h \in StoppedNext(in)
  <2>1. Cardinality(ProcessedOf(in, h)) = 0
    BY <1>4, ProcessedLanes, FS_EmptySet
  <2>2. nextSequence'[h] = nextSequence[h] /\ nextSequence[h] \in Nat
    BY <1>2, <2>1 DEF Behind
  <2>3. parked'[h] # None /\ ~(parked'[h] >= nextSequence[h])
    BY <1>1, <1>4, <2>2 DEF Misled
  <2> DEFINE marks(i) == in.lanes[i] = [hart |-> h, kind |-> "marker"]
             first == CHOOSE i \in Lanes : marks(i)
  <2>4. parked'[h] = IF \E i \in Lanes : marks(i) THEN Own(in.lanes, first) ELSE parked[h]
    BY <1>1 DEF CoreStep
  <2>5. ~\E i \in Lanes : marks(i)
    <3> SUFFICES ASSUME \E i \in Lanes : marks(i) PROVE FALSE
      OBVIOUS
    <3>1. first \in Lanes /\ marks(first)
      OBVIOUS
    <3>2. parked'[h] = Own(in.lanes, first)
      BY <2>4
    <3>3. in.lanes[first].hart = h
      BY <3>1
    <3>4. in.lanes[first] # None
      <4>1. in.lanes[first] \in LaneInputs
        BY <3>1 DEF LaneInputs
      <4> QED
        BY <4>1, CaptureAssumption DEF CaptureAssumption
    <3> HIDE DEF first
    <3>5. first \in LanesOf(in, h)
      BY <3>1, <3>3, <3>4 DEF LanesOf
    <3>6. Own(in.lanes, first) \in Nat /\ Own(in.lanes, first) >= Len(story[h])
      BY <3>5, StoryShape DEF MarkerInv
    <3>7. Len(story[h]) \in Nat
      BY DEF MarkerInv, MarkerTypes
    <3> QED
      BY <2>2, <2>3, <3>2, <3>6, <3>7 DEF Behind
  <2>6. parked'[h] = parked[h]
    BY <2>4, <2>5
  <2> QED
    BY <2>3, <2>6 DEF Misled, Led, Parked
<1> QED
  BY <1>3, <1>4

(* A hart is misled in a cycle only if it has strayed.                       *)
LEMMA MisledStrayed ==
    ASSUME MarkerInv, NEW in, Legal(in), Step(in), NEW h \in CapHarts,
           Misled(h) => h \in strayed, ~Misled(h) => BankTypes(h) /\ Sound(h), Misled(h)'
    PROVE  h \in strayed'
<1>1. CoreStep(in) /\ stopped' = StoppedNext(in) /\ strayed \subseteq strayed'
  BY DEF Step, MarkerStep, CoreStep
<1>2. CASE Misled(h)
  BY <1>1, <1>2
<1>3. CASE ~Misled(h) /\ ~Led(in, h)
  BY <1>1, <1>3, StopperMarked DEF Led, Marks
<1>4. CASE ~Misled(h) /\ Led(in, h)
  <2>1. Fine(in, h)
    BY <1>4 DEF Fine
  <2>2. h \in StoppedNext(in) /\ Parked(h)
    BY <1>1, <1>4 DEF Misled, Led
  <2>3. parked[h] < nextSequence[h] /\ nextSequence'[h] >= nextSequence[h]
    BY <2>1, <2>2, NextCounts DEF Fine, Sound, Numbered, Parked
  <2>4. ASSUME NEW i \in Lanes PROVE in.lanes[i] # [hart |-> h, kind |-> "marker"]
    <3> SUFFICES ASSUME in.lanes[i] = [hart |-> h, kind |-> "marker"] PROVE FALSE
      OBVIOUS
    <3>1. in.lanes[i] \in LaneInputs /\ in.lanes[i].hart = h /\ in.lanes[i].kind = "marker"
      BY DEF LaneInputs
    <3>2. in.lanes[i] # None
      BY <3>1, CaptureAssumption DEF CaptureAssumption
    <3> QED
      BY <2>2, <3>1, <3>2 DEF Legal
  <2>5. parked'[h] = parked[h]
    BY <1>1, <2>4 DEF CoreStep
  <2>6. parked[h] \in Nat /\ nextSequence[h] \in Nat /\ nextSequence'[h] \in Nat
    BY <2>1, <2>2, NextCounts DEF Fine, BankTypes, MarkerInv, MarkerTypes, Parked
  <2> QED
    BY <2>2, <2>3, <2>5, <2>6 DEF Misled, Parked
<1> QED
  BY <1>2, <1>3, <1>4

(* No cycle numbers what has not been retired.                               *)
LEMMA BehindNext ==
    ASSUME MarkerInv, NEW in, Legal(in), Step(in), NEW h \in CapHarts, Behind(h)
    PROVE  Behind(h)'
<1>1. nextSequence'[h] = nextSequence[h] + Cardinality(ProcessedOf(in, h))
  BY DEF Step
<1>2. /\ Cardinality(LanesOf(in, h)) \in Nat
      /\ Len(StoryNow(in, h)) = Len(story[h]) + Cardinality(LanesOf(in, h))
      /\ StoryNow(in, h) \in Seq(Fates)
  BY StoryShape DEF MarkerInv
<1>3. Len(story'[h]) = Len(StoryNow(in, h))
  <2>1. story'[h] = Judged(StoryNow(in, h), Handed(in, h))
    BY DEF Step, BankStep
  <2>2. Len(StoryNow(in, h)) \in Nat
    BY <1>2
  <2> DEFINE told == StoryNow(in, h)
             handed == Handed(in, h)
  <2> HIDE DEF told, handed
  <2>3. Len(Judged(told, handed)) = Len(told)
    BY <2>2 DEF Judged, told
  <2> QED
    BY <2>1, <2>3 DEF told, handed
<1>4. Cardinality(ProcessedOf(in, h)) \in {0, Cardinality(LanesOf(in, h))}
  BY ProcessedLanes, FS_EmptySet
<1>5. Len(story[h]) \in Nat /\ nextSequence[h] \in Nat /\ nextSequence[h] <= Len(story[h])
  BY DEF Behind, MarkerInv, MarkerTypes
<1>6. nextSequence'[h] \in Nat /\ nextSequence'[h] <= Len(story'[h])
  BY <1>1, <1>2, <1>3, <1>4, <1>5
<1> QED
  BY <1>6 DEF Behind

(* What sets an error bit.                                                   *)
LEMMA ErrorsJustified ==
    ASSUME NEW in, NEW h, Fine(in, h), in.ready[h], NewErrors(in, h) # {}
    PROVE  NewErrors(in, h) = {"conflict"} /\ Cardinality(Regs) >= RecordSlots
<1>1. "overflow" \notin NewErrors(in, h)
  BY DEF NewErrors
<1>2. "waw" \notin NewErrors(in, h)
  <2>1. ASSUME WawVictim(in.lanes), in.lanes[0].hart = h PROVE Processed(in, 1)
    <3>1. /\ in.lanes[1] # None /\ in.lanes[1].kind # "other" /\ 1 \in Lanes
          /\ in.lanes[1].hart = h
      BY <2>1 DEF WawVictim, SameDest, Writes, Lanes
    <3> QED
      BY <3>1, WorkersRun DEF Fine
  <2>2. ASSUME NEW r \in Regs, in.cancel[h][r] # {} PROVE nb[h][r] # None
    <3>1. waiting[h][r] # None
      BY <2>2, CancelIs DEF Fine
    <3> QED
      BY <3>1 DEF Fine, Sound, InStep
  <2> QED
    BY <2>1, <2>2 DEF NewErrors
<1>3. NewErrors(in, h) = {"conflict"}
  BY <1>1, <1>2 DEF NewErrors
<1>4. PICK r \in Regs : in.alloc[h][r] # {} /\ ~Accepted(in, h, r)
  BY <1>3 DEF NewErrors
<1>5. PICK i \in LanesOf(in, h) : in.alloc[h][r] = {i} /\ Allocates(in, i)
  BY <1>4, AllocIs
<1>6. i \in Lanes /\ in.lanes[i].rd = r /\ in.lanes[i].hart = h /\ h \in CapHarts
  BY <1>5, AllocIs DEF LanesOf, Fine
<1>7. Wen(in.lanes, i)
  BY <1>5 DEF Allocates, Wen, WawVictim, Nonblock, Writes
<1>8. Hits(in.lanes, h, r)
  BY <1>6, <1>7 DEF Hits
<1>9. nb[h][r] # None /\ ~HandsOver(in, h, r)
  BY <1>4 DEF Accepted
<1>10. in.cancel[h][r] # {} \/ nb[h][r].resolved
  <2>1. CASE ~nb[h][r].resolved
    <3>1. waiting[h][r] # None
      BY <1>9, <2>1 DEF Fine, Sound, InStep
    <3> QED
      BY <1>8, <3>1, CancelIs DEF Fine
  <2> QED
    BY <2>1
<1>11. emit[h][r] # None /\ r \notin in.selected[h]
  BY <1>9, <1>10 DEF HandsOver, SlotReady
<1> DEFINE ahead == {q \in Regs : q <= r /\ emit[h][q] # None}
           sent == in.direct[h]
<1>12. ~(Cardinality(ahead) <= RecordSlots - Cardinality(sent))
  <2>1. in.selected[h] = Selected(in, h)
    BY <1>6 DEF Fine, Legal
  <2> QED
    BY <1>11, <2>1 DEF Selected
<1>13. Cardinality(ahead) \in Nat /\ Cardinality(ahead) <= Cardinality(Regs)
       /\ Cardinality(Regs) \in Nat
  <2>1. ahead \subseteq Regs /\ IsFiniteSet(Regs)
    BY CaptureAssumption DEF CaptureAssumption
  <2> HIDE DEF ahead
  <2> QED
    BY <2>1, FS_Subset, FS_CardinalityType
<1>14. Cardinality(sent) \in Nat /\ Cardinality(sent) <= 1
  <2>1. sent \subseteq LanesOf(in, h) \ {i}
    <3>1. h \notin StoppedNext(in)
      BY <1>5, DirectIs
    <3> QED
      BY <1>5, <3>1, DirectIs
  <2>2. LanesOf(in, h) \ {i} \subseteq {1 - i}
    BY <1>6 DEF LanesOf, Lanes
  <2>3. sent \subseteq {1 - i} /\ IsFiniteSet({1 - i}) /\ Cardinality({1 - i}) = 1
    BY <2>1, <2>2, FS_Singleton
  <2>4. sent \in SUBSET {1 - i}
    BY <2>3
  <2> HIDE DEF sent
  <2>5. IsFiniteSet(sent) /\ Cardinality(sent) <= Cardinality({1 - i})
    BY <2>3, <2>4, FS_Subset
  <2> QED
    BY <2>3, <2>5, FS_CardinalityType
<1>15. RecordSlots \in Nat
  BY CaptureAssumption DEF CaptureAssumption
<1>16. Cardinality(Regs) >= RecordSlots
  <2> HIDE DEF ahead, sent
  <2> QED
    BY <1>12, <1>13, <1>14, <1>15
<1> QED
  BY <1>3, <1>16

(* A hart that goes on counts every instruction; one that does not has a     *)
(* reason.                                                                   *)
LEMMA HartNext ==
    ASSUME NEW in, NEW h, Fine(in, h), errors[h] = {}, Step(in)
    PROVE  /\ errors'[h] = {} => Sound(h)'
           /\ errors'[h] # {} => \/ refused'
                                 \/ /\ errors'[h] = {"conflict"}
                                    /\ Cardinality(Regs) >= RecordSlots
<1>1. h \in CapHarts /\ BankStep(in) /\ in.ready[h] \in BOOLEAN
  BY DEF Step, Fine, Legal
<1>2. errors'[h] = NewErrors(in, h)
  BY <1>1 DEF BankStep
<1>3. ASSUME NewErrors(in, h) = {} PROVE Sound(h)'
  <2>1. GoesOn(in, h)
    BY <1>3 DEF GoesOn
  <2> QED
    BY <2>1, NumberedNext, InStepNext, TrueNext, OnePlaceNext, NoneLostNext DEF Sound
<1>4. ~in.ready[h] => refused'
  BY <1>1 DEF BankStep
<1> QED
  BY <1>1, <1>2, <1>3, <1>4, ErrorsJustified

(* At first there is neither an instruction nor a record.                    *)
LEMMA CaptureStarts == CaptureInit => CaptureInv
<1> SUFFICES ASSUME CaptureInit PROVE CaptureInv
  OBVIOUS
<1>1. MarkerInv
  BY MarkerStarts
<1>2. ASSUME NEW h \in CapHarts PROVE BankTypes(h)
  <2>1. /\ waiting[h] = [r \in Regs |-> None] /\ nb[h] = [r \in Regs |-> None]
        /\ emit[h] = [r \in Regs |-> None]
        /\ nextSequence[h] = 0 /\ generated[h] = 0 /\ errors[h] = {}
    BY DEF CaptureInit
  <2> QED
    BY <2>1 DEF BankTypes
<1>4. \A h \in CapHarts : Behind(h) /\ ~Misled(h)
  BY DEF CaptureInit, Behind, Misled
<1>3. ASSUME NEW h \in CapHarts PROVE errors[h] = {} /\ Sound(h)
  <2>1. /\ errors[h] = {} /\ story[h] = <<>> /\ parked[h] = None /\ stopped = {}
        /\ nextSequence[h] = 0 /\ generated[h] = 0
        /\ \A r \in Regs : waiting[h][r] = None /\ nb[h][r] = None /\ emit[h][r] = None
    BY <1>3 DEF CaptureInit
  <2>2. Len(story[h]) = 0 /\ 1..Len(story[h]) = {}
    BY <2>1
  <2>3. Numbered(h)
    BY <2>1, <2>2 DEF Numbered
  <2>4. RecordedOf(h) = {}
    BY <2>2 DEF RecordedOf
  <2>5. NoneLost(h)
    BY <2>1, <2>2, <2>4, FS_EmptySet DEF NoneLost
  <2>6. InStep(h) /\ TrueRecords(h) /\ OnePlace(h)
    BY <2>1 DEF InStep, TrueRecords, OnePlace
  <2> QED
    BY <2>1, <2>3, <2>5, <2>6 DEF Sound
<1> QED
  BY <1>1, <1>2, <1>3, <1>4 DEF CaptureInv

(* A cycle in which every hart still counts keeps the invariant.             *)
LEMMA CaptureKeeps == CaptureInv /\ [CaptureEdge]_captureVars => CaptureInv'
<1> SUFFICES ASSUME CaptureInv, [CaptureEdge]_captureVars PROVE CaptureInv'
  OBVIOUS
<1>1. MarkerInv'
  <2>1. CASE CaptureEdge
    BY <2>1, EdgeIsLegal, CaptureEdgeKeeps DEF CaptureInv
  <2>2. CASE UNCHANGED captureVars
    BY <2>2 DEF captureVars, coreVars, bankVars, CaptureInv, MarkerInv, MarkerTypes,
                FromMarkers, Parked, Marks
  <2> QED
    BY <2>1, <2>2
<1>2. CASE CaptureEdge
  <2>1. PICK in : Legal(in) /\ Step(in)
    BY <1>2, EdgeIsLegal
  <2>2. \A h \in CapHarts : Behind(h)'
    BY <2>1, BehindNext DEF CaptureInv
  <2>4. \A h \in CapHarts : Misled(h)' => h \in strayed'
    BY <1>2, <2>1, MisledStrayed DEF CaptureInv, CaptureEdge
  <2>3. ASSUME NEW h \in CapHarts, ~Misled(h)'
        PROVE  /\ BankTypes(h)'
               /\ errors'[h] = {} => Sound(h)'
               /\ errors'[h] # {} => \/ refused'
                                     \/ /\ errors'[h] = {"conflict"}
                                        /\ Cardinality(Regs) >= RecordSlots
    <3>1. ~Misled(h) /\ Led(in, h)
      BY <2>1, <2>3, LedBefore DEF CaptureInv
    <3>2. errors[h] = {} /\ Fine(in, h)
      BY <1>2, <2>1, <3>1 DEF CaptureEdge, CaptureInv, Fine
    <3> QED
      BY <2>1, <3>2, TypesNext, HartNext
  <2> QED
    BY <1>1, <2>2, <2>3, <2>4 DEF CaptureInv
<1>3. CASE UNCHANGED captureVars
  <2>1. /\ story' = story /\ parked' = parked /\ waiting' = waiting /\ stopped' = stopped
        /\ nb' = nb /\ emit' = emit /\ errors' = errors /\ generated' = generated
        /\ refused' = refused /\ nextSequence' = nextSequence /\ strayed' = strayed
    BY <1>3 DEF captureVars, coreVars, bankVars
  <2>2. ASSUME NEW h
        PROVE  /\ BankTypes(h)' = BankTypes(h) /\ Behind(h)' = Behind(h)
               /\ Misled(h)' = Misled(h)
    BY <2>1 DEF BankTypes, Behind, Misled
  <2>3. ASSUME NEW h PROVE Sound(h)' = Sound(h)
    <3>1. /\ Numbered(h)' = Numbered(h)
          /\ InStep(h)' = InStep(h)
          /\ TrueRecords(h)' = TrueRecords(h)
          /\ OnePlace(h)' = OnePlace(h)
      BY <2>1 DEF Numbered, InStep, TrueRecords, OnePlace, NbNum, FateOf
    <3>2. NoneLost(h)' = NoneLost(h)
      BY <2>1 DEF NoneLost, RecordedOf, Placed, NbNum
    <3> QED
      BY <3>1, <3>2 DEF Sound
  <2> QED
    BY <1>1, <2>1, <2>2, <2>3 DEF CaptureInv
<1> QED
  BY <1>2, <1>3

(* Every record the bank keeps, in either place of any register, belongs to  *)
(* one processed instruction that has no record yet; one that waits does so  *)
(* for the very result the core waits for, any other is already true.        *)
THEOREM CaptureInvariant == CaptureSpec => []CaptureInv
<1> QED
  BY CaptureStarts, CaptureKeeps, PTL DEF CaptureSpec

(* A set without two different members.                                      *)
LEMMA OneOrNone ==
    ASSUME NEW S, \A a, b \in S : a = b
    PROVE  IF S = {} THEN Cardinality(S) = 0 ELSE Cardinality(S) = 1
<1>1. CASE S = {}
  BY <1>1, FS_EmptySet
<1>2. CASE S # {}
  <2>1. PICK a : a \in S
    BY <1>2
  <2>2. S = {a}
    BY <2>1
  <2> QED
    BY <1>2, <2>2, FS_Singleton
<1> QED
  BY <1>1, <1>2

(* The registers that hold a record of one number are at most one.           *)
LEMMA OneEach == CaptureInv => OneRecordEach
<1> SUFFICES ASSUME CaptureInv PROVE OneRecordEach
  OBVIOUS
<1>1. ASSUME NEW h \in CapHarts, ~Misled(h), errors[h] = {}, NEW n \in 1..Len(story[h])
      PROVE  Cardinality({r \in Regs : nb[h][r] # None /\ nb[h][r].rec.num = n - 1})
             + Cardinality({r \in Regs : emit[h][r] # None /\ emit[h][r].num = n - 1})
             = IF n <= nextSequence[h] /\ n \notin RecordedOf(h) THEN 1 ELSE 0
  <2> DEFINE late == {r \in Regs : nb[h][r] # None /\ nb[h][r].rec.num = n - 1}
             leaving == {r \in Regs : emit[h][r] # None /\ emit[h][r].num = n - 1}
  <2>1. OnePlace(h) /\ NoneLost(h)
    BY <1>1 DEF CaptureInv, Sound
  <2>2. /\ \A a, b \in late : a = b
        /\ \A a, b \in leaving : a = b
        /\ late = {} \/ leaving = {}
    BY <2>1 DEF OnePlace, NbNum
  <2>3. late # {} \/ leaving # {} <=> n <= nextSequence[h] /\ n \notin RecordedOf(h)
    <3>1. Placed(h, n - 1) <=> late # {} \/ leaving # {}
      BY DEF Placed, NbNum
    <3>2. Placed(h, n - 1) <=> n <= nextSequence[h] /\ n \notin RecordedOf(h)
      BY <1>1, <2>1 DEF NoneLost
    <3> QED
      BY <3>1, <3>2
  <2> HIDE DEF late, leaving
  <2>4. IF late = {} THEN Cardinality(late) = 0 ELSE Cardinality(late) = 1
    BY <2>2, OneOrNone
  <2>5. IF leaving = {} THEN Cardinality(leaving) = 0 ELSE Cardinality(leaving) = 1
    BY <2>2, OneOrNone
  <2>6. Cardinality(late) + Cardinality(leaving)
        = IF n <= nextSequence[h] /\ n \notin RecordedOf(h) THEN 1 ELSE 0
    BY <2>2, <2>3, <2>4, <2>5
  <2> QED
    BY <2>6 DEF late, leaving
<1>2. ASSUME NEW h \in CapHarts, ~Misled(h), errors[h] = {}
      PROVE  /\ \A n \in 1..Len(story[h]) : story[h][n].fate # "misrecorded"
             /\ generated[h] = Cardinality(RecordedOf(h))
             /\ parked[h] # None => parked[h] < nextSequence[h]
  BY <1>2 DEF CaptureInv, Sound, NoneLost, Numbered
<1> QED
  BY <1>1, <1>2 DEF CaptureInv, OneRecordEach, RecordedOf

(* Every processed instruction has exactly one record, and what is handed    *)
(* over is true of it; an error bit needs a queue without room or as many    *)
(* registers as a bank hands over records in a cycle.                        *)
THEOREM RecordsEach == CaptureSpec => []OneRecordEach
<1>1. CaptureInv => OneRecordEach
  BY OneEach
<1> QED
  BY <1>1, CaptureInvariant, PTL

(* The address half of one store may meet the data half of another           *)
(* (dual_hier:71-118); a hart that is stopped without a marker store of its  *)
(* own has itself stored another value at the marker's address.              *)
THEOREM StopsAreOwn == CaptureSpec => []StopsOnItsOwnMarker
<1>1. CaptureInv => StopsOnItsOwnMarker
  BY DEF CaptureInv, StopsOnItsOwnMarker
<1> QED
  BY CaptureInvariant, <1>1, PTL
=============================================================================
