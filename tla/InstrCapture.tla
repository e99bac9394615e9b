---------------------------- MODULE InstrCapture ----------------------------
(* rtl/info/instr_info_capture_dual_hier.sv and the two register banks under *)
(* it: every instruction the cores retire becomes one record, at once or,    *)
(* for a nonblocking load or a divide, when its result arrives or a younger  *)
(* write to its register makes the result superfluous.  What the core shows  *)
(* at its write-back stage is modelled from eh2_dec_decode_ctl.sv, which     *)
(* forms commit, cancellation and return in one and the same cycle.  The     *)
(* data of an instruction is the number under which its hart retired it.     *)
EXTENDS Integers, Sequences, FiniteSets, FiniteSetsExt

CONSTANTS CapHarts,    \* the two harts; their names play no role
          Regs,        \* destination registers: 1..31
          RecordSlots, \* records a bank hands over in one cycle: 4
          MaxInsns,    \* bound: instructions retired by both harts together
          None

(* What a lane retires, what the core waits for, a record, and a record that *)
(* waits for its result.                                                     *)
LaneInputs ==
    [hart : CapHarts, kind : {"alu", "load", "div"}, rd : Regs]
    \cup [hart : CapHarts, kind : {"other", "data", "addr", "marker"}]
WaitTypes == [kind : {"load", "div"}, num : Nat]
RecordTypes == [num : Nat, end : {"gpr", "direct", "load", "div", "none"},
                val : Nat \cup {None}]
LateTypes == [rec : RecordTypes, kind : {"load", "div"}, resolved : BOOLEAN]

ASSUME CaptureAssumption ==
    /\ Regs \subseteq Nat \ {0} /\ IsFiniteSet(Regs)
    /\ RecordSlots \in Nat \ {0, 1}
    /\ MaxInsns \in Nat
    /\ None \notin Nat \cup LaneInputs \cup WaitTypes \cup RecordTypes \cup LateTypes

VARIABLES
    story,       \* per hart, what became of each retired instruction
    parked,      \* per hart, the number of its marker store, or None
    strayed,     \* history: harts that stored another value at STOP_ADDR
    waiting,     \* per hart and register, the nonblocking instruction under way
    stores,      \* stores on the bus that match in a half, oldest first, one at a time
    marker,      \* marker_addr_pending, marker_data_pending, marker_addr_hart
    stopped, nextSequence, generated,
    nb, emit,    \* per hart and register, the two places of a late record
    errors,      \* per hart, the error bits that are set
    refused      \* history: a queue once had no room for a record

coreVars == <<story, parked, strayed, waiting, stores>>
bankVars == <<nb, emit, errors, generated, refused>>
captureVars == <<coreVars, bankVars, marker, stopped, nextSequence>>

Lanes == {0, 1}

-----------------------------------------------------------------------------
(* The core.  A lane writes a register with an "alu", "load" or "div"; "data" *)
(* stores the marker's value to another address and "addr" another value to   *)
(* the marker's address; "other" stands for everything else, writes to x0     *)
(* included.                                                                  *)
Writes(lane) == lane # None /\ lane.kind \in {"alu", "load", "div"}
Nonblock(lane) == lane # None /\ lane.kind \in {"load", "div"}
Stores(lane) == lane # None /\ lane.kind \in {"data", "addr", "marker"}

SameDest(lanes) == /\ Writes(lanes[0]) /\ Writes(lanes[1])
                   /\ lanes[0].hart = lanes[1].hart /\ lanes[0].rd = lanes[1].rd

(* i0_wen_wb and i1_wen_wb; the younger lane squashes the older one unless   *)
(* it is a nonblocking load itself.                                          *)
Wen(lanes, i) ==
    Writes(lanes[i]) /\ ~(i = 0 /\ SameDest(lanes) /\ lanes[1].kind # "load")

(* i0_same_cycle_waw_wb.                                                     *)
WawVictim(lanes) ==
    SameDest(lanes) /\ (lanes[1].kind # "load" \/ Nonblock(lanes[0]))

Hits(lanes, h, r) ==
    \E i \in Lanes : Wen(lanes, i) /\ lanes[i].hart = h /\ lanes[i].rd = r

(* A write that makes a pending load or divide superfluous.                  *)
NbWaw(lanes, i) == Wen(lanes, i) /\ waiting[lanes[i].hart][lanes[i].rd] # None

PendingPairs == {p \in CapHarts \X Regs : waiting[p[1]][p[2]] # None}
PendingKind(k) == {p \in PendingPairs : waiting[p[1]][p[2]].kind = k}

(* A divide uses lane 0 and waits for the divider; the load-store unit takes *)
(* one instruction in a cycle.  A hart that stored the marker parks: it only *)
(* fences and jumps.                                                         *)
MayRetire(lane) == /\ lane.kind = "div" => PendingKind("div") = {}
                   /\ lane.kind = "other" <=> parked[lane.hart] # None

MayPair(older, younger) ==
    /\ older.kind \in {"alu", "div", "other"} \/ younger.kind \in {"alu", "other"}
    /\ older # [hart |-> younger.hart, kind |-> "marker"]

Room == MaxInsns - MapThenSumSet(LAMBDA h : Len(story[h]), CapHarts)
Retiring ==
    LET room    == Room
        older   == {lane \in LaneInputs : room > 0 /\ MayRetire(lane)}
        younger == {lane \in older : lane.kind # "div"}
    IN  ({None} \cup older) \X {None} \cup {None} \X younger
        \cup {pair \in older \X younger : room > 1 /\ MayPair(pair[1], pair[2])}

(* The own number of the instruction in lane i.                              *)
Own(lanes, i) ==
    LET h == lanes[i].hart
    IN  Len(story[h]) + IF i = 1 /\ lanes[0] # None /\ lanes[0].hart = h
                        THEN 1 ELSE 0

(* Results that may arrive in this cycle: of a pending instruction that no   *)
(* lane overwrites, or of the divide that is at write-back right now.        *)
Arrivals(lanes, k) ==
    {None}
    \cup {[hart |-> p[1], rd |-> p[2], num |-> waiting[p[1]][p[2]].num] :
             p \in {q \in PendingKind(k) : ~Hits(lanes, q[1], q[2])}}
    \cup IF k = "div" /\ lanes[0] # None /\ lanes[0].kind = "div" /\ ~SameDest(lanes)
         THEN {[hart |-> lanes[0].hart, rd |-> lanes[0].rd, num |-> Own(lanes, 0)]}
         ELSE {}

(* Inputs of one cycle: the lanes, the results, the two bus handshakes and   *)
(* the room in each hart's record queue.                                     *)
Arrives(in, k, h, r) == in[k] # None /\ in[k].hart = h /\ in[k].rd = r

Fate(in, i) ==
    LET lane == in.lanes[i]
    IN  IF i = 0 /\ WawVictim(in.lanes)
        THEN [fate |-> "cut", by |-> {Own(in.lanes, 1)}]
        ELSE IF lane.kind = "alu" THEN [fate |-> "wrote", by |-> {}]
        ELSE IF Nonblock(lane)
        THEN [fate |-> IF Arrives(in, lane.kind, lane.hart, lane.rd)
                       THEN "wrote" ELSE "waits", by |-> {}]
        ELSE [fate |-> "none", by |-> {}]

(* What a pending instruction of hart h learns in this cycle.                *)
Learns(in, h, n) ==
    LET mine == {r \in Regs : waiting[h][r] # None /\ waiting[h][r].num = n - 1}
        over == {i \in Lanes : \E r \in mine :
                    Wen(in.lanes, i) /\ in.lanes[i].hart = h /\ in.lanes[i].rd = r}
    IN  IF over # {}
        THEN [fate |-> "cut", by |-> {Own(in.lanes, i) : i \in over}]
        ELSE IF \E r \in mine : Arrives(in, waiting[h][r].kind, h, r)
        THEN [fate |-> "wrote", by |-> {}]
        ELSE story[h][n]

StoryNow(in, h) ==
    LET new(i) == IF in.lanes[i] # None /\ in.lanes[i].hart = h
                  THEN <<Fate(in, i)>> ELSE <<>>
    IN  [n \in 1..Len(story[h]) |-> Learns(in, h, n)] \o new(0) \o new(1)

CoreStep(in) ==
    LET starts(h, r) == {i \in Lanes : /\ Nonblock(in.lanes[i])
                                       /\ in.lanes[i].hart = h /\ in.lanes[i].rd = r
                                       /\ Fate(in, i).fate = "waits"}
        sent(i) == IF ~Stores(in.lanes[i]) THEN <<>>
                   ELSE <<[hart |-> in.lanes[i].hart, aw |-> FALSE, w |-> FALSE,
                           addr |-> in.lanes[i].kind # "data",
                           data |-> in.lanes[i].kind # "addr"]>>
        left == IF stores = <<>> THEN <<>>
                ELSE LET s == [Head(stores) EXCEPT !.aw = @ \/ in.aw, !.w = @ \/ in.w]
                     IN  IF s.aw /\ s.w THEN Tail(stores) ELSE <<s>> \o Tail(stores)
    IN  /\ parked' = [h \in CapHarts |->
               IF \E i \in Lanes : in.lanes[i] = [hart |-> h, kind |-> "marker"]
               THEN Own(in.lanes, CHOOSE i \in Lanes :
                                     in.lanes[i] = [hart |-> h, kind |-> "marker"])
               ELSE parked[h]]
        /\ strayed' = strayed \cup {h \in CapHarts :
               \E i \in Lanes : in.lanes[i] = [hart |-> h, kind |-> "addr"]}
        /\ waiting' = [h \in CapHarts |-> [r \in Regs |->
               IF starts(h, r) # {}
               THEN LET i == CHOOSE i \in starts(h, r) : TRUE
                    IN  [kind |-> in.lanes[i].kind, num |-> Own(in.lanes, i)]
               ELSE IF \/ Hits(in.lanes, h, r)
                       \/ \E k \in {"load", "div"} : Arrives(in, k, h, r)
               THEN None ELSE waiting[h][r]]]
        /\ stores' = left \o sent(0) \o sent(1)

-----------------------------------------------------------------------------
(* Marker pairing and numbering.  Each half is matched by itself and stays   *)
(* pending: the address and the data of two different stores may meet.       *)
MarkerAddr(in) == in.aw /\ Head(stores).addr
MarkerData(in) == in.w /\ Head(stores).data
MarkerEvent(in) == /\ marker.addr \/ MarkerAddr(in)
                   /\ marker.data \/ MarkerData(in)

(* Slip: the hart whose data completes the pair.                             *)
HartOfData(in) == IF MarkerData(in) THEN Head(stores).hart ELSE marker.hart
MarkerHart(in) == IF MarkerAddr(in) THEN Head(stores).hart ELSE marker.hart

StoppedNext(in) == stopped \cup IF MarkerEvent(in) THEN {MarkerHart(in)} ELSE {}

MarkerStep(in) ==
    /\ marker' = IF MarkerEvent(in) THEN [marker EXCEPT !.addr = FALSE, !.data = FALSE]
                 ELSE [addr |-> marker.addr \/ MarkerAddr(in),
                       data |-> marker.data \/ MarkerData(in),
                       hart |-> IF MarkerAddr(in) THEN Head(stores).hart
                                ELSE marker.hart]
    /\ stopped' = StoppedNext(in)

(* process_valid: commits of a stopped hart are not looked at.               *)
Processed(in, i) == in.lanes[i] # None /\ in.lanes[i].hart \notin StoppedNext(in)
ProcessedOf(in, h) == {i \in Lanes : Processed(in, i) /\ in.lanes[i].hart = h}

(* Slip: the older lane does not count.                                      *)
FrozenNumber(in, i) == nextSequence[in.lanes[i].hart]
LaneSequence(in, i) ==
    nextSequence[in.lanes[i].hart]
        + IF i = 1 /\ 0 \in ProcessedOf(in, in.lanes[1].hart) THEN 1 ELSE 0

-----------------------------------------------------------------------------
(* One bank.  A record: its number, how it ends and the data or the number   *)
(* of the overwriter; "none" when it has no register event.                  *)
SameCycleReturn(in, i) ==
    /\ Nonblock(in.lanes[i])
    /\ Arrives(in, in.lanes[i].kind, in.lanes[i].hart, in.lanes[i].rd)

Record(num, end, val) == [num |-> num, end |-> end, val |-> val]

LaneRecord(in, i) ==
    LET lane == in.lanes[i]
        n    == LaneSequence(in, i)
    IN  IF i = 0 /\ WawVictim(in.lanes)
        THEN Record(n, "direct", LaneSequence(in, 1))
        ELSE IF SameCycleReturn(in, i) THEN Record(n, "gpr", in[lane.kind].num)
        ELSE IF Writes(lane)
        THEN Record(n, "gpr", IF Nonblock(lane) THEN None ELSE Own(in.lanes, i))
        ELSE Record(n, "none", None)

Allocates(in, i) ==
    /\ Processed(in, i) /\ Nonblock(in.lanes[i])
    /\ ~(i = 0 /\ WawVictim(in.lanes))
    /\ ~SameCycleReturn(in, i)

Direct(in, h) == {i \in ProcessedOf(in, h) : ~Allocates(in, i)}
Allocators(in, h, r) == {i \in Lanes : /\ Allocates(in, i)
                                       /\ in.lanes[i].hart = h /\ in.lanes[i].rd = r}

Cancellers(in, h, r) == {i \in Lanes : /\ NbWaw(in.lanes, i)
                                       /\ in.lanes[i].hart = h /\ in.lanes[i].rd = r}

(* Both lanes may name the same victim: the younger one counts.              *)
Cancelled(in, h, r) ==
    LET i == IF 1 \in in.cancel[h][r] THEN 1 ELSE 0
    IN  [nb[h][r].rec EXCEPT !.end = waiting[h][r].kind,
                             !.val = LaneSequence(in, i)]

(* The direct records go first, then the lowest registers.                   *)
Selected(in, h) ==
    LET room == RecordSlots - Cardinality(in.direct[h])
    IN  {r \in Regs : /\ in.ready[h] /\ emit[h][r] # None
                      /\ Cardinality({q \in Regs : q <= r /\ emit[h][q] # None}) <= room}

SlotReady(in, h, r) == emit[h][r] = None \/ r \in in.selected[h]

OldReturn(in, h, r) == Arrives(in, nb[h][r].kind, h, r)

HandsOver(in, h, r) ==
    /\ nb[h][r] # None /\ SlotReady(in, h, r)
    /\ in.cancel[h][r] # {} \/ nb[h][r].resolved \/ OldReturn(in, h, r)

Accepted(in, h, r) == /\ in.alloc[h][r] # {}
                      /\ nb[h][r] = None \/ HandsOver(in, h, r)
Atomic(in, h, r) == in.alloc[h][r] # {} /\ HandsOver(in, h, r)

Resolved(in, h, r) ==
    IF in.cancel[h][r] # {} THEN Cancelled(in, h, r)
    ELSE IF ~nb[h][r].resolved /\ OldReturn(in, h, r)
    THEN [nb[h][r].rec EXCEPT !.val = in[nb[h][r].kind].num]
    ELSE nb[h][r].rec

(* A record that waits for its result moves on once it has it.               *)
Leaves(in, h, r) == /\ nb[h][r] # None /\ nb[h][r].resolved
                    /\ in.cancel[h][r] = {} /\ SlotReady(in, h, r)

NextNb(in, h, r) ==
    IF Accepted(in, h, r)
    THEN LET i == CHOOSE i \in in.alloc[h][r] : TRUE
         IN  [rec |-> LaneRecord(in, i), kind |-> in.lanes[i].kind, resolved |-> FALSE]
    ELSE IF nb[h][r] = None \/ Leaves(in, h, r) THEN None
    ELSE IF in.cancel[h][r] # {}
    THEN [nb[h][r] EXCEPT !.rec = Cancelled(in, h, r), !.resolved = TRUE]
    ELSE IF ~nb[h][r].resolved /\ \E k \in {"load", "div"} : Arrives(in, k, h, r)
    THEN LET k == IF Arrives(in, "load", h, r) THEN "load" ELSE "div"
         IN  [nb[h][r] EXCEPT !.rec.val = in[k].num, !.resolved = TRUE]
    ELSE nb[h][r]

NextEmit(in, h, r) ==
    IF Atomic(in, h, r) THEN Resolved(in, h, r)
    ELSE IF Leaves(in, h, r) THEN nb[h][r].rec
    ELSE IF r \in in.selected[h] THEN None
    ELSE emit[h][r]

(* The three error bits: no room for a direct record, no place for a late    *)
(* one, a cancellation that names no record of the bank.                     *)
NewErrors(in, h) ==
    {e \in {"overflow"} : in.direct[h] # {} /\ ~in.ready[h]}
    \cup {e \in {"conflict"} : \E r \in Regs : in.alloc[h][r] # {}
                                               /\ ~Accepted(in, h, r)}
    \cup {e \in {"waw"} :
            \/ /\ WawVictim(in.lanes) /\ in.lanes[0].hart = h
               /\ ~Processed(in, 1)
            \/ \E r \in Regs : in.cancel[h][r] # {} /\ nb[h][r] = None}

Handed(in, h) == {LaneRecord(in, i) : i \in IF in.ready[h] THEN in.direct[h] ELSE {}}
                 \cup {emit[h][r] : r \in in.selected[h]}

(* The one record that tells what became of an instruction; of two younger   *)
(* writes in one cycle either may be named.                                  *)
Tells(rec, s) ==
    CASE s.fate = "wrote" -> rec.end = "gpr" /\ rec.val = rec.num
      [] s.fate = "cut" -> rec.end \in {"direct", "load", "div"} /\ rec.val \in s.by
      [] s.fate = "none" -> rec.end = "none"
      [] OTHER -> FALSE

(* History: an instruction is "recorded" by a record that tells its fate;    *)
(* a second record, or an untrue one, makes it "misrecorded".                *)
Judged(told, handed) ==
    [n \in 1..Len(told) |->
        LET mine == {rec \in handed : rec.num = n - 1}
        IN  IF mine = {} THEN told[n]
            ELSE [by |-> {},
                  fate |-> IF Cardinality(mine) = 1 /\ \A rec \in mine : Tells(rec, told[n])
                           THEN "recorded" ELSE "misrecorded"]]

BankStep(in) ==
    /\ nb' = [h \in CapHarts |-> [r \in Regs |-> NextNb(in, h, r)]]
    /\ emit' = [h \in CapHarts |-> [r \in Regs |-> NextEmit(in, h, r)]]
    /\ errors' = [h \in CapHarts |-> errors[h] \cup NewErrors(in, h)]
    /\ story' = [h \in CapHarts |-> Judged(StoryNow(in, h), Handed(in, h))]
    /\ generated' = [h \in CapHarts |-> generated[h] + Cardinality(in.selected[h])
                        + IF in.ready[h] THEN Cardinality(in.direct[h]) ELSE 0]
    /\ refused' = (refused \/ \E h \in CapHarts : ~in.ready[h])

(* The queue refuses only what is offered; an error ends the session.        *)
Offers(in, h) == in.direct[h] # {} \/ \E r \in Regs : emit[h][r] # None

(* The wires of a cycle; the room is known after the records, and what goes  *)
(* out of the register places after the room.                                *)
Wires(in) ==
    [lanes |-> in.lanes, load |-> in.load, div |-> in.div, aw |-> in.aw, w |-> in.w,
     direct |-> [h \in CapHarts |-> Direct(in, h)],
     cancel |-> [h \in CapHarts |-> [r \in Regs |-> Cancellers(in, h, r)]],
     alloc  |-> [h \in CapHarts |-> [r \in Regs |-> Allocators(in, h, r)]],
     ready  |-> [h \in CapHarts |-> TRUE], selected |-> [h \in CapHarts |-> {}]]
Wired(in) == [in EXCEPT !.selected = [h \in CapHarts |-> Selected(in, h)]]

Step(in) ==
    /\ CoreStep(in) /\ MarkerStep(in) /\ BankStep(in)
    /\ nextSequence' = [h \in CapHarts |->
           nextSequence[h] + Cardinality(ProcessedOf(in, h))]

CaptureInit ==
    /\ story = [h \in CapHarts |-> <<>>]
    /\ waiting = [h \in CapHarts |-> [r \in Regs |-> None]]
    /\ parked = [h \in CapHarts |-> None]
    /\ strayed = {}
    /\ stores = <<>>
    /\ marker = [addr |-> FALSE, data |-> FALSE, hart |-> None]
    /\ stopped = {}
    /\ nextSequence = [h \in CapHarts |-> 0]
    /\ generated = [h \in CapHarts |-> 0]
    /\ nb = [h \in CapHarts |-> [r \in Regs |-> None]]
    /\ emit = [h \in CapHarts |-> [r \in Regs |-> None]]
    /\ errors = [h \in CapHarts |-> {}]
    /\ refused = FALSE

Handshakes(c) == IF stores = <<>> \/ stores[1][c] THEN {FALSE} ELSE BOOLEAN

Cycle(pair) ==
    LET lanes == [i \in Lanes |-> IF i = 0 THEN pair[1] ELSE pair[2]]
    IN  \E load \in Arrivals(lanes, "load"), div \in Arrivals(lanes, "div"),
           aw \in Handshakes("aw"), w \in Handshakes("w") :
           \E in \in {Wires([lanes |-> lanes, load |-> load, div |-> div,
                            aw |-> aw, w |-> w])} :
              \E full \in SUBSET {h \in CapHarts : ~refused /\ Offers(in, h)} :
                 Step(Wired([in EXCEPT !.ready = [h \in CapHarts |-> h \notin full]]))

CaptureEdge ==
    /\ \A h \in CapHarts : errors[h] = {}
    /\ \E pair \in Retiring : Cycle(pair)

CaptureSpec == CaptureInit /\ [][CaptureEdge]_captureVars

-----------------------------------------------------------------------------
(* A hart that is stopped although no marker store of its own has been       *)
(* processed.  Its core goes on, and the bank no longer sees what it retires. *)
Misled(h) ==
    h \in stopped /\ (parked[h] # None => parked[h] >= nextSequence[h])

(* Each instruction processed before its hart stopped has exactly one        *)
(* record, handed over or in one of the two places of its register           *)
(* (hart_bank:205-334); what is handed over tells what became of the         *)
(* instruction, names a younger instruction that overwrote it if one did,    *)
(* and is counted once.  The marker store itself is recorded.  A hart that   *)
(* still counts has set none of its error bits (355-372): every cancellation *)
(* finds its record, and only a queue without room refuses one, or else so   *)
(* many registers wait for a slot at once that a late record finds no place. *)
(* A misled hart does not disturb the records of the other.                  *)
OneRecordEach ==
    \A h \in CapHarts : ~Misled(h) =>
        IF errors[h] # {}
        THEN refused \/ (errors[h] = {"conflict"} /\ Cardinality(Regs) >= RecordSlots)
        ELSE
        LET late(n) == {r \in Regs : nb[h][r] # None /\ nb[h][r].rec.num = n}
            leaving(n) == {r \in Regs : emit[h][r] # None /\ emit[h][r].num = n}
            recorded == {n \in 1..Len(story[h]) : story[h][n].fate = "recorded"}
        IN  /\ \A n \in 1..Len(story[h]) :
                  Cardinality(late(n - 1)) + Cardinality(leaving(n - 1))
                  = IF n <= nextSequence[h] /\ n \notin recorded THEN 1 ELSE 0
            /\ \A n \in 1..Len(story[h]) : story[h][n].fate # "misrecorded"
            /\ generated[h] = Cardinality(recorded)
            /\ parked[h] # None => parked[h] < nextSequence[h]

(* "Legal same-rd nonblocking lifetimes must hand off without reporting the  *)
(* single per-rd holding entry as an overflow" (tb_instr_info_capture_handoff *)
(* .sv:3): while the queues have room no late record is without a place.     *)
HandsOff == \A h \in CapHarts : "conflict" \in errors[h] => refused

(* The sticky halves of the marker pairing (dual_hier:71-118) may come from  *)
(* two stores of two harts.  A hart is stopped only behind its own marker    *)
(* store, which is among its records, unless it has itself stored another    *)
(* value at the marker's address: no hart that keeps off that address is     *)
(* ever misled, whatever the other hart stores.                              *)
StopsOnItsOwnMarker == \A h \in CapHarts : Misled(h) => h \in strayed
=============================================================================
