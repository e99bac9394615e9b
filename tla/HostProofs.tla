----------------------------- MODULE HostProofs -----------------------------
(* What is proved of the host: the comparator's verdict is that of the log   *)
(* itself, for every golden stream, every set of records, and every number   *)
(* of slots, frames and wrong counts; and in an automated session, for any   *)
(* harts, wire, retries, rounds and numbers of faults, a comparison reads    *)
(* the whole log of its own round, and the session ends only for a failure   *)
(* of board, cores, disk or launch, or where a VM job failed and a frame was *)
(* lost.                                                                     *)
EXTENDS TraceComparator, HostAutomation, FiniteSetTheorems, SequenceTheorems, TLAPS

-----------------------------------------------------------------------------
(* The comparator.                                                           *)

Entry ==
    [kind : {"FOREIGN", "PAD", "END"}, hart : TraceHarts]
    \cup [kind : {"DATA"}, hart : TraceHarts, number : Int]
    \cup [kind : {"RECORD"}, hart : TraceHarts, rec : LogRecords]
    \cup [kind : {"DONE"}, hart : TraceHarts, records : Int, frames : Int, last : Int]

TraceTypes ==
    /\ golden \in GoldenStreams
    /\ verdict \in {"none", "PASS", "FAIL"}
    /\ place \in [hart : TraceHarts, slot : 0 .. FrameSlots, padded : BOOLEAN]
    /\ lastHart \in TraceHarts
    /\ frameNo \in [TraceHarts -> Nat] /\ received \in [TraceHarts -> Nat]
    /\ seen \in [TraceHarts -> SUBSET Nat]
    /\ finished \in SUBSET TraceHarts
    /\ trace \in Seq(Entry)

(* The comparator's counters, bytes and flags are those of the log.          *)
All(kind, h) == Entries(Len(trace), kind, h)
NumbersOf(h) == {trace[i].rec.seq : i \in All("RECORD", h)}
Counted == \A h \in TraceHarts : /\ frameNo[h] = Cardinality(All("DATA", h))
                                 /\ received[h] = Cardinality(All("RECORD", h))
BytesSet == \A h \in TraceHarts : /\ seen[h] = NumbersOf(h)
                                  /\ seen[h] \subseteq 0 .. Count(h) - 1
                                  /\ IsFiniteSet(seen[h])
                                  /\ received[h] = Cardinality(seen[h])
Finished == \A h \in TraceHarts : /\ h \in finished <=> All("DONE", h) # {}
                                  /\ h \in finished => NoneMissing(h)
LastHartKnown ==
    /\ \A i \in 1 .. Len(trace) : trace[i].hart <= lastHart
    /\ lastHart # 0 => \E i \in 1 .. Len(trace) : trace[i].hart = lastHart
PlaceKnown ==
    place.slot # 0 => /\ place.hart = lastHart /\ Len(trace) > 0
                      /\ place.padded <=> trace[Len(trace)].kind = "PAD"
Clean == \A i \in 1 .. Len(trace) : ~Faulty(i)

Reading == Counted /\ BytesSet /\ Finished /\ LastHartKnown /\ PlaceKnown /\ Clean
TraceInv ==
    /\ TraceTypes
    /\ verdict = "none" => Reading
    /\ verdict = "FAIL" => Len(trace) > 0 /\ Faulty(Len(trace))
    /\ verdict = "PASS" => Clean /\ \A h \in TraceHarts : OncePerInstruction(h)

-----------------------------------------------------------------------------
LEMMA EntriesFinite ==
    ASSUME NEW i \in Nat, NEW kind, NEW h
    PROVE  IsFiniteSet(Entries(i, kind, h)) /\ Entries(i, kind, h) \subseteq 1 .. i
<1>1. IsFiniteSet(1 .. i)
  BY FS_Interval
<1>2. Entries(i, kind, h) \in SUBSET (1 .. i)
  BY DEF Entries
<1> QED
  BY <1>1, <1>2, FS_Subset

LEMMA EntryFields ==
    ASSUME NEW e \in Entry
    PROVE  /\ e.hart \in TraceHarts
           /\ e.kind = "RECORD" => e.rec \in LogRecords
BY DEF Entry

LEMMA StartsEmpty == ASSUME TraceInit PROVE TraceInv
<1>1. TraceTypes
  BY TraceAssumption DEF TraceInit, TraceTypes, BetweenFrames, TraceHarts
<1>2. Len(trace) = 0
  BY DEF TraceInit
<1>3. \A kind, h : All(kind, h) = {}
  BY <1>2 DEF All, Entries
<1>4. Counted
  BY <1>3, FS_EmptySet DEF Counted, TraceInit
<1>5. BytesSet
  BY <1>3, FS_EmptySet DEF BytesSet, NumbersOf, TraceInit
<1>6. Finished /\ LastHartKnown /\ PlaceKnown /\ Clean
  BY <1>2, <1>3 DEF Finished, LastHartKnown, PlaceKnown, Clean, TraceInit, BetweenFrames
<1> QED
  BY <1>1, <1>4, <1>5, <1>6 DEF TraceInv, Reading, TraceInit

(* What the log says of an entry does not change as the log grows.           *)
LEMMA LogGrows ==
    ASSUME TraceTypes, NEW e \in Entry, Reads(e), golden' = golden
    PROVE  /\ trace' \in Seq(Entry) /\ Len(trace) \in Nat
           /\ Len(trace') = Len(trace) + 1 /\ trace'[Len(trace) + 1] = e
           /\ \A i \in 1 .. Len(trace) : trace'[i] = trace[i]
<1>1. trace \in Seq(Entry) /\ trace' = Append(trace, e)
  BY DEF TraceTypes, Reads
<1> QED
  BY <1>1

LEMMA EarlierKept ==
    ASSUME TraceTypes, NEW e \in Entry, Reads(e), golden' = golden,
           NEW i \in 0 .. Len(trace), NEW kind, NEW h
    PROVE  Entries(i, kind, h)' = Entries(i, kind, h)
BY LogGrows DEF Entries

LEMMA EntryAdded ==
    ASSUME TraceTypes, NEW e \in Entry, Reads(e), golden' = golden, NEW kind, NEW h
    PROVE  All(kind, h)' = IF e.kind = kind /\ e.hart = h
                           THEN All(kind, h) \cup {Len(trace) + 1} ELSE All(kind, h)
BY LogGrows DEF Entries, All

LEMMA FaultKept ==
    ASSUME TraceTypes, NEW e \in Entry, Reads(e), golden' = golden,
           NEW i \in 1 .. Len(trace)
    PROVE  Faulty(i)' <=> Faulty(i)
<1>1. trace'[i] = trace[i] /\ \A j \in 1 .. i - 1 : trace'[j] = trace[j]
  BY LogGrows
<1>2. \A kind, h : Entries(i - 1, kind, h)' = Entries(i - 1, kind, h)
  BY EarlierKept, LogGrows
<1>3. OutOfHartOrder(i)' <=> OutOfHartOrder(i)
  BY <1>1 DEF OutOfHartOrder
<1>4. BadHeader(i)' <=> BadHeader(i)
  BY <1>1, <1>2 DEF BadHeader
<1>5. \A h : Count(h)' = Count(h) /\ \A r : Agrees(h, r)' <=> Agrees(h, r)
  BY DEF Count, Agrees, SameInstruction, Overwritten, GoldenAt
<1>6. \A h, kind : \A j \in Entries(i - 1, kind, h) : trace'[j] = trace[j]
  BY <1>1 DEF Entries
<1>7. i > 1 => trace'[i - 1] = trace[i - 1]
  BY <1>1, LogGrows
<1>8. BadRecord(i)' <=> BadRecord(i)
  BY <1>1, <1>2, <1>5, <1>6, <1>7 DEF BadRecord
<1>9. BadDone(i)' <=> BadDone(i)
  BY <1>1, <1>2, <1>5, <1>6 DEF BadDone
<1> QED
  BY <1>1, <1>2, <1>3, <1>4, <1>8, <1>9 DEF Faulty

-----------------------------------------------------------------------------
(* The fault of the entry just read, in terms of what the comparator keeps.  *)
LEMMA NewEntry ==
    ASSUME TraceTypes, NEW e \in Entry, Reads(e), golden' = golden,
           NEW n, n = Len(trace) + 1
    PROVE  /\ n \in Nat /\ n > 0 /\ Len(trace') = n /\ trace'[n] = e
           /\ \A kind, h : Entries(n - 1, kind, h)' = All(kind, h)
           /\ \A j \in 1 .. n - 1 : trace'[j] = trace[j]
<1>1. Len(trace) \in 0 .. Len(trace) /\ n - 1 = Len(trace)
  BY LogGrows
<1>2. \A kind, h : Entries(n - 1, kind, h)' = Entries(n - 1, kind, h)
  BY <1>1, EarlierKept
<1> QED
  BY <1>1, <1>2, LogGrows DEF All

LEMMA OrderFault ==
    ASSUME TraceTypes, LastHartKnown, NEW e \in Entry, Reads(e), golden' = golden,
           NEW n, n = Len(trace) + 1
    PROVE  OutOfHartOrder(n)' <=> ~InHartOrder(e.hart)
<1>1. /\ n - 1 = Len(trace) /\ trace'[n] = e
      /\ \A j \in 1 .. n - 1 : trace'[j] = trace[j]
  BY NewEntry, LogGrows
<1>2. OutOfHartOrder(n)' <=> \E j \in 1 .. Len(trace) : trace[j].hart > e.hart
  BY <1>1 DEF OutOfHartOrder
<1>3. e.hart \in TraceHarts /\ lastHart \in TraceHarts
  BY EntryFields DEF TraceTypes
<1>4. \A j \in 1 .. Len(trace) : trace[j].hart \in TraceHarts
  BY EntryFields DEF TraceTypes
<1> QED
  BY <1>2, <1>3, <1>4 DEF LastHartKnown, InHartOrder, TraceHarts

LEMMA HeaderFault ==
    ASSUME TraceTypes, Reading, NEW h \in TraceHarts, NEW number \in Int,
           Reads([kind |-> "DATA", hart |-> h, number |-> number]), golden' = golden,
           NEW n, n = Len(trace) + 1
    PROVE  Faulty(n)' <=> ~(InHartOrder(h) /\ number = frameNo[h])
<1> DEFINE e == [kind |-> "DATA", hart |-> h, number |-> number]
<1>1. e \in Entry /\ Reads(e)
  BY DEF Entry
<1> HIDE DEF e
<1>2. e.kind = "DATA" /\ e.hart = h /\ e.number = number
  BY DEF e
<1>3. trace'[n] = e /\ Entries(n - 1, "DATA", h)' = All("DATA", h)
  BY <1>1, NewEntry
<1>4. OutOfHartOrder(n)' <=> ~InHartOrder(h)
  BY <1>1, <1>2, OrderFault DEF Reading
<1>5. BadHeader(n)' <=> number # frameNo[h]
  BY <1>2, <1>3 DEF BadHeader, Reading, Counted
<1> QED
  BY <1>2, <1>3, <1>4, <1>5 DEF Faulty

LEMMA RecordFault ==
    ASSUME TraceTypes, Reading, place.slot # 0, NEW r \in LogRecords, NEW h, h = place.hart,
           Reads([kind |-> "RECORD", hart |-> h, rec |-> r]), golden' = golden,
           NEW n, n = Len(trace) + 1
    PROVE  Faulty(n)' <=> ~(~place.padded /\ Expected(h, r) /\ Agrees(h, r))
<1> DEFINE e == [kind |-> "RECORD", hart |-> h, rec |-> r]
<1>1. h \in TraceHarts /\ e \in Entry /\ Reads(e)
  BY DEF Entry, TraceTypes
<1> HIDE DEF e
<1>2. e.kind = "RECORD" /\ e.hart = h /\ e.rec = r
  BY DEF e
<1>3. /\ n \in Nat /\ n - 1 = Len(trace) /\ trace'[n] = e
      /\ Entries(n - 1, "RECORD", h)' = All("RECORD", h)
      /\ \A j \in 1 .. n - 1 : trace'[j] = trace[j]
  BY <1>1, NewEntry, LogGrows
<1>4. n > 1 /\ (place.padded <=> trace'[n - 1].kind = "PAD")
  BY <1>3, LogGrows DEF Reading, PlaceKnown
<1>5. (\E j \in All("RECORD", h) : trace'[j].rec.seq = r.seq) <=> r.seq \in seen[h]
  <2>1. \A j \in All("RECORD", h) : trace'[j] = trace[j]
    BY <1>3 DEF All, Entries
  <2> QED
    BY <1>1, <2>1 DEF Reading, BytesSet, NumbersOf
<1>6. r.seq \in Nat /\ Count(h) \in Nat
  BY SMTT(30), <1>1, TraceAssumption DEF LogEntries, Count, TraceTypes
<1>7. Count(h)' = Count(h) /\ (Agrees(h, r)' <=> Agrees(h, r))
  BY DEF Count, Agrees, SameInstruction, Overwritten, GoldenAt
<1>8. BadRecord(n)' <=> \/ place.padded \/ r.seq >= Count(h)
                        \/ r.seq \in seen[h] \/ ~Agrees(h, r)
  BY <1>2, <1>3, <1>4, <1>5, <1>7 DEF BadRecord
<1>9. Faulty(n)' <=> BadRecord(n)'
  BY <1>2, <1>3 DEF Faulty
<1> QED
  BY <1>6, <1>8, <1>9 DEF Expected

LEMMA DoneFault ==
    ASSUME TraceTypes, Reading, NEW h \in TraceHarts,
           NEW records \in Int, NEW frames \in Int, NEW last \in Int,
           Reads([kind |-> "DONE", hart |-> h,
                  records |-> records, frames |-> frames, last |-> last]),
           golden' = golden, NEW n, n = Len(trace) + 1
    PROVE  Faulty(n)' <=> ~(/\ InHartOrder(h) /\ h \notin finished
                            /\ Declared(h, records, frames, last) /\ NoneMissing(h))
<1> DEFINE e == [kind |-> "DONE", hart |-> h,
                 records |-> records, frames |-> frames, last |-> last]
<1>1. e \in Entry /\ Reads(e)
  BY DEF Entry
<1> HIDE DEF e
<1>2. /\ e.kind = "DONE" /\ e.hart = h
      /\ e.records = records /\ e.frames = frames /\ e.last = last
  BY DEF e
<1>3. /\ n - 1 = Len(trace) /\ trace'[n] = e
      /\ \A kind : Entries(n - 1, kind, h)' = All(kind, h)
      /\ \A j \in 1 .. n - 1 : trace'[j] = trace[j]
  BY <1>1, NewEntry, LogGrows
<1>4. OutOfHartOrder(n)' <=> ~InHartOrder(h)
  BY <1>1, <1>2, OrderFault DEF Reading
<1>5. All("DONE", h) # {} <=> h \in finished
  BY DEF Reading, Finished
<1>6. received[h] = Cardinality(All("RECORD", h)) /\ frameNo[h] = Cardinality(All("DATA", h))
  BY DEF Reading, Counted
<1>7. (\E q \in 0 .. Count(h) - 1 : \A j \in All("RECORD", h) : trace'[j].rec.seq # q)
      <=> ~NoneMissing(h)
  <2>1. \A j \in All("RECORD", h) : trace'[j] = trace[j]
    BY <1>3 DEF All, Entries
  <2> QED
    BY <2>1 DEF Reading, BytesSet, NumbersOf, NoneMissing
<1>8. Count(h)' = Count(h)
  BY DEF Count
<1>9. BadDone(n)' <=> \/ h \in finished \/ ~Declared(h, records, frames, last) \/ ~NoneMissing(h)
  <2>1. BadDone(n)' <=> \/ h \in finished
                        \/ records # received[h] \/ frames # frameNo[h]
                        \/ last # received[h] - 1 \/ ~NoneMissing(h)
    BY <1>2, <1>3, <1>5, <1>6, <1>7, <1>8 DEF BadDone
  <2> QED
    BY <2>1 DEF Declared
<1> QED
  BY <1>2, <1>3, <1>4, <1>9 DEF Faulty

(* A finished hart has been received in full, so that the last count adds no *)
(* reason to reject.                                                         *)
LEMMA AllReceived ==
    ASSUME TraceTypes, Reading, NEW h \in finished
    PROVE  h \in TraceHarts /\ received[h] = Count(h)
<1>1. h \in TraceHarts /\ NoneMissing(h)
  BY DEF TraceTypes, Reading, Finished
<1>2. Count(h) \in Nat
  BY <1>1, TraceAssumption DEF Count, TraceTypes
<1>3. seen[h] = 0 .. Count(h) - 1
  BY <1>1 DEF Reading, BytesSet, NoneMissing
<1>4. Cardinality(0 .. Count(h) - 1) = Count(h)
  BY <1>2, FS_Interval
<1> QED
  BY <1>1, <1>3, <1>4 DEF Reading, BytesSet

LEMMA EndFault ==
    ASSUME TraceTypes, Reading, Reads([kind |-> "END", hart |-> lastHart]),
           golden' = golden, NEW n, n = Len(trace) + 1
    PROVE  Faulty(n)' <=> ~(finished = TraceHarts /\ \A h \in TraceHarts : received[h] = Count(h))
<1> DEFINE e == [kind |-> "END", hart |-> lastHart]
<1>1. e \in Entry /\ Reads(e)
  BY DEF Entry, TraceTypes
<1> HIDE DEF e
<1>2. e.kind = "END"
  BY DEF e
<1>3. trace'[n] = e /\ \A h : Entries(n - 1, "DONE", h)' = All("DONE", h)
  BY <1>1, NewEntry
<1>4. Faulty(n)' <=> \E h \in TraceHarts : h \notin finished
  BY <1>2, <1>3 DEF Faulty, Reading, Finished
<1>5. finished \subseteq TraceHarts
  BY DEF TraceTypes
<1> QED
  BY <1>4, <1>5, AllReceived

LEMMA TrueIfAgreed ==
    ASSUME NEW h, Count(h) \in Nat, NEW r \in LogEntries, Agrees(h, r)
    PROVE  Truthful(h, r)
<1>1. r.seq \in Nat /\ r.cancel \in Nat
  BY DEF LogEntries
<1>2. CASE r.kind = 0
  BY <1>2 DEF Agrees, Truthful
<1>3. CASE r.kind # 0
  <2>1. Overwritten(h, r) /\ SameInstruction(h, r)
    BY <1>3 DEF Agrees
  <2>2. r.cancel \in r.seq + 1 .. Count(h) - 1
    BY <1>1, <2>1 DEF Overwritten
  <2>3. GoldenAt(h, r.cancel).event = 1 /\ GoldenAt(h, r.cancel).target = r.target
    BY <2>1 DEF Overwritten, SameInstruction
  <2> QED
    BY <2>1, <2>2, <2>3 DEF Truthful
<1> QED
  BY <1>2, <1>3

LEMMA OnceEach ==
    ASSUME TraceTypes, Reading, NEW h \in finished
    PROVE  OncePerInstruction(h)
<1> DEFINE recorded == All("RECORD", h)
<1>1. h \in TraceHarts /\ NoneMissing(h) /\ Len(trace) \in Nat
  BY DEF TraceTypes, Reading, Finished
<1>2. Count(h) \in Nat
  BY <1>1, TraceAssumption DEF Count, TraceTypes
<1>3. \A i \in recorded : i \in 1 .. Len(trace) /\ trace[i].kind = "RECORD" /\ trace[i].hart = h
  BY DEF All, Entries
<1>4. \A i \in recorded : trace[i].rec \in LogRecords
  BY <1>3, EntryFields DEF TraceTypes
<1>5. \A i \in recorded : ~BadRecord(i)
  BY <1>3 DEF Reading, Clean, Faulty
<1>6. \A i, j \in recorded : j < i => trace[i].rec.seq # trace[j].rec.seq
  <2> SUFFICES ASSUME NEW i \in recorded, NEW j \in recorded, j < i
               PROVE  trace[i].rec.seq # trace[j].rec.seq
    OBVIOUS
  <2>1. j \in Entries(i - 1, "RECORD", h)
    BY <1>1, <1>3 DEF Entries
  <2> QED
    BY <1>3, <1>5, <2>1 DEF BadRecord
<1>7. \A i \in recorded : trace[i].rec.seq < Count(h) /\ Agrees(h, trace[i].rec)
  <2> SUFFICES ASSUME NEW i \in recorded
               PROVE  trace[i].rec.seq < Count(h) /\ Agrees(h, trace[i].rec)
    OBVIOUS
  <2>1. trace[i].rec.seq \in Nat
    BY <1>4, TraceAssumption DEF LogEntries
  <2> QED
    BY <1>2, <1>3, <1>5, <2>1 DEF BadRecord
<1>8. \A i \in recorded : Truthful(h, trace[i].rec)
  BY <1>2, <1>4, <1>7, TraceAssumption, TrueIfAgreed
<1>9. \A q \in 0 .. Count(h) - 1 : \E i \in recorded : trace[i].rec.seq = q
  BY <1>1 DEF NoneMissing, Reading, BytesSet, NumbersOf
<1>10. \A i, j \in recorded : trace[i].rec.seq = trace[j].rec.seq => i = j
  BY <1>1, <1>3, <1>6
<1> QED
  BY <1>7, <1>8, <1>9, <1>10 DEF OncePerInstruction, All

-----------------------------------------------------------------------------
(* The steps.                                                                *)
LEMMA LogTyped ==
    ASSUME TraceTypes, NEW e \in Entry, Reads(e)
    PROVE  trace' \in Seq(Entry)
BY DEF TraceTypes, Reads

LEMMA Rejected ==
    ASSUME TraceTypes, NEW e \in Entry, Reads(e), Rejects,
           NEW n, n = Len(trace) + 1, Faulty(n)'
    PROVE  TraceInv'
<1>1. golden' = golden /\ verdict' = "FAIL"
  BY DEF Rejects
<1>2. Len(trace') = n /\ n > 0
  BY <1>1, NewEntry
<1>3. TraceTypes'
  BY LogTyped DEF Rejects, TraceTypes
<1>4. Faulty(Len(trace))'
  BY <1>2
<1> QED
  BY <1>1, <1>2, <1>3, <1>4 DEF TraceInv

LEMMA CleanKept ==
    ASSUME TraceTypes, Clean, NEW e \in Entry, Reads(e), golden' = golden,
           NEW n, n = Len(trace) + 1, ~Faulty(n)'
    PROVE  Clean'
<1>1. Len(trace') = n /\ Len(trace) \in Nat
  BY LogGrows
<1>2. \A i \in 1 .. Len(trace) : ~Faulty(i)'
  BY FaultKept DEF Clean
<1>3. \A i \in 1 .. n : i \in 1 .. Len(trace) \/ i = n
  BY <1>1
<1>4. \A i \in 1 .. n : ~Faulty(i)'
  BY <1>2, <1>3
<1> QED
  BY <1>1, <1>4 DEF Clean

(* An entry of the hart under way, or of a later one.                        *)
LEMMA LastHartKept ==
    ASSUME TraceTypes, LastHartKnown, NEW e \in Entry, Reads(e), golden' = golden,
           InHartOrder(e.hart), lastHart' = e.hart
    PROVE  LastHartKnown'
<1>1. /\ Len(trace') = Len(trace) + 1 /\ Len(trace) \in Nat /\ trace'[Len(trace) + 1] = e
      /\ \A i \in 1 .. Len(trace) : trace'[i] = trace[i]
  BY LogGrows
<1>2. e.hart \in TraceHarts /\ lastHart \in TraceHarts /\ lastHart <= e.hart
  BY EntryFields DEF TraceTypes, InHartOrder, TraceHarts
<1>3. \A i \in 1 .. Len(trace) : trace[i].hart \in TraceHarts
  BY EntryFields DEF TraceTypes
<1> QED
  BY <1>1, <1>2, <1>3 DEF LastHartKnown, TraceHarts

LEMMA OthersKept ==
    ASSUME TraceTypes, NEW e \in Entry, Reads(e), golden' = golden,
           NEW kind, e.kind # kind, NEW h
    PROVE  All(kind, h)' = All(kind, h)
BY EntryAdded

LEMMA OneMore ==
    ASSUME TraceTypes, NEW e \in Entry, Reads(e), golden' = golden, NEW h
    PROVE  Cardinality(All(e.kind, h)') =
               Cardinality(All(e.kind, h)) + (IF e.hart = h THEN 1 ELSE 0)
<1> DEFINE old == All(e.kind, h)
           n == Len(trace) + 1
<1>1. Len(trace) \in Nat
  BY LogGrows
<1>2. IsFiniteSet(old) /\ old \subseteq 1 .. Len(trace)
  BY <1>1, EntriesFinite DEF All
<1>3. n \notin old
  BY <1>1, <1>2
<1>4. Cardinality(old) \in Nat
  BY <1>2, FS_CardinalityType
<1>5. All(e.kind, h)' = IF e.hart = h THEN old \cup {n} ELSE old
  BY EntryAdded
<1> HIDE DEF old, n
<1>6. Cardinality(old \cup {n}) = Cardinality(old) + 1
  BY <1>2, <1>3, FS_AddElement
<1>7. Cardinality(All(e.kind, h)') = Cardinality(old) + (IF e.hart = h THEN 1 ELSE 0)
  BY <1>4, <1>5, <1>6
<1> QED
  BY <1>7 DEF old

LEMMA NumbersKept ==
    ASSUME TraceTypes, NEW e \in Entry, Reads(e), golden' = golden,
           NEW h, e.kind # "RECORD" \/ e.hart # h
    PROVE  NumbersOf(h)' = NumbersOf(h)
<1>1. All("RECORD", h)' = All("RECORD", h)
  BY EntryAdded
<1>2. \A i \in All("RECORD", h) : trace'[i] = trace[i]
  BY LogGrows DEF All, Entries
<1> QED
  BY <1>1, <1>2 DEF NumbersOf

LEMMA NumberAdded ==
    ASSUME TraceTypes, NEW e \in Entry, Reads(e), golden' = golden, e.kind = "RECORD"
    PROVE  NumbersOf(e.hart)' = NumbersOf(e.hart) \cup {e.rec.seq}
<1>1. All("RECORD", e.hart)' = All("RECORD", e.hart) \cup {Len(trace) + 1}
  BY EntryAdded
<1>2. \A i \in All("RECORD", e.hart) : trace'[i] = trace[i]
  BY LogGrows DEF All, Entries
<1>3. trace'[Len(trace) + 1] = e
  BY LogGrows
<1> QED
  BY <1>1, <1>2, <1>3 DEF NumbersOf

(* What is true of the bytes and of the finished harts stays true while the  *)
(* variables and the entries it is about do.                                 *)
LEMMA BytesKept ==
    ASSUME TraceTypes, BytesSet, NEW e \in Entry, Reads(e), golden' = golden,
           e.kind # "RECORD", seen' = seen, received' = received
    PROVE  BytesSet'
<1>1. \A h : NumbersOf(h)' = NumbersOf(h)
  BY NumbersKept
<1> QED
  BY <1>1 DEF BytesSet, Count

LEMMA FinishedKept ==
    ASSUME TraceTypes, Finished, NEW e \in Entry, Reads(e), golden' = golden,
           e.kind # "DONE", finished' = finished,
           \A h \in TraceHarts : seen[h] \subseteq seen'[h]
    PROVE  Finished'
<1>1. \A h : All("DONE", h)' = All("DONE", h)
  BY OthersKept
<1>2. \A h \in TraceHarts : NoneMissing(h) => NoneMissing(h)'
  BY DEF NoneMissing, Count
<1> QED
  BY <1>1, <1>2 DEF Finished

LEMMA CountsKept ==
    ASSUME TraceTypes, Counted, NEW e \in Entry, Reads(e), golden' = golden,
           e.kind \notin {"DATA", "RECORD"}, frameNo' = frameNo, received' = received
    PROVE  Counted'
<1>1. \A h : All("DATA", h)' = All("DATA", h) /\ All("RECORD", h)' = All("RECORD", h)
  BY OthersKept
<1> QED
  BY <1>1 DEF Counted

-----------------------------------------------------------------------------
(* One lemma per action.                                                     *)
LEMMA ForeignStep == ASSUME TraceInv, ReadsForeign PROVE TraceInv'
<1>1. PICK e, n : e = [kind |-> "FOREIGN", hart |-> lastHart] /\ n = Len(trace) + 1
  OBVIOUS
<1>2. TraceTypes /\ Reads(e) /\ Rejects /\ golden' = golden
  BY <1>1 DEF TraceInv, ReadsForeign, Rejects
<1>3. e \in Entry /\ e.kind = "FOREIGN"
  BY <1>1, <1>2 DEF Entry, TraceTypes
<1>4. trace'[n] = e
  BY <1>1, <1>2, <1>3, LogGrows
<1>5. Faulty(n)'
  BY <1>3, <1>4 DEF Faulty
<1> QED
  BY <1>1, <1>2, <1>3, <1>5, Rejected

LEMMA HeaderStep ==
    ASSUME TraceInv, NEW h \in TraceHarts, NEW number \in Int, ReadsHeader(h, number)
    PROVE  TraceInv'
<1> DEFINE e == [kind |-> "DATA", hart |-> h, number |-> number]
<1>0. PICK n : n = Len(trace) + 1
  OBVIOUS
<1>1. TraceTypes /\ Reading /\ Reads(e) /\ verdict = "none" /\ golden' = golden
  BY DEF TraceInv, ReadsHeader, AtFrame, Rejects
<1>2. e \in Entry /\ e.kind = "DATA" /\ e.hart = h
  BY DEF Entry
<1> HIDE DEF e
<1>3. Faulty(n)' <=> ~(InHartOrder(h) /\ number = frameNo[h])
  BY <1>1, <1>0, HeaderFault DEF e
<1>4. CASE ~(InHartOrder(h) /\ number = frameNo[h])
  <2>1. Rejects
    BY <1>4 DEF ReadsHeader
  <2> QED
    BY <1>1, <1>2, <1>3, <1>4, <1>0, <2>1, Rejected
<1>5. CASE InHartOrder(h) /\ number = frameNo[h]
  <2>1. /\ lastHart' = h /\ frameNo' = [frameNo EXCEPT ![h] = @ + 1]
        /\ place' = [hart |-> h, slot |-> 1, padded |-> FALSE]
        /\ verdict' = verdict /\ seen' = seen /\ received' = received /\ finished' = finished
    BY <1>5 DEF ReadsHeader
  <2>2. TraceTypes'
    <3>1. frameNo' \in [TraceHarts -> Nat] /\ lastHart' \in TraceHarts
      BY <1>1, <2>1 DEF TraceTypes
    <3>2. place' \in [hart : TraceHarts, slot : 0 .. FrameSlots, padded : BOOLEAN]
      BY <2>1, TraceAssumption
    <3>3. trace' \in Seq(Entry)
      BY <1>1, <1>2, LogTyped
    <3> QED
      BY <1>1, <2>1, <3>1, <3>2, <3>3 DEF TraceTypes
  <2>3. Clean' /\ LastHartKnown'
    BY <1>1, <1>2, <1>3, <1>5, <1>0, <2>1, CleanKept, LastHartKept DEF Reading
  <2>4. BytesSet' /\ Finished'
    BY <1>1, <1>2, <2>1, BytesKept, FinishedKept DEF Reading
  <2>5. Counted'
    <3>1. \A g : /\ Cardinality(All("DATA", g)') =
                       Cardinality(All("DATA", g)) + (IF h = g THEN 1 ELSE 0)
                 /\ All("RECORD", g)' = All("RECORD", g)
      BY <1>1, <1>2, OneMore, OthersKept
    <3>2. \A g \in TraceHarts :
             frameNo'[g] = frameNo[g] + (IF h = g THEN 1 ELSE 0) /\ frameNo[g] \in Nat
      BY <1>1, <2>1 DEF TraceTypes
    <3> QED
      BY <1>1, <2>1, <3>1, <3>2 DEF Reading, Counted
  <2>6. PlaceKnown'
    BY <1>1, <1>2, <2>1, LogGrows DEF PlaceKnown
  <2> QED
    BY <1>1, <2>1, <2>2, <2>3, <2>4, <2>5, <2>6 DEF TraceInv, Reading
<1> QED
  BY <1>4, <1>5

LEMMA SlotMoves ==
    ASSUME TraceTypes, place.slot # 0, NEW padded \in BOOLEAN, place' = AfterSlot(padded)
    PROVE  /\ place' \in [hart : TraceHarts, slot : 0 .. FrameSlots, padded : BOOLEAN]
           /\ place'.slot # 0 => place'.hart = place.hart /\ place'.padded = padded
<1>1. /\ place \in [hart : TraceHarts, slot : 0 .. FrameSlots, padded : BOOLEAN]
      /\ FrameSlots \in Nat \ {0}
  BY TraceAssumption DEF TraceTypes
<1>2. CASE place.slot = FrameSlots
  BY <1>1, <1>2 DEF AfterSlot, BetweenFrames, TraceHarts
<1>3. CASE place.slot # FrameSlots
  <2>1. place.slot + 1 \in 0 .. FrameSlots
    BY <1>1, <1>3
  <2>2. place' = [place EXCEPT !.slot = @ + 1, !.padded = padded]
    BY <1>3 DEF AfterSlot
  <2> QED
    BY <1>1, <2>1, <2>2
<1> QED
  BY <1>2, <1>3

LEMMA PaddingStep == ASSUME TraceInv, ReadsPadding PROVE TraceInv'
<1>0. PICK e, h, n : /\ h = place.hart /\ n = Len(trace) + 1
                      /\ e = [kind |-> "PAD", hart |-> h]
  OBVIOUS
<1>1. TraceTypes /\ Reading /\ Reads(e) /\ place.slot # 0 /\ golden' = golden
  BY <1>0 DEF TraceInv, ReadsPadding
<1>2. h \in TraceHarts /\ h = lastHart
  BY <1>1, <1>0 DEF TraceTypes, Reading, PlaceKnown
<1>3. e \in Entry /\ e.kind = "PAD" /\ e.hart = h
  BY <1>2, <1>0 DEF Entry
<1>4. /\ place' = AfterSlot(TRUE) /\ verdict' = verdict /\ lastHart' = lastHart
      /\ frameNo' = frameNo /\ seen' = seen /\ received' = received /\ finished' = finished
  BY DEF ReadsPadding
<1>5. TraceTypes'
  BY <1>1, <1>3, <1>4, SlotMoves, LogTyped DEF TraceTypes
<1>6. Len(trace') = n /\ trace'[n] = e /\ n > 0
  BY <1>1, <1>3, <1>0, NewEntry
<1>7. ~Faulty(n)'
  BY <1>3, <1>6 DEF Faulty
<1>8. Clean' /\ Counted' /\ BytesSet' /\ Finished'
  BY <1>1, <1>3, <1>4, <1>7, <1>0, CleanKept, CountsKept, BytesKept, FinishedKept DEF Reading
<1>9. LastHartKnown'
  <2>1. InHartOrder(h) /\ lastHart' = h
    BY <1>2, <1>4 DEF InHartOrder, TraceHarts
  <2> QED
    BY <1>1, <1>3, <2>1, LastHartKept DEF Reading
<1>10. PlaceKnown'
  BY <1>1, <1>2, <1>3, <1>4, <1>6, <1>0, SlotMoves DEF PlaceKnown
<1> QED
  BY <1>1, <1>4, <1>5, <1>8, <1>9, <1>10 DEF TraceInv, Reading, ReadsPadding

LEMMA RecordStep ==
    ASSUME TraceInv, NEW r \in LogRecords, ReadsRecord(r)
    PROVE  TraceInv'
<1>0. PICK e, h, n : /\ h = place.hart /\ n = Len(trace) + 1
                     /\ e = [kind |-> "RECORD", hart |-> h, rec |-> r]
  OBVIOUS
<1>1. TraceTypes /\ Reading /\ Reads(e) /\ place.slot # 0 /\ verdict = "none" /\ golden' = golden
  BY <1>0 DEF TraceInv, ReadsRecord, Rejects
<1>2. h \in TraceHarts /\ h = lastHart
  BY <1>0, <1>1 DEF TraceTypes, Reading, PlaceKnown
<1>3. e \in Entry /\ e.kind = "RECORD" /\ e.hart = h /\ e.rec = r
  BY <1>0, <1>2 DEF Entry
<1>4. Faulty(n)' <=> ~(~place.padded /\ Expected(h, r) /\ Agrees(h, r))
  BY <1>0, <1>1, RecordFault
<1>5. CASE ~(~place.padded /\ Expected(h, r) /\ Agrees(h, r))
  <2>1. Rejects
    BY <1>0, <1>5 DEF ReadsRecord
  <2> QED
    BY <1>0, <1>1, <1>3, <1>4, <1>5, <2>1, Rejected
<1>6. CASE ~place.padded /\ Expected(h, r) /\ Agrees(h, r)
  <2>1. /\ seen' = [seen EXCEPT ![h] = @ \cup {r.seq}]
        /\ received' = [received EXCEPT ![h] = @ + 1]
        /\ place' = AfterSlot(FALSE) /\ verdict' = verdict /\ lastHart' = lastHart
        /\ frameNo' = frameNo /\ finished' = finished
    BY <1>0, <1>6 DEF ReadsRecord
  <2>2. r.seq \in 0 .. Count(h) - 1 /\ r.seq \notin seen[h] /\ r.seq \in Nat
    <3>1. r.seq \in Nat /\ Count(h) \in Nat
      BY <1>1, <1>2, TraceAssumption DEF LogEntries, Count, TraceTypes
    <3> QED
      BY <1>6, <3>1 DEF Expected
  <2>3. TraceTypes'
    <3>1. seen' \in [TraceHarts -> SUBSET Nat] /\ received' \in [TraceHarts -> Nat]
      BY <1>1, <1>2, <2>1, <2>2 DEF TraceTypes
    <3>2. trace' \in Seq(Entry)
      BY <1>1, <1>3, LogTyped
    <3>3. place' \in [hart : TraceHarts, slot : 0 .. FrameSlots, padded : BOOLEAN]
      BY <1>1, <2>1, SlotMoves
    <3> QED
      BY <1>1, <2>1, <3>1, <3>2, <3>3 DEF TraceTypes
  <2>4. Clean' /\ Finished'
    <3>1. \A g \in TraceHarts : seen[g] \subseteq seen'[g]
      BY <1>1, <1>2, <2>1 DEF TraceTypes
    <3> QED
      BY <1>0, <1>1, <1>3, <1>4, <1>6, <2>1, <3>1, CleanKept, FinishedKept DEF Reading
  <2>5. LastHartKnown'
    <3>1. InHartOrder(h) /\ lastHart' = h
      BY <1>2, <2>1 DEF InHartOrder, TraceHarts
    <3> QED
      BY <1>1, <1>3, <3>1, LastHartKept DEF Reading
  <2>6. Counted'
    <3>1. \A g : /\ Cardinality(All("RECORD", g)') =
                       Cardinality(All("RECORD", g)) + (IF h = g THEN 1 ELSE 0)
                 /\ All("DATA", g)' = All("DATA", g)
      BY <1>1, <1>3, OneMore, OthersKept
    <3>2. \A g \in TraceHarts :
             received'[g] = received[g] + (IF h = g THEN 1 ELSE 0) /\ received[g] \in Nat
      BY <1>1, <2>1 DEF TraceTypes
    <3> QED
      BY <1>1, <2>1, <3>1, <3>2 DEF Reading, Counted
  <2>7. BytesSet'
    <3>1. NumbersOf(h)' = NumbersOf(h) \cup {r.seq}
      BY <1>1, <1>3, NumberAdded
    <3>2. \A g \in TraceHarts \ {h} : NumbersOf(g)' = NumbersOf(g)
      BY <1>1, <1>3, NumbersKept
    <3>3. /\ IsFiniteSet(seen[h] \cup {r.seq})
          /\ Cardinality(seen[h] \cup {r.seq}) = Cardinality(seen[h]) + 1
      BY <1>1, <1>2, <2>2, FS_AddElement DEF Reading, BytesSet
    <3>4. \A g : Count(g)' = Count(g)
      BY <1>1 DEF Count
    <3>5. /\ seen'[h] = seen[h] \cup {r.seq} /\ received'[h] = received[h] + 1
          /\ \A g \in TraceHarts \ {h} : seen'[g] = seen[g] /\ received'[g] = received[g]
      BY <1>1, <1>2, <2>1 DEF TraceTypes
    <3>6. \A g \in TraceHarts \ {h} : /\ seen'[g] = NumbersOf(g)'
                                      /\ seen'[g] \subseteq 0 .. Count(g)' - 1
                                      /\ IsFiniteSet(seen'[g])
                                      /\ received'[g] = Cardinality(seen'[g])
      BY <1>1, <3>2, <3>4, <3>5 DEF Reading, BytesSet
    <3>7. /\ seen'[h] = NumbersOf(h)' /\ seen'[h] \subseteq 0 .. Count(h)' - 1
          /\ IsFiniteSet(seen'[h]) /\ received'[h] = Cardinality(seen'[h])
      BY <1>1, <1>2, <2>2, <3>1, <3>3, <3>4, <3>5 DEF Reading, BytesSet
    <3> QED
      BY <3>6, <3>7 DEF BytesSet
  <2>8. PlaceKnown'
    <3>1. Len(trace') = n /\ n > 0 /\ trace'[n] = e
      BY <1>0, <1>1, <1>3, NewEntry
    <3> QED
      BY <1>0, <1>1, <1>2, <1>3, <2>1, <3>1, SlotMoves DEF PlaceKnown
  <2> QED
    BY <1>1, <2>1, <2>3, <2>4, <2>5, <2>6, <2>7, <2>8 DEF TraceInv, Reading
<1> QED
  BY <1>5, <1>6

LEMMA DoneStep ==
    ASSUME TraceInv, NEW h \in TraceHarts, NEW records \in Int, NEW frames \in Int,
           NEW last \in Int, ReadsDone(h, records, frames, last)
    PROVE  TraceInv'
<1> DEFINE e == [kind |-> "DONE", hart |-> h,
                 records |-> records, frames |-> frames, last |-> last]
           Accepted == /\ InHartOrder(h) /\ h \notin finished
                       /\ Declared(h, records, frames, last) /\ NoneMissing(h)
<1>0. PICK n : n = Len(trace) + 1
  OBVIOUS
<1>1. TraceTypes /\ Reading /\ Reads(e) /\ verdict = "none" /\ place.slot = 0 /\ golden' = golden
  BY DEF TraceInv, ReadsDone, AtFrame, Rejects
<1>2. e \in Entry /\ e.kind = "DONE" /\ e.hart = h
  BY DEF Entry
<1>3. Faulty(n)' <=> ~Accepted
  BY <1>0, <1>1, DoneFault
<1> HIDE DEF e
<1>4. CASE ~Accepted
  <2>1. Rejects
    BY <1>4 DEF ReadsDone
  <2> QED
    BY <1>0, <1>1, <1>2, <1>3, <1>4, <2>1, Rejected
<1>5. CASE Accepted
  <2>1. /\ lastHart' = h /\ finished' = finished \cup {h} /\ verdict' = verdict /\ place' = place
        /\ frameNo' = frameNo /\ seen' = seen /\ received' = received
    BY <1>5 DEF ReadsDone
  <2>2. TraceTypes'
    <3>1. trace' \in Seq(Entry)
      BY <1>1, <1>2, LogTyped
    <3> QED
      BY <1>1, <2>1, <3>1 DEF TraceTypes
  <2>3. Clean' /\ LastHartKnown' /\ Counted' /\ BytesSet'
    BY <1>0, <1>1, <1>2, <1>3, <1>5, <2>1, CleanKept, LastHartKept, CountsKept, BytesKept
       DEF Reading
  <2>4. Finished'
    <3>1. \A g : NoneMissing(g)' <=> NoneMissing(g)
      BY <1>1, <2>1 DEF NoneMissing, Count
    <3>2. All("DONE", h)' # {} /\ \A g : g # h => All("DONE", g)' = All("DONE", g)
      BY <1>1, <1>2, EntryAdded
    <3> QED
      BY <1>1, <1>5, <2>1, <3>1, <3>2 DEF Reading, Finished
  <2>5. PlaceKnown'
    BY <1>1, <2>1 DEF PlaceKnown
  <2> QED
    BY <1>1, <2>1, <2>2, <2>3, <2>4, <2>5 DEF TraceInv, Reading
<1> QED
  BY <1>4, <1>5

LEMMA EndStep == ASSUME TraceInv, ReadsEnd PROVE TraceInv'
<1> DEFINE Accepted == finished = TraceHarts /\ \A h \in TraceHarts : received[h] = Count(h)
<1>0. PICK e, n : e = [kind |-> "END", hart |-> lastHart] /\ n = Len(trace) + 1
  OBVIOUS
<1>1. TraceTypes /\ Reading /\ Reads(e) /\ golden' = golden
  BY <1>0 DEF TraceInv, ReadsEnd, AtFrame, Rejects
<1>2. e \in Entry /\ e.kind = "END"
  BY <1>0, <1>1 DEF Entry, TraceTypes
<1>3. Faulty(n)' <=> ~Accepted
  BY <1>0, <1>1, EndFault
<1>4. CASE ~Accepted
  <2>1. Rejects
    BY <1>4 DEF ReadsEnd
  <2> QED
    BY <1>0, <1>1, <1>2, <1>3, <1>4, <2>1, Rejected
<1>5. CASE Accepted
  <2>1. /\ verdict' = "PASS"
        /\ UNCHANGED <<golden, place, lastHart, frameNo, seen, received, finished>>
    BY <1>5 DEF ReadsEnd
  <2>2. TraceTypes'
    <3>1. trace' \in Seq(Entry)
      BY <1>1, <1>2, LogTyped
    <3> QED
      BY <1>1, <2>1, <3>1 DEF TraceTypes
  <2>3. Clean'
    BY <1>0, <1>1, <1>2, <1>3, <1>5, CleanKept DEF Reading
  <2>4. ASSUME NEW h \in TraceHarts PROVE OncePerInstruction(h)'
    <3>1. OncePerInstruction(h)
      BY <1>1, <1>5, OnceEach
    <3>2. All("RECORD", h)' = All("RECORD", h)
      BY <1>1, <1>2, OthersKept
    <3>3. \A i \in All("RECORD", h) : trace'[i] = trace[i]
      BY <1>1, <1>2, LogGrows DEF All, Entries
    <3>4. Count(h)' = Count(h) /\ \A r : Truthful(h, r)' <=> Truthful(h, r)
      BY <1>1 DEF Count, Truthful, SameInstruction, GoldenAt
    <3> QED
      BY <3>1, <3>2, <3>3, <3>4 DEF OncePerInstruction, All
  <2> QED
    BY <2>1, <2>2, <2>3, <2>4 DEF TraceInv
<1> QED
  BY <1>4, <1>5

LEMMA StutterKeepsTrace == ASSUME TraceInv, UNCHANGED traceVars PROVE TraceInv'
<1> USE DEF traceVars
<1>1. /\ \A i, kind, h : Entries(i, kind, h)' = Entries(i, kind, h)
      /\ \A h : Count(h)' = Count(h)
      /\ \A h, r : /\ SameInstruction(h, r)' <=> SameInstruction(h, r)
                   /\ Overwritten(h, r)' <=> Overwritten(h, r)
                   /\ GoldenAt(h, r)' = GoldenAt(h, r)
  BY DEF Entries, Count, SameInstruction, Overwritten, GoldenAt
<1>2. \A h, r : (Agrees(h, r)' <=> Agrees(h, r)) /\ (Truthful(h, r)' <=> Truthful(h, r))
  BY <1>1 DEF Agrees, Truthful
<1>3. \A i : /\ BadHeader(i)' <=> BadHeader(i)
             /\ BadRecord(i)' <=> BadRecord(i)
             /\ BadDone(i)' <=> BadDone(i)
             /\ OutOfHartOrder(i)' <=> OutOfHartOrder(i)
  BY <1>1, <1>2 DEF BadHeader, BadRecord, BadDone, OutOfHartOrder
<1>4. \A i : Faulty(i)' <=> Faulty(i)
  BY <1>1, <1>3 DEF Faulty
<1>5. \A h : OncePerInstruction(h)' <=> OncePerInstruction(h)
  BY <1>1, <1>2 DEF OncePerInstruction
<1>6. \A h : /\ NoneMissing(h)' <=> NoneMissing(h)
             /\ NumbersOf(h)' = NumbersOf(h)
             /\ \A kind : All(kind, h)' = All(kind, h)
  BY <1>1 DEF NoneMissing, NumbersOf, All
<1>7. Reading' <=> Reading
  BY <1>1, <1>4, <1>6 DEF Reading, Counted, BytesSet, Finished, LastHartKnown, PlaceKnown, Clean
<1>8. (TraceTypes' <=> TraceTypes) /\ (Clean' <=> Clean)
  BY <1>4 DEF TraceTypes, Clean
<1> QED
  BY <1>4, <1>5, <1>7, <1>8 DEF TraceInv

LEMMA TraceInductive == ASSUME TraceInv, [TraceStep]_traceVars PROVE TraceInv'
<1>1. CASE UNCHANGED traceVars
  BY <1>1, StutterKeepsTrace
<1>2. \A h \in TraceHarts : frameNo[h] \in Nat /\ received[h] \in Nat
  BY DEF TraceInv, TraceTypes
<1>3. ASSUME NEW h \in TraceHarts, NEW m \in 0 .. frameNo[h] + MaxOff, ReadsHeader(h, m)
      PROVE  TraceInv'
  BY <1>2, <1>3, HeaderStep, TraceAssumption
<1>4. ASSUME NEW h \in TraceHarts, NEW m \in 0 .. MaxOff, NEW f \in 0 .. MaxOff,
             NEW l \in 0 .. MaxOff,
             ReadsDone(h, received[h] + m, frameNo[h] + f, received[h] + m - 1 + l)
      PROVE  TraceInv'
  <2>1. /\ received[h] + m \in Int /\ frameNo[h] + f \in Int
        /\ received[h] + m - 1 + l \in Int
    BY <1>2, TraceAssumption
  <2>2. PICK records, frames, last \in Int :
            /\ records = received[h] + m /\ frames = frameNo[h] + f
            /\ last = received[h] + m - 1 + l
    BY <2>1
  <2> QED
    BY <1>4, <2>2, DoneStep
<1> QED
  BY <1>1, <1>3, <1>4, ForeignStep, PaddingStep, RecordStep, EndStep
     DEF TraceStep, ReadsAFrame

(* The verdict of the report is the log's own: FAIL exactly when some entry  *)
(* is at fault, PASS only when every retired instruction has one true record *)
(* (webui/eh2web/comparator.py, compare_fpga).                               *)
THEOREM VerdictHolds == TraceSpec => []VerdictIsTrue
<1>1. TraceInit => TraceInv
  BY StartsEmpty
<1>2. TraceInv /\ [TraceStep]_traceVars => TraceInv'
  BY TraceInductive
<1>3. TraceInv => VerdictIsTrue
  <2> SUFFICES ASSUME TraceInv PROVE VerdictIsTrue
    OBVIOUS
  <2>1. DOMAIN trace = 1 .. Len(trace) /\ Len(trace) \in Nat
    BY DEF TraceInv, TraceTypes
  <2>2. verdict \in {"none", "PASS", "FAIL"}
    BY DEF TraceInv, TraceTypes
  <2>3. verdict # "FAIL" => Clean
    BY <2>2 DEF TraceInv, Reading
  <2>4. verdict = "FAIL" => \E i \in DOMAIN trace : Faulty(i)
    BY <2>1 DEF TraceInv
  <2> QED
    BY <2>1, <2>3, <2>4 DEF TraceInv, Clean, VerdictIsTrue
<1> QED
  BY <1>1, <1>2, <1>3, PTL DEF TraceSpec

-----------------------------------------------------------------------------
(* The automated session: what the state may hold.                           *)

FrameKinds == AnyKind \cup {"NONE"}
Frames == [kind : FrameKinds, hart : Harts \cup {0}, of : Nat]
BoardStates == {"RESET", "WAIT_CHECK", "CHECK", "READY", "WRITE", "EXEC", "DUMP", "END", "ERROR"}
VmStates == {"none", "generating", "program", "spike"}
Jobs == [at : VmStates, failed : BOOLEAN]
RxStates == {"idle", "snapshot", "gate", "act", "preconfig", "start", "send", "check", "done",
             "compare", "loss", "discard", "manual", "stop", "reset"}
Rounds == [ready : BOOLEAN, sent : BOOLEAN, dones : SUBSET (Harts \cup {0}), over : BOOLEAN,
           comparing : BOOLEAN, status : Jobs, closed : BOOLEAN, log : SUBSET Frames]

LogFrames == [kind : LogKind, hart : Harts \cup {0}, of : Nat]
Boards == [at : BoardStates, of : Nat, out : Seq(LogFrames)]
Services == [board : {"LISTENING", "PRECONFIG", "READY", "PROGRAM_WRITE", "END", "ERROR",
                      "RESETTING", "RESET_TIMEOUT"},
             allowed : BOOLEAN, loss : BOOLEAN, seen : SUBSET (Harts \cup {0})]
Transfers == [by : {"none", "CHECK", "PROGRAM"}, of : Nat, cancel : BOOLEAN]
Watchdogs == [asleep : Nat \cup {-1}, calling : Nat \cup {-1}]
Controllers == [enabled : BOOLEAN, round : Nat, preinit : BOOLEAN, inflight : BOOLEAN,
                grant : BOOLEAN, skipping : BOOLEAN]
Receptions == [pc : RxStates, frame : Frames]
Polls == [pc : {"idle", "store", "skip", "discard", "send", "compare"}, of : Nat, status : Jobs]
Comparisons == [pc : {"idle", "compare", "fail", "release", "reset"}, of : Nat]
Discards == [pc : {"idle", "save", "release", "reset"}, of : Nat]
Senders == [pc : {"idle", "begin", "fail"}, of : Nat]
WorkerSets == [pre : {"idle", "send", "sent", "fail", "end"}, starters : Nat, launch : Nat,
               sender : Senders]

HostTypes ==
    /\ board \in Boards /\ wire \in Seq(Frames) /\ vm \in Jobs
    /\ svc \in Services /\ tx \in Transfers /\ resets \in Seq(Nat) /\ watchdog \in Watchdogs
    /\ auto \in Controllers /\ round \in Rounds
    /\ rx \in Receptions /\ poll \in Polls /\ compare \in Comparisons
    /\ skip \in [Threads -> Discards] /\ workers \in WorkerSets
    /\ started \in Nat /\ concluded \in Nat /\ ending \in {"none", "failed", "missing", "discard", "operator"}
    /\ spent \in [Budgets -> Nat]

(* Where the RX thread may be with a frame of which kind. *)
RxKinds ==
    /\ rx.pc = "idle" => rx.frame.kind = "NONE"
    /\ rx.pc = "snapshot" => rx.frame.kind \in StatusKind
    /\ rx.pc = "act" => rx.frame.kind \in StatusKind \ {"DONE"}
    /\ rx.pc \in {"gate", "preconfig"} => rx.frame.kind = "PREINIT"
    /\ rx.pc \in {"start", "send"} => rx.frame.kind = "GRANT"
    /\ rx.pc = "check" => rx.frame.kind \in LogKind
    /\ rx.pc = "done" => rx.frame.kind = "HART_DONE"
    /\ rx.pc = "compare" => rx.frame.kind \in {"EXE_END", "HART_DONE"}
    /\ rx.pc \in {"loss", "discard"} => rx.frame.kind \in LogKind \cup {"EXE_END"}
    /\ rx.pc \in {"manual", "stop", "reset"} => rx.frame.kind \in LogKind

(* Rounds are numbered; no thread works for one that is still to come. *)
Numbered ==
    /\ auto.round <= started /\ workers.launch <= started
    /\ poll.of <= started /\ compare.of <= started
    /\ \A t \in Threads : skip[t].of <= started
    /\ poll.pc # "idle" => poll.of # 0
    /\ compare.pc # "idle" => compare.of # 0
    /\ workers.sender.pc # "idle" => workers.sender.of # 0
    /\ \A t \in Threads : skip[t].pc # "idle" => skip[t].of # 0
    /\ skip["rx"].pc # "idle" => rx.pc = "discard"
    /\ skip["poll"].pc # "idle" => poll.pc = "discard"
    /\ skip["compare"].pc = "idle"

(* The VM works for the current round. *)
JobFits ==
    /\ auto.round = 0 => vm = NoJob
    /\ workers.launch # 0 /\ workers.launch = auto.round => vm = NoJob
    /\ vm.at = "spike" => ~vm.failed
    /\ vm.at = "none" => vm = NoJob

Waiting(kinds) == \E i \in DOMAIN wire : wire[i].kind \in kinds
OnlyErrors == \A i \in DOMAIN wire : wire[i].kind = "ERROR"
Faulted == spent["fault"] > 0

Caused ==
    /\ board.at = "ERROR" \/ Waiting({"ERROR"}) \/ rx.frame.kind = "ERROR" => Faulted
    /\ compare.pc = "fail" \/ ending = "failed" => Faulted
    /\ auto.enabled /\ (workers.pre = "fail" \/ workers.sender.pc = "fail") => Faulted

(* The last frame of an epoch, but for that of an error *)
LastBut(kind, more) == \A i, j \in DOMAIN wire :
    i < j /\ wire[i].kind = kind => wire[j].kind \in more \cup {"ERROR"}

PreinitLast == LastBut("PREINIT", {})
WireOrder ==
    /\ LastBut("GRANT", {"PREINIT"})
    /\ LastBut("EXE_END", {"PREINIT"})

Resetting == resets # <<>> \/ watchdog.calling >= 0 \/ watchdog.asleep >= 0 \/ board.at = "RESET"
Released == compare.pc = "reset" \/ \E t \in Threads : skip[t].pc = "reset"

NotBegun ==
    /\ workers.starters = 0 /\ workers.pre # "send" /\ tx.by # "CHECK" /\ ~auto.grant
    /\ board.at \notin {"CHECK", "READY", "WRITE"}
    /\ ~Waiting({"PASS", "GRANT"}) /\ rx.frame.kind \notin {"PASS", "GRANT"}

ResetPath ==
    /\ Resetting \/ Released => /\ auto.round = 0 /\ rx.frame.kind # "PREINIT"
                                /\ auto.skipping \/ NotBegun
    /\ Released => ~Resetting
    /\ compare.pc = "reset" => \A t \in Threads : skip[t].pc # "reset"
    /\ \A s, t \in Threads : skip[s].pc = "reset" /\ skip[t].pc = "reset" => s = t
    /\ resets # <<>> \/ watchdog.calling >= 0 \/ board.at = "RESET" \/ Released
          => ~Waiting({"PREINIT"})
    /\ board.at = "RESET" => board.out = <<>>

Discarding ==
    /\ auto.skipping => auto.round = 0
    /\ auto.round = 0 => round = FreshRound(FALSE)
    /\ auto.round # 0 => ~auto.grant
    /\ rx.pc \in {"manual", "stop"} => auto.skipping
    /\ rx.pc # "reset"

Announced ==
    /\ Waiting({"PREINIT"}) \/ rx.frame.kind = "PREINIT" =>
          /\ auto.round = 0 /\ Settled
          /\ board.at \in {"WAIT_CHECK", "ERROR"} /\ board.out = <<>>
          /\ ~Released /\ (auto.skipping \/ NotBegun)
    /\ rx.frame.kind = "PREINIT" =>
          /\ OnlyErrors /\ watchdog.asleep = -1 /\ svc.board = "PRECONFIG"
          /\ rx.pc \in {"act", "preconfig"} => ~auto.skipping

Checking ==
    workers.pre = "send" \/ tx.by = "CHECK" =>
       /\ ~auto.skipping /\ auto.round = 0 /\ ~auto.grant
       /\ board.at \in {"WAIT_CHECK", "ERROR"} /\ board.out = <<>> /\ OnlyErrors
       /\ rx.frame.kind \in {"NONE", "ERROR"}
       /\ workers.starters = 0 /\ workers.sender.pc = "idle"
       /\ workers.pre = "send" => tx.by = "none" /\ (svc.board = "PRECONFIG" \/ Faulted)

(* Before the grant *)
NotYet ==
    board.at \in {"RESET", "WAIT_CHECK", "CHECK", "READY"} =>
       /\ ~auto.grant /\ ~round.ready /\ rx.frame.kind # "GRANT" /\ ~Waiting({"GRANT"})

Granted == (rx.frame.kind = "GRANT" /\ rx.pc \in {"snapshot", "act"})
           \/ auto.grant \/ (round.ready /\ ~round.sent) \/ workers.sender.pc # "idle"

AtGrant ==
    /\ Granted \/ tx.by = "PROGRAM" =>
          /\ board.at \in {"WRITE", "ERROR"} /\ board.out = <<>> /\ OnlyErrors
          /\ rx.frame.kind \in {"NONE", "GRANT", "ERROR"} /\ svc.seen = {}
    /\ Granted => tx.by = "none" /\ (svc.allowed \/ Faulted)
    /\ workers.sender.pc # "idle" => workers.sender.of = auto.round
    /\ tx.by = "PROGRAM" => tx.of = auto.round
    /\ workers.sender.pc # "idle" \/ tx.by = "PROGRAM" => auto.round # 0 /\ round.sent
    /\ round.sent => round.ready
    /\ Waiting({"GRANT"}) \/ (rx.frame.kind = "GRANT" /\ rx.pc \in {"snapshot", "act"})
          => ~auto.grant /\ ~round.ready
    /\ Waiting({"GRANT"}) => board.at \in {"WRITE", "ERROR"}

LogKinds == LogKind \cup {"DONE", "EXE_END"}
LogAbout ==
    \/ board.at \in {"EXEC", "DUMP"} \/ board.out # <<>> \/ Waiting(LogKinds)
    \/ rx.frame.kind \in LogKinds /\ ~(rx.frame.kind = "EXE_END" /\ rx.pc = "compare")

OwnLog ==
    /\ LogAbout => auto.round # 0 /\ round.sent /\ workers.sender.pc = "idle" /\ tx.by = "none"
    /\ board.at \in {"EXEC", "DUMP"} => board.of = auto.round
    /\ board.out # <<>> => board.at = "DUMP"
    /\ \A i \in DOMAIN board.out : board.out[i] \in LogOf(auto.round)
    /\ \A i \in DOMAIN wire : wire[i].kind \in LogKind => wire[i] \in LogOf(auto.round)
    /\ rx.frame.kind \in LogKind => rx.frame \in LogOf(auto.round)
    /\ Waiting({"EXE_END"}) \/ (rx.frame.kind = "EXE_END" /\ rx.pc # "compare")
          => board.at \in {"END", "ERROR"}
    /\ rx.frame.kind = "EXE_END" /\ rx.pc # "compare" => OnlyErrors

Captured ==
    /\ round.log \subseteq LogOf(auto.round)
    /\ ~round.sent => round.log = {} /\ round.dones = {} /\ ~round.over /\ ~round.comparing
    /\ ~round.comparing /\ ~round.closed =>
          /\ round.sent => \A h \in svc.seen : Frame("DATA", h, auto.round) \in round.log
          /\ rx.pc \in {"check", "done"} => rx.frame \in round.log
          /\ rx.pc = "done" => rx.frame.hart \in svc.seen
          /\ \A h \in round.dones : \A k \in LogKind : Frame(k, h, auto.round) \in round.log

Far == {"program", "spike"}
Reached(job, at) == at \in Far => job.at \in Far
Reported ==
    /\ round.sent => round.status.at \in Far
    /\ Reached(vm, round.status.at)
    /\ round.status.at = "spike" => vm.at = "spike"
    /\ round.status.at = "spike" => ~round.status.failed
    /\ vm.at \in Far => workers.starters = 0
    /\ poll.pc = "store" /\ poll.of = auto.round =>
          /\ Reached(vm, poll.status.at) /\ Reached(poll.status, round.status.at)
          /\ poll.status.at = "spike" => vm.at = "spike" /\ ~poll.status.failed
          /\ round.status.at = "spike" => poll.status.at = "spike"
    /\ poll.pc = "skip" /\ poll.of = auto.round => round.status.failed

Ending ==
    /\ round.over =>
          /\ round.sent /\ OnlyErrors /\ board.at \in {"END", "ERROR"}
          /\ rx.frame.kind \in {"NONE", "ERROR", "EXE_END"}
          /\ rx.frame.kind = "EXE_END" => rx.pc \in {"compare", "loss", "discard"}
          /\ rx.pc = "loss" => round.dones # Harts
          /\ workers.sender.pc = "idle" /\ tx.by = "none"
    /\ skip["rx"].pc \in {"save", "release"} /\ skip["rx"].of = auto.round => round.comparing
    /\ skip["poll"].pc \in {"save", "release"} /\ skip["poll"].of = auto.round
          => round.status.failed /\ round.closed
    /\ round.closed /\ ~round.comparing =>
          /\ round.status.failed
          /\ skip["poll"].pc \in {"save", "release"} /\ skip["poll"].of = auto.round
    /\ rx.pc = "discard" => skip["rx"].pc \in {"save", "release"} /\ skip["rx"].of = auto.round
    /\ compare.pc \in {"compare", "release"} =>
          /\ auto.round = compare.of /\ round.comparing /\ round.closed
          /\ round.over /\ round.dones = Harts /\ round.status.at = "spike"
          /\ skip["rx"].pc \notin {"save", "release"} \/ skip["rx"].of # auto.round

CompareHolds ==
    compare.pc \in {"compare", "release"} =>
       /\ auto.round = compare.of /\ round.log = LogOf(compare.of)
       /\ round.comparing /\ round.closed
       /\ \A t \in Threads : skip[t].pc \in {"save", "release"} => skip[t].of # compare.of

Enabled == auto.enabled => PreinitLast /\ ResetPath /\ Discarding /\ Announced /\ Checking
Epoch == auto.enabled /\ ~auto.skipping =>
            WireOrder /\ NotYet /\ AtGrant /\ OwnLog /\ Captured /\ Reported /\ Ending

HostInv ==
    /\ HostTypes /\ RxKinds /\ Numbered /\ JobFits /\ Caused /\ CompareHolds
    /\ Enabled /\ Epoch

-----------------------------------------------------------------------------
(* The wire loses its first frame to the RX thread.                          *)
LEMMA WireTaken ==
    ASSUME wire \in Seq(Frames), wire # <<>>, wire' = Tail(wire)
    PROVE  /\ wire' \in Seq(Frames) /\ Head(wire) \in Frames
           /\ 1 \in DOMAIN wire /\ wire[1] = Head(wire)
           /\ \A i \in DOMAIN wire' : i + 1 \in DOMAIN wire /\ wire'[i] = wire[i + 1]
           /\ \A i \in DOMAIN wire' : i \in Nat /\ 1 <= i
  OBVIOUS

(* The board adds a frame at its end.                                        *)
LEMMA WireSent ==
    ASSUME wire \in Seq(Frames), NEW f \in Frames, wire' = Append(wire, f)
    PROVE  /\ wire' \in Seq(Frames)
           /\ \A i \in DOMAIN wire : i \in DOMAIN wire' /\ wire'[i] = wire[i]
           /\ \A i \in DOMAIN wire' : i \in DOMAIN wire \/ wire'[i] = f
           /\ \A i, j \in DOMAIN wire' : i < j => i \in DOMAIN wire
  OBVIOUS

(* A resting RX thread holds no frame.                                       *)
LEMMA RestingTyped == Resting \in Receptions /\ Resting.pc = "idle" /\ Resting.frame.kind = "NONE"
  BY DEF Resting, Receptions, RxStates, Status, Frame, Frames, FrameKinds

(* Status frames and the frames of a log are frames.                         *)
LEMMA FramesTyped ==
    /\ \A k \in FrameKinds : Status(k) \in Frames /\ Status(k).kind = k
    /\ \A r \in Nat : LogOf(r) \subseteq LogFrames
    /\ LogFrames \subseteq Frames
  BY DEF Status, Frame, Frames, LogFrames, FrameKinds, AnyKind, LogKind, LogOf

(* A fresh round has seen nothing yet but perhaps its grant.                 *)
LEMMA FreshTyped ==
    ASSUME NEW grant \in BOOLEAN
    PROVE  /\ FreshRound(grant) \in Rounds
           /\ FreshRound(grant).ready = grant /\ ~FreshRound(grant).sent
           /\ FreshRound(grant).dones = {} /\ ~FreshRound(grant).over
           /\ ~FreshRound(grant).comparing /\ FreshRound(grant).status = NoJob
           /\ ~FreshRound(grant).closed /\ FreshRound(grant).log = {}
  BY DEF FreshRound, Rounds, NoJob, Jobs, VmStates

(* A comparison begins only when every frame of the round is in its log, and *)
(* nobody is about to discard the round.                                     *)
LEMMA CompareStarts ==
    ASSUME HostInv, MayCompare
    PROVE  /\ round.log = LogOf(auto.round) /\ auto.round # 0
           /\ \A t \in Threads : skip[t].pc \in {"save", "release"} => skip[t].of # auto.round
<1>1. ~auto.skipping /\ auto.enabled /\ auto.round # 0
  BY DEF HostInv, Enabled, Discarding, MayCompare
<1>2. ~round.closed
  BY <1>1 DEF HostInv, Epoch, Ending, Reported, MayCompare
<1>3. round.log \subseteq LogOf(auto.round)
  BY <1>1 DEF HostInv, Epoch, Captured
<1>4. \A h \in Harts, k \in LogKind : Frame(k, h, auto.round) \in round.log
  BY <1>1, <1>2 DEF HostInv, Epoch, Captured, MayCompare
<1>5. LogOf(auto.round) \subseteq round.log
  BY <1>4 DEF LogOf, LogKind
<1>6. \A t \in Threads : skip[t].pc \in {"save", "release"} => skip[t].of # auto.round
  BY <1>1 DEF HostInv, Numbered, Epoch, Ending, Reported, MayCompare, Threads
<1> QED BY <1>1, <1>3, <1>5, <1>6

(* The poll thread at rest.                                                  *)
LEMMA PollRestsTyped == [pc |-> "idle", of |-> 0, status |-> NoJob] \in Polls
  BY DEF Polls, NoJob, Jobs, VmStates

(* A reset worker joins those that wait.                                     *)
LEMMA ResetQueued ==
    ASSUME resets \in Seq(Nat), NEW attempt \in Nat, resets' = Append(resets, attempt)
    PROVE  resets' \in Seq(Nat) /\ resets' # <<>>
  OBVIOUS

(* A step of a discarding thread leaves the other threads alone.             *)
LEMMA SkipMoves ==
    ASSUME skip \in [Threads -> Discards], NEW t \in Threads,
           NEW pc \in {"release", "reset", "idle"}, SkipGoes(t, pc)
    PROVE  /\ skip' \in [Threads -> Discards]
           /\ \A u \in Threads : u # t => skip'[u] = skip[u]
           /\ skip'[t].pc = pc
           /\ skip'[t].of = IF pc = "idle" THEN 0 ELSE skip[t].of
<1>1. CASE pc = "idle"
  BY <1>1 DEF SkipGoes, Discards, RestingWorker
<1>2. CASE pc # "idle"
  BY <1>2 DEF SkipGoes, Discards
<1> QED BY <1>1, <1>2

(* After a release there is no round, no grant and no job.                   *)
LEMMA ReleaseFrees ==
    ASSUME HostTypes, NEW skipped \in BOOLEAN, Release(skipped)
    PROVE  /\ auto' \in Controllers /\ round' \in Rounds /\ vm' \in Jobs /\ concluded' \in Nat
           /\ auto'.enabled = auto.enabled /\ auto'.round = 0 /\ ~auto'.grant
           /\ auto'.skipping = skipped
           /\ round' = FreshRound(FALSE) /\ vm' = NoJob
<1>1. auto \in Controllers /\ concluded \in Nat
  BY DEF HostTypes
<1>2. auto' = [auto EXCEPT !.round = 0, !.preinit = FALSE, !.grant = FALSE, !.skipping = skipped]
  BY DEF Release
<1>3. auto' \in Controllers
  BY <1>1, <1>2 DEF Controllers
<1>4. auto'.enabled = auto.enabled /\ auto'.round = 0 /\ ~auto'.grant /\ auto'.skipping = skipped
  BY <1>1, <1>2 DEF Controllers
<1>5. round' = FreshRound(FALSE) /\ vm' = NoJob /\ concluded' \in Nat
  BY <1>1 DEF Release
<1>6. round' \in Rounds /\ vm' \in Jobs
  BY <1>5, FreshTyped DEF NoJob, Jobs, VmStates
<1> QED BY <1>3, <1>4, <1>5, <1>6

(* A transfer begins or not.                                                 *)
LEMMA TransferTyped ==
    ASSUME tx \in Transfers, NEW by \in {"CHECK", "PROGRAM"}, NEW of \in Nat,
           tx' = [by |-> by, of |-> of, cancel |-> FALSE] \/ tx' = tx
    PROVE  tx' \in Transfers
<1>1. CASE tx' = [by |-> by, of |-> of, cancel |-> FALSE]
  BY ONLY <1>1, by \in {"CHECK", "PROGRAM"}, of \in Nat DEF Transfers
<1>2. CASE tx' = tx
  BY <1>2
<1> QED BY <1>1, <1>2

(* A start worker that installs a round uses itself up.                      *)
LEMMA InstallTyped ==
    ASSUME HostTypes, workers.starters > 0,
           workers' = [workers EXCEPT !.starters = workers.starters - 1,
                                          !.launch = started + 1],
           auto' = [auto EXCEPT !.round = started + 1, !.grant = FALSE]
    PROVE  workers' \in WorkerSets /\ auto' \in Controllers
<1> DEFINE left == workers.starters - 1
           n == started + 1
<1>1. left \in Nat /\ workers' = [workers EXCEPT !.starters = left, !.launch = n]
      /\ workers \in WorkerSets /\ auto \in Controllers
      /\ n \in Nat /\ auto' = [auto EXCEPT !.round = n, !.grant = FALSE]
  BY DEF HostTypes, WorkerSets
<1> HIDE DEF left, n
<1>2. workers' \in WorkerSets
  BY <1>1 DEF WorkerSets
<1>3. auto' \in Controllers
  BY <1>1 DEF Controllers
<1> QED BY <1>2, <1>3

(* A reset worker gets the lock.                                             *)
LEMMA ResetTaken ==
    ASSUME resets \in Seq(Nat), resets # <<>>, resets' = Tail(resets)
    PROVE  resets' \in Seq(Nat) /\ Head(resets) \in Nat
  OBVIOUS

(* The harts are listed, each at its place.                                  *)
LEMMA HartsListed ==
    SetToSeq(Harts) \in [1..Cardinality(Harts) -> Harts] /\ Cardinality(Harts) \in Nat
<1>1. Cardinality(Harts) \in Nat /\ ExistsBijection(1..Cardinality(Harts), Harts)
  BY FS_CardinalityType, HostAssumption
<1>2. \E f \in [1..Cardinality(Harts) -> Harts] : IsInjective(f)
  BY <1>1 DEF ExistsBijection, Bijection, Injection, IsInjective
<1> QED BY <1>1, <1>2 DEF SetToSeq

(* What the board dumps is the log of the round it ran.                      *)
LEMMA DumpOwn ==
    ASSUME NEW r \in Nat
    PROVE  Dump(r) \in Seq(LogFrames) /\ \A i \in DOMAIN Dump(r) : Dump(r)[i] \in LogOf(r)
<1> DEFINE n == 2 * Cardinality(Harts)
<1>1. Cardinality(Harts) \in Nat /\ n \in Nat
  BY HartsListed
<1>2. ASSUME NEW i \in 1..n
      PROVE  SetToSeq(Harts)[(i + 1) \div 2] \in Harts
  <2>1. (i + 1) \div 2 \in 1..Cardinality(Harts)
    BY <1>1
  <2> QED BY <2>1, HartsListed
<1>3. DOMAIN Dump(r) = 1..n
  BY DEF Dump
<1>4. \A i \in 1..n : Dump(r)[i] \in LogOf(r)
  BY <1>2 DEF Dump, LogOf
<1>5. Dump(r) \in [1..n -> LogFrames]
  BY <1>4, FramesTyped DEF Dump
<1> QED BY <1>1, <1>3, <1>4, <1>5

(* A frame leaves the dump.                                                  *)
LEMMA DumpTaken ==
    ASSUME board \in Boards, board.out # <<>>
    PROVE  /\ Head(board.out) \in LogFrames /\ Tail(board.out) \in Seq(LogFrames)
           /\ 1 \in DOMAIN board.out /\ Head(board.out) = board.out[1]
           /\ \A i \in DOMAIN Tail(board.out) :
                 i + 1 \in DOMAIN board.out /\ Tail(board.out)[i] = board.out[i + 1]
<1>1. board.out \in Seq(LogFrames)
  BY DEF Boards
<1> QED BY <1>1

(* Wherever the session is taken over, nothing is on its way but what the    *)
(* board's last status says.                                                 *)
LEMMA HostStarts == ASSUME Init PROVE HostInv
<1>0. /\ DOMAIN wire = {} /\ DOMAIN <<>> = {}
      /\ ~round.ready /\ ~round.sent /\ round.dones = {} /\ ~round.over /\ ~round.comparing
      /\ round.status.at = "none" /\ ~round.status.failed /\ ~round.closed /\ round.log = {}
  BY DEF Init, FreshRound, NoJob
<1>1. /\ wire = <<>> /\ vm = NoJob /\ tx.by = "none" /\ resets = <<>>
      /\ watchdog.asleep = -1 /\ watchdog.calling = -1
      /\ round = FreshRound(FALSE) /\ rx.pc = "idle" /\ rx.frame.kind = "NONE"
      /\ compare.pc = "idle" /\ compare.of = 0 /\ poll.pc = "idle" /\ poll.of = 0
      /\ \A t \in Threads : skip[t].pc = "idle" /\ skip[t].of = 0
      /\ started = 0 /\ (\A b \in Budgets : spent[b] = 0) /\ ending = "none"
  BY RestingTyped DEF Init, RestingWorker
<1>2. PICK last \in {"NONE", "PREINIT", "PASS", "GRANT"} :
         /\ board = [at |-> CASE last = "NONE" -> "RESET" [] last = "PREINIT" -> "WAIT_CHECK"
                              [] last = "PASS" -> "READY" [] last = "GRANT" -> "WRITE",
                     of |-> 0, out |-> <<>>]
         /\ svc = [board |-> CASE last = "NONE" -> "LISTENING" [] last = "PREINIT" -> "PRECONFIG"
                               [] last = "PASS" -> "READY" [] last = "GRANT" -> "PROGRAM_WRITE",
                   allowed |-> last = "GRANT", loss |-> FALSE, seen |-> {}]
         /\ auto = [enabled |-> TRUE, round |-> 0, preinit |-> FALSE,
                    inflight |-> last = "PREINIT", grant |-> last = "GRANT", skipping |-> FALSE]
         /\ workers = [pre |-> IF last = "PREINIT" THEN "send" ELSE "idle",
                       starters |-> IF last \in {"PASS", "GRANT"} THEN 1 ELSE 0,
                       launch |-> 0, sender |-> RestingWorker]
  BY DEF Init
<1>3. /\ last = "NONE" => board.at = "RESET"
      /\ last = "PREINIT" => board.at = "WAIT_CHECK"
      /\ last = "PASS" => board.at = "READY"
      /\ last = "GRANT" => board.at = "WRITE"
      /\ board.out = <<>> /\ board.of = 0
      /\ last = "PREINIT" => svc.board = "PRECONFIG"
      /\ svc.allowed = (last = "GRANT") /\ svc.seen = {}
      /\ auto.round = 0 /\ auto.grant = (last = "GRANT") /\ ~auto.skipping
      /\ workers.pre = IF last = "PREINIT" THEN "send" ELSE "idle"
      /\ workers.starters = IF last \in {"PASS", "GRANT"} THEN 1 ELSE 0
      /\ workers.launch = 0 /\ workers.sender.pc = "idle"
  BY <1>2 DEF RestingWorker
<1>4. HostTypes
  <2>1. <<>> \in Seq(LogFrames) /\ <<>> \in Seq(Frames) /\ <<>> \in Seq(Nat)
    OBVIOUS
  <2>2. board \in Boards
    BY <1>2, <2>1 DEF Boards, BoardStates
  <2>3. wire \in Seq(Frames) /\ vm \in Jobs /\ resets \in Seq(Nat)
    BY <1>1, <2>1 DEF NoJob, Jobs, VmStates
  <2>4. svc \in Services
    BY <1>2 DEF Services
  <2>5. auto \in Controllers
    BY <1>2 DEF Controllers
  <2>6. workers \in WorkerSets
    BY <1>2 DEF WorkerSets, Senders, RestingWorker
  <2>7. tx \in Transfers /\ watchdog \in Watchdogs
    BY DEF Init, Transfers, Watchdogs
  <2>8. round \in Rounds /\ rx \in Receptions /\ poll \in Polls
    BY FreshTyped, RestingTyped, PollRestsTyped DEF Init
  <2>9. compare \in Comparisons /\ skip \in [Threads -> Discards]
    BY DEF Init, RestingWorker, Comparisons, Discards
  <2>10. /\ started \in Nat /\ concluded \in Nat /\ spent \in [Budgets -> Nat]
         /\ ending \in {"none", "failed", "missing", "discard", "operator"}
    BY DEF Init
  <2> QED BY <2>2, <2>3, <2>4, <2>5, <2>6, <2>7, <2>8, <2>9, <2>10 DEF HostTypes
<1>5. RxKinds /\ Numbered /\ CompareHolds
  BY <1>1, <1>3 DEF RxKinds, Numbered, CompareHolds, Threads
<1>6. JobFits /\ Caused
  BY <1>1, <1>3 DEF JobFits, Caused, Waiting, NoJob
<1>7. Enabled
  <2>1. PreinitLast /\ Discarding
    BY <1>1, <1>3 DEF PreinitLast, LastBut, Discarding
  <2>2. ResetPath
    <3>1. ~Released /\ \A t \in Threads : skip[t].pc # "reset"
      BY <1>1 DEF Released
    <3>2. Resetting => last = "NONE"
      BY <1>1, <1>3 DEF Resetting
    <3>3. last = "NONE" => NotBegun
      BY <1>0, <1>1, <1>3 DEF NotBegun, Waiting
    <3>4. ~Waiting({"PREINIT"})
      BY <1>0 DEF Waiting
    <3> QED BY <1>1, <1>3, <3>1, <3>2, <3>3, <3>4 DEF ResetPath
  <2>3. Announced
    BY <1>0, <1>1, <1>3 DEF Announced, Waiting
  <2>4. Checking
    BY <1>0, <1>1, <1>3 DEF Checking, OnlyErrors
  <2> QED BY <2>1, <2>2, <2>3, <2>4 DEF Enabled
<1>8. Epoch
  <2>1. WireOrder /\ NotYet
    BY <1>1, <1>3, <1>0 DEF WireOrder, LastBut, NotYet, Waiting
  <2>2. AtGrant
    BY <1>1, <1>3, <1>0 DEF AtGrant, Granted, OnlyErrors, Waiting
  <2>3. OwnLog /\ Captured
    BY <1>1, <1>3, <1>0 DEF OwnLog, LogAbout, LogKinds, LogKind, Waiting, OnlyErrors, Captured
  <2>4. Reported
    BY <1>1, <1>3, <1>0 DEF Reported, Reached, Far, NoJob
  <2>5. Ending
    BY <1>1, <1>3, <1>0 DEF Ending, Threads
  <2> QED BY <2>1, <2>2, <2>3, <2>4, <2>5 DEF Epoch
<1> QED BY <1>4, <1>5, <1>6, <1>7, <1>8 DEF HostInv

-----------------------------------------------------------------------------
(* The service takes a status frame: a grant it takes is the last frame of   *)
(* its epoch but for errors.                                                 *)
LEMMA RxServiceKeeps == ASSUME HostInv, RxService PROVE HostInv'
<1>1. /\ wire \in Seq(Frames)
      /\ svc \in Services
      /\ tx \in Transfers
      /\ watchdog \in Watchdogs
      /\ rx \in Receptions
  BY DEF HostInv, HostTypes
<1>2. UNCHANGED <<board, vm, resets, auto, round, poll, compare, skip, workers, started,
                  concluded, ending, spent>>
  BY DEF RxService, Takes, envVars, sendVars, threadVars, history
<1>3. /\ \A i \in DOMAIN wire' : i + 1 \in DOMAIN wire /\ wire'[i] = wire[i + 1]
      /\ \A i \in DOMAIN wire' : i \in Nat /\ 1 <= i
      /\ 1 \in DOMAIN wire /\ wire[1] = Head(wire) /\ Head(wire) \in Frames
  BY <1>1, WireTaken DEF RxService, Takes
<1>4. /\ svc'.board = StateOf(Head(wire).kind)
      /\ svc'.allowed = (Head(wire).kind = "GRANT")
      /\ svc'.seen = IF Head(wire).kind = "GRANT" THEN {} ELSE svc.seen
  BY <1>1 DEF RxService, Takes, Services
<1>5. /\ tx'.by = tx.by
      /\ tx'.of = tx.of
  BY <1>1 DEF RxService, Takes, Transfers
<1>6. /\ watchdog'.asleep = IF Head(wire).kind = "PREINIT" THEN -1 ELSE watchdog.asleep
      /\ watchdog'.calling = watchdog.calling
  BY <1>1 DEF RxService, Takes, Watchdogs
<1>7. /\ rx'.pc = "snapshot"
      /\ rx'.frame = Head(wire)
  BY <1>1 DEF RxService, Takes, Receptions
<1>8. /\ rx.pc = "idle" /\ rx.frame.kind = "NONE"
      /\ Head(wire).kind \in StatusKind
  BY DEF RxService, Takes, HostInv, RxKinds
<1>9. wire' \in Seq(Frames)
  BY <1>1, WireTaken DEF RxService, Takes
<1>10. svc' \in Services
  BY <1>1 DEF RxService, Takes, Services, StateOf
<1>11. tx' \in Transfers
  BY <1>1 DEF RxService, Takes, Transfers
<1>12. watchdog' \in Watchdogs
  BY <1>1 DEF RxService, Takes, Watchdogs
<1>13. rx' \in Receptions
  BY <1>1, WireTaken DEF RxService, Takes, Receptions, RxStates
<1>14. HostTypes'
  BY <1>9, <1>10, <1>11, <1>12, <1>13, <1>2 DEF HostInv, HostTypes
<1>15. JobFits' /\ CompareHolds'
  BY <1>2 DEF HostInv, JobFits, NoJob, CompareHolds
<1>16. RxKinds'
  BY <1>3, <1>4, <1>5, <1>6, <1>7, <1>8, <1>2 DEF HostInv, RxKinds, StatusKind, LogKind
<1>17. Numbered'
  BY <1>3, <1>4, <1>5, <1>6, <1>7, <1>8, <1>2 DEF HostInv, Numbered
<1>18. Caused'
  BY <1>3, <1>4, <1>5, <1>6, <1>7, <1>8, <1>2 DEF HostInv, Caused, Waiting, Faulted
<1>19. Enabled'
  <2> SUFFICES ASSUME auto'.enabled
               PROVE  PreinitLast' /\ ResetPath' /\ Discarding' /\ Announced' /\ Checking'
    BY DEF Enabled
  <2>1. auto.enabled
    BY <1>3, <1>4, <1>5, <1>6, <1>7, <1>8, <1>2
  <2>2. PreinitLast'
    BY <2>1, <1>3, <1>4, <1>5, <1>6, <1>7, <1>8, <1>2 DEF HostInv, Enabled, PreinitLast, LastBut
  <2>3. ResetPath'
    BY <2>1, <1>3, <1>4, <1>5, <1>6, <1>7, <1>8, <1>2 DEF HostInv, Enabled, ResetPath, Resetting,
       Released, NotBegun, Waiting, Announced, StatusKind
  <2>4. Discarding'
    BY <2>1, <1>3, <1>4, <1>5, <1>6, <1>7, <1>8, <1>2 DEF HostInv, Enabled, Discarding, FreshRound
  <2>5. Announced'
    BY <2>1, <1>3, <1>4, <1>5, <1>6, <1>7, <1>8, <1>2 DEF HostInv, Enabled, Announced, Waiting,
       OnlyErrors, Settled, Released, NotBegun, PreinitLast, LastBut, ResetPath, Resetting,
       StateOf
  <2>6. Checking'
    BY <2>1, <1>3, <1>4, <1>5, <1>6, <1>7, <1>8, <1>2 DEF HostInv, Enabled, Checking, OnlyErrors,
       Waiting, Faulted, Caused
  <2> QED
    BY <2>2, <2>3, <2>4, <2>5, <2>6
<1>20. Epoch'
  <2> SUFFICES ASSUME auto'.enabled, ~auto'.skipping
               PROVE  WireOrder' /\ NotYet' /\ AtGrant' /\ OwnLog' /\ Captured' /\ Reported' /\
                  Ending'
    BY DEF Epoch
  <2>1. auto.enabled /\ ~auto.skipping
    BY <1>3, <1>4, <1>5, <1>6, <1>7, <1>8, <1>2
  <2>2. Reported'
    BY <2>1, <1>2 DEF HostInv, Epoch, Reported, Reached, Far
  <2>3. WireOrder'
    BY <2>1, <1>3, <1>4, <1>5, <1>6, <1>7, <1>8, <1>2 DEF HostInv, Epoch, WireOrder, LastBut
  <2>4. NotYet'
    BY <2>1, <1>3, <1>4, <1>5, <1>6, <1>7, <1>8, <1>2 DEF HostInv, Epoch, NotYet, Waiting
  <2>5. AtGrant'
    <3>1. Waiting({"GRANT"})' => Waiting({"GRANT"})
      BY <2>1, <1>3, <1>4, <1>5, <1>6, <1>7, <1>8, <1>2 DEF Waiting
    <3>2. OnlyErrors => OnlyErrors'
      BY <2>1, <1>3, <1>4, <1>5, <1>6, <1>7, <1>8, <1>2 DEF OnlyErrors
    <3>3. OnlyErrors => Head(wire).kind = "ERROR"
      BY <2>1, <1>3, <1>4, <1>5, <1>6, <1>7, <1>8, <1>2 DEF OnlyErrors
    <3>4. Head(wire).kind = "GRANT" => Waiting({"GRANT"})
      BY <2>1, <1>3, <1>4, <1>5, <1>6, <1>7, <1>8, <1>2 DEF Waiting
    <3>5. Head(wire).kind = "ERROR" => Faulted'
      BY <2>1, <1>3, <1>4, <1>5, <1>6, <1>7, <1>8, <1>2 DEF HostInv, Caused, Waiting, Faulted
    <3>6. Head(wire).kind = "GRANT" => ~Waiting({"PREINIT"}) /\ OnlyErrors'
      BY <2>1, <1>3, <1>4, <1>5, <1>6, <1>7, <1>8, <1>2, <3>4 DEF HostInv, Enabled, Announced,
         Epoch, WireOrder, LastBut, Waiting, OnlyErrors, NotBegun
    <3>7. Head(wire).kind = "GRANT" => ~Granted /\ tx.by = "none"
      BY <1>1, <2>1, <3>3 DEF HostInv, Enabled, Checking, Epoch, AtGrant, Transfers
    <3>8. Head(wire).kind = "GRANT" => board.at \in {"WRITE", "ERROR"} /\ board.out = <<>> /\
          ~auto.grant /\ ~round.ready
      BY <2>1, <3>4 DEF HostInv, Epoch, AtGrant, OwnLog
    <3>9. CASE Head(wire).kind = "GRANT"
      BY <2>1, <1>3, <1>4, <1>5, <1>6, <1>7, <1>8, <1>2, <3>9, <3>6, <3>7, <3>8 DEF HostInv,
         Epoch, AtGrant, Granted
    <3>10. CASE Head(wire).kind = "ERROR"
      BY <2>1, <1>3, <1>4, <1>5, <1>6, <1>7, <1>8, <1>2, <3>10, <3>1, <3>2, <3>3, <3>5 DEF
         HostInv, Epoch, AtGrant, Granted
    <3>11. CASE Head(wire).kind \notin {"GRANT", "ERROR"}
      BY <2>1, <1>3, <1>4, <1>5, <1>6, <1>7, <1>8, <1>2, <3>11, <3>1, <3>2, <3>3 DEF HostInv,
         Epoch, AtGrant, Granted
    <3> QED
      BY <2>1, <1>3, <1>4, <1>5, <1>6, <1>7, <1>8, <1>2, <3>1, <3>2, <3>3, <3>4, <3>5, <3>6, <3>7,
         <3>8, <3>9, <3>10, <3>11 DEF HostInv, Epoch, AtGrant, Granted, OnlyErrors, Waiting,
         Faulted, Enabled
  <2>6. OwnLog'
    BY <2>1, <1>3, <1>4, <1>5, <1>6, <1>7, <1>8, <1>2 DEF HostInv, Epoch, OwnLog, LogAbout,
       Waiting, OnlyErrors, LogKinds, LogKind, WireOrder, LastBut, Enabled, Announced, StatusKind
  <2>7. Captured'
    BY <2>1, <1>3, <1>4, <1>5, <1>6, <1>7, <1>8, <1>2 DEF HostInv, Epoch, Captured, LogKind
  <2>8. Ending'
    BY <2>1, <1>3, <1>4, <1>5, <1>6, <1>7, <1>8, <1>2 DEF HostInv, Epoch, Ending, OnlyErrors,
       Waiting
  <2> QED
    BY <2>2, <2>3, <2>4, <2>5, <2>6, <2>7, <2>8
<1> QED
  BY <1>14, <1>15, <1>16, <1>17, <1>18, <1>19, <1>20 DEF HostInv

(* The controller looks at what it was given the frame for.                  *)
LEMMA RxSnapshotKeeps == ASSUME HostInv, RxSnapshot PROVE HostInv'
<1>1. rx \in Receptions
  BY DEF HostInv, HostTypes
<1>2. UNCHANGED <<board, wire, vm, svc, tx, resets, watchdog, auto, round, poll, compare, skip,
                  workers, started, concluded, ending, spent>>
  BY DEF RxSnapshot, RxAt, RxGoes, envVars, sendVars, threadVars, history
<1>3. /\ \/ rx'.pc = "idle" /\ rx'.frame.kind = "NONE"
         \/ rx'.pc = "act" /\ rx'.frame = rx.frame /\ ~auto.skipping /\ rx.frame.kind # "DONE"
         \/ rx'.pc = "gate" /\ rx'.frame = rx.frame /\ rx.frame.kind = "PREINIT"
  BY <1>1, RestingTyped DEF RxSnapshot, RxGoes, Receptions
<1>4. rx.pc = "snapshot"
  BY DEF RxSnapshot, RxAt, RxGoes
<1>5. rx' \in Receptions
  BY <1>1, RestingTyped DEF RxSnapshot, RxAt, RxGoes, Receptions, RxStates
<1>6. HostTypes'
  BY <1>5, <1>2 DEF HostInv, HostTypes
<1>7. JobFits' /\ CompareHolds'
  BY <1>2 DEF HostInv, JobFits, NoJob, CompareHolds
<1>8. RxKinds'
  BY <1>3, <1>4, <1>2 DEF HostInv, RxKinds, StatusKind, LogKind
<1>9. Numbered'
  BY <1>3, <1>4, <1>2 DEF HostInv, Numbered
<1>10. Caused'
  BY <1>3, <1>4, <1>2 DEF HostInv, Caused, Waiting, Faulted
<1>11. Enabled'
  <2> SUFFICES ASSUME auto'.enabled
               PROVE  PreinitLast' /\ ResetPath' /\ Discarding' /\ Announced' /\ Checking'
    BY DEF Enabled
  <2>1. auto.enabled
    BY <1>3, <1>4, <1>2
  <2>2. PreinitLast'
    BY <2>1, <1>2 DEF HostInv, Enabled, PreinitLast, LastBut
  <2>3. ResetPath'
    BY <2>1, <1>3, <1>4, <1>2 DEF HostInv, Enabled, ResetPath, Resetting, Released, NotBegun,
       Waiting
  <2>4. Discarding'
    BY <2>1, <1>3, <1>4, <1>2 DEF HostInv, Enabled, Discarding, FreshRound
  <2>5. Announced'
    BY <2>1, <1>3, <1>4, <1>2 DEF HostInv, Enabled, Announced, Waiting, OnlyErrors, Settled,
       Released, NotBegun
  <2>6. Checking'
    BY <2>1, <1>3, <1>4, <1>2 DEF HostInv, Enabled, Checking, OnlyErrors, Waiting, Faulted
  <2> QED
    BY <2>2, <2>3, <2>4, <2>5, <2>6
<1>12. Epoch'
  <2> SUFFICES ASSUME auto'.enabled, ~auto'.skipping
               PROVE  WireOrder' /\ NotYet' /\ AtGrant' /\ OwnLog' /\ Captured' /\ Reported' /\
                  Ending'
    BY DEF Epoch
  <2>1. auto.enabled /\ ~auto.skipping
    BY <1>3, <1>4, <1>2
  <2>2. WireOrder' /\ Reported'
    BY <2>1, <1>2 DEF HostInv, Epoch, WireOrder, LastBut, Reported, Reached, Far
  <2>3. NotYet'
    BY <2>1, <1>3, <1>4, <1>2 DEF HostInv, Epoch, NotYet, Waiting
  <2>4. AtGrant'
    BY <2>1, <1>3, <1>4, <1>2 DEF HostInv, Epoch, AtGrant, Granted, OnlyErrors, Waiting, Faulted
  <2>5. OwnLog'
    BY <2>1, <1>3, <1>4, <1>2 DEF HostInv, Epoch, OwnLog, LogAbout, Waiting, OnlyErrors, LogKinds,
       LogKind
  <2>6. Captured'
    BY <2>1, <1>3, <1>4, <1>2 DEF HostInv, Epoch, Captured, LogKind
  <2>7. Ending'
    BY <2>1, <1>3, <1>4, <1>2 DEF HostInv, Epoch, Ending, OnlyErrors, Waiting
  <2> QED
    BY <2>2, <2>3, <2>4, <2>5, <2>6, <2>7
<1> QED
  BY <1>6, <1>7, <1>8, <1>9, <1>10, <1>11, <1>12 DEF HostInv

(* Only a new PREINIT opens a session that discards, and it finds no round   *)
(* and no grant.                                                             *)
LEMMA RxGateKeeps == ASSUME HostInv, RxGate PROVE HostInv'
<1>1. /\ auto \in Controllers
      /\ rx \in Receptions
  BY DEF HostInv, HostTypes
<1>2. UNCHANGED <<board, wire, vm, svc, tx, resets, watchdog, round, poll, compare, skip, workers,
                  started, concluded, ending, spent>>
  BY DEF RxGate, RxAt, RxGoes, Reopened, envVars, sendVars, threadVars, history
<1>3. /\ auto'.enabled = auto.enabled
      /\ auto'.round = auto.round
      /\ auto'.grant = (auto.grant /\ ~(auto.enabled /\ auto.skipping))
      /\ auto'.skipping = (auto.skipping /\ ~auto.enabled)
  BY <1>1 DEF RxGate, RxAt, RxGoes, Reopened, Controllers
<1>4. \/ rx'.pc = "idle" /\ rx'.frame.kind = "NONE" /\ auto' = auto
      \/ rx'.pc = "preconfig" /\ rx'.frame = rx.frame
  BY <1>1, RestingTyped DEF RxGate, RxGoes, Receptions
<1>5. rx.pc = "gate" /\ rx.frame.kind = "PREINIT"
  BY DEF RxGate, RxAt, RxGoes, Reopened, HostInv, RxKinds
<1>6. auto' \in Controllers
  BY <1>1 DEF RxGate, RxAt, RxGoes, Reopened, Controllers
<1>7. rx' \in Receptions
  BY <1>1, RestingTyped DEF RxGate, RxAt, RxGoes, Reopened, Receptions, RxStates
<1>8. HostTypes'
  BY <1>6, <1>7, <1>2 DEF HostInv, HostTypes
<1>9. RxKinds'
  BY <1>3, <1>4, <1>5, <1>2 DEF HostInv, RxKinds, StatusKind, LogKind
<1>10. Numbered'
  BY <1>3, <1>4, <1>5, <1>2 DEF HostInv, Numbered
<1>11. JobFits'
  BY <1>3, <1>4, <1>5, <1>2 DEF HostInv, JobFits, NoJob
<1>12. Caused'
  BY <1>3, <1>4, <1>5, <1>2 DEF HostInv, Caused, Waiting, Faulted
<1>13. CompareHolds'
  BY <1>3, <1>4, <1>5, <1>2 DEF HostInv, CompareHolds
<1>14. Enabled'
  <2> SUFFICES ASSUME auto'.enabled
               PROVE  PreinitLast' /\ ResetPath' /\ Discarding' /\ Announced' /\ Checking'
    BY DEF Enabled
  <2>1. auto.enabled
    BY <1>3, <1>4, <1>5, <1>2
  <2>2. PreinitLast'
    BY <2>1, <1>2 DEF HostInv, Enabled, PreinitLast, LastBut
  <2>3. ResetPath'
    BY <2>1, <1>3, <1>4, <1>5, <1>2 DEF HostInv, Enabled, ResetPath, Resetting, Released,
       NotBegun, Waiting
  <2>4. Discarding'
    BY <2>1, <1>3, <1>4, <1>5, <1>2 DEF HostInv, Enabled, Discarding, FreshRound
  <2>5. Announced'
    BY <2>1, <1>3, <1>4, <1>5, <1>2 DEF HostInv, Enabled, Announced, Waiting, OnlyErrors, Settled,
       Released, NotBegun
  <2>6. Checking'
    BY <2>1, <1>3, <1>4, <1>5, <1>2 DEF HostInv, Enabled, Checking, OnlyErrors, Waiting, Faulted
  <2> QED
    BY <2>2, <2>3, <2>4, <2>5, <2>6
<1>15. Epoch'
  <2> SUFFICES ASSUME auto'.enabled, ~auto'.skipping
               PROVE  WireOrder' /\ NotYet' /\ AtGrant' /\ OwnLog' /\ Captured' /\ Reported' /\
                  Ending'
    BY DEF Epoch
  <2>1. auto.enabled
    BY <1>3, <1>4, <1>5, <1>2
  <2>2. WireOrder'
    BY <2>1, <1>3, <1>4, <1>5, <1>2 DEF HostInv, Epoch, WireOrder, LastBut, Enabled, Announced,
       Discarding, Checking, FreshRound, NoJob, OnlyErrors, Waiting, Settled, Numbered, JobFits,
       CompareHolds
  <2>3. NotYet'
    BY <2>1, <1>3, <1>4, <1>5, <1>2 DEF HostInv, Epoch, NotYet, Waiting, Enabled, Announced,
       Discarding, Checking, FreshRound, NoJob, OnlyErrors, Settled, Numbered, JobFits,
       CompareHolds
  <2>4. AtGrant'
    BY <2>1, <1>3, <1>4, <1>5, <1>2 DEF HostInv, Epoch, AtGrant, Granted, OnlyErrors, Waiting,
       Faulted, Enabled, Announced, Discarding, Checking, FreshRound, NoJob, Settled, Numbered,
       JobFits, CompareHolds
  <2>5. OwnLog'
    BY <2>1, <1>3, <1>4, <1>5, <1>2 DEF HostInv, Epoch, OwnLog, LogAbout, Waiting, OnlyErrors,
       LogKinds, LogKind, Enabled, Announced, Discarding, Checking, FreshRound, NoJob, Settled,
       Numbered, JobFits, CompareHolds
  <2>6. Captured'
    BY <2>1, <1>3, <1>4, <1>5, <1>2 DEF HostInv, Epoch, Captured, LogKind, Enabled, Announced,
       Discarding, Checking, FreshRound, NoJob, OnlyErrors, Waiting, Settled, Numbered, JobFits,
       CompareHolds
  <2>7. Reported'
    BY <2>1, <1>3, <1>4, <1>5, <1>2 DEF HostInv, Epoch, Reported, Reached, Far, Enabled,
       Announced, Discarding, Checking, FreshRound, NoJob, OnlyErrors, Waiting, Settled, Numbered,
       JobFits, CompareHolds
  <2>8. Ending'
    <3>1. CASE auto' = auto
      BY <2>1, <1>3, <1>4, <1>5, <1>2, <3>1 DEF HostInv, Epoch, Ending, OnlyErrors, Waiting,
         Enabled, Announced, Discarding, Checking, FreshRound, NoJob, Settled, Numbered, JobFits,
         CompareHolds, Threads
    <3>2. CASE auto.skipping
      BY <2>1, <1>3, <1>4, <1>5, <1>2, <3>2 DEF HostInv, Epoch, Ending, OnlyErrors, Waiting,
         Enabled, Announced, Discarding, Checking, FreshRound, NoJob, Settled, Numbered, JobFits,
         CompareHolds, Threads
    <3> QED
      BY <2>1, <1>3, <1>4, <1>5, <1>2, <3>1, <3>2 DEF HostInv, Epoch, Ending, OnlyErrors, Waiting,
         Enabled, Announced, Discarding, Checking, FreshRound, NoJob, Settled, Numbered, JobFits,
         CompareHolds
  <2> QED
    BY <2>2, <2>3, <2>4, <2>5, <2>6, <2>7, <2>8
<1> QED
  BY <1>8, <1>9, <1>10, <1>11, <1>12, <1>13, <1>14, <1>15 DEF HostInv

(* A PREINIT of the running session.                                         *)
LEMMA RxPreinitKeeps == ASSUME HostInv, RxPreinit PROVE HostInv'
<1>1. /\ auto \in Controllers
      /\ rx \in Receptions
  BY DEF HostInv, HostTypes
<1>2. UNCHANGED <<board, wire, vm, svc, tx, resets, watchdog, round, poll, compare, skip, workers,
                  started, concluded, ending, spent>>
  BY DEF RxPreinit, RxAt, RxGoes, envVars, sendVars, threadVars, history
<1>3. /\ auto'.enabled = auto.enabled
      /\ auto'.round = auto.round
      /\ auto'.grant = auto.grant
      /\ auto'.skipping = auto.skipping
  BY <1>1 DEF RxPreinit, RxAt, RxGoes, Controllers
<1>4. \/ rx'.pc = "idle" /\ rx'.frame.kind = "NONE"
      \/ rx'.pc = "preconfig" /\ rx'.frame = rx.frame
  BY <1>1, RestingTyped DEF RxPreinit, RxGoes, Receptions
<1>5. rx.pc = "act" /\ rx.frame.kind = "PREINIT"
  BY DEF RxPreinit, RxAt, RxGoes
<1>6. auto' \in Controllers
  BY <1>1 DEF RxPreinit, RxAt, RxGoes, Controllers
<1>7. rx' \in Receptions
  BY <1>1, RestingTyped DEF RxPreinit, RxAt, RxGoes, Receptions, RxStates
<1>8. HostTypes'
  BY <1>6, <1>7, <1>2 DEF HostInv, HostTypes
<1>9. RxKinds'
  BY <1>3, <1>4, <1>5, <1>2 DEF HostInv, RxKinds, StatusKind, LogKind
<1>10. Numbered'
  BY <1>3, <1>4, <1>5, <1>2 DEF HostInv, Numbered
<1>11. JobFits'
  BY <1>3, <1>4, <1>5, <1>2 DEF HostInv, JobFits, NoJob
<1>12. Caused'
  BY <1>3, <1>4, <1>5, <1>2 DEF HostInv, Caused, Waiting, Faulted
<1>13. CompareHolds'
  BY <1>3, <1>4, <1>5, <1>2 DEF HostInv, CompareHolds
<1>14. Enabled'
  <2> SUFFICES ASSUME auto'.enabled
               PROVE  PreinitLast' /\ ResetPath' /\ Discarding' /\ Announced' /\ Checking'
    BY DEF Enabled
  <2>1. auto.enabled
    BY <1>3, <1>4, <1>5, <1>2
  <2>2. PreinitLast'
    BY <2>1, <1>2 DEF HostInv, Enabled, PreinitLast, LastBut
  <2>3. ResetPath'
    BY <2>1, <1>3, <1>4, <1>5, <1>2 DEF HostInv, Enabled, ResetPath, Resetting, Released,
       NotBegun, Waiting
  <2>4. Discarding'
    BY <2>1, <1>3, <1>4, <1>5, <1>2 DEF HostInv, Enabled, Discarding, FreshRound
  <2>5. Announced'
    BY <2>1, <1>3, <1>4, <1>5, <1>2 DEF HostInv, Enabled, Announced, Waiting, OnlyErrors, Settled,
       Released, NotBegun
  <2>6. Checking'
    BY <2>1, <1>3, <1>4, <1>5, <1>2 DEF HostInv, Enabled, Checking, OnlyErrors, Waiting, Faulted
  <2> QED
    BY <2>2, <2>3, <2>4, <2>5, <2>6
<1>15. Epoch'
  <2> SUFFICES ASSUME auto'.enabled, ~auto'.skipping
               PROVE  WireOrder' /\ NotYet' /\ AtGrant' /\ OwnLog' /\ Captured' /\ Reported' /\
                  Ending'
    BY DEF Epoch
  <2>1. auto.enabled /\ ~auto.skipping
    BY <1>3, <1>4, <1>5, <1>2
  <2>2. WireOrder'
    BY <2>1, <1>2 DEF HostInv, Epoch, WireOrder, LastBut
  <2>3. NotYet'
    BY <2>1, <1>3, <1>4, <1>5, <1>2 DEF HostInv, Epoch, NotYet, Waiting
  <2>4. AtGrant'
    BY <2>1, <1>3, <1>4, <1>5, <1>2 DEF HostInv, Epoch, AtGrant, Granted, OnlyErrors, Waiting,
       Faulted
  <2>5. OwnLog'
    BY <2>1, <1>3, <1>4, <1>5, <1>2 DEF HostInv, Epoch, OwnLog, LogAbout, Waiting, OnlyErrors,
       LogKinds, LogKind
  <2>6. Captured'
    BY <2>1, <1>3, <1>4, <1>5, <1>2 DEF HostInv, Epoch, Captured, LogKind
  <2>7. Reported'
    BY <2>1, <1>3, <1>4, <1>5, <1>2 DEF HostInv, Epoch, Reported, Reached, Far
  <2>8. Ending'
    BY <2>1, <1>3, <1>4, <1>5, <1>2 DEF HostInv, Epoch, Ending, OnlyErrors, Waiting
  <2> QED
    BY <2>2, <2>3, <2>4, <2>5, <2>6, <2>7, <2>8
<1> QED
  BY <1>8, <1>9, <1>10, <1>11, <1>12, <1>13, <1>14, <1>15 DEF HostInv

(* A preconfig worker is begun only before the board was sent its check.     *)
LEMMA RxSchedulesPreconfigKeeps == ASSUME HostInv, RxSchedulesPreconfig PROVE HostInv'
<1>1. /\ auto \in Controllers
      /\ rx \in Receptions
      /\ workers \in WorkerSets
  BY DEF HostInv, HostTypes
<1>2. UNCHANGED <<board, wire, vm, svc, tx, resets, watchdog, round, poll, compare, skip, started,
                  concluded, ending, spent>>
  BY DEF RxSchedulesPreconfig, RxAt, RxGoes, envVars, sendVars, threadVars, history
<1>3. /\ auto'.enabled = auto.enabled
      /\ auto'.round = auto.round
      /\ auto'.grant = auto.grant
      /\ auto'.skipping = auto.skipping
  BY <1>1 DEF RxSchedulesPreconfig, RxAt, RxGoes, Controllers
<1>4. /\ rx'.pc = "idle"
      /\ rx'.frame.kind = "NONE"
  BY <1>1, RestingTyped DEF RxSchedulesPreconfig, RxAt, RxGoes, Receptions
<1>5. /\ workers'.pre = IF auto.enabled /\ auto.round = 0 /\ auto.preinit /\ ~auto.inflight THEN
                        "send" ELSE workers.pre
      /\ workers'.starters = workers.starters
      /\ workers'.launch = workers.launch
      /\ workers'.sender = workers.sender
  BY <1>1 DEF RxSchedulesPreconfig, RxAt, RxGoes, WorkerSets
<1>6. rx.pc = "preconfig" /\ rx.frame.kind = "PREINIT"
  BY DEF RxSchedulesPreconfig, RxAt, RxGoes, HostInv, RxKinds
<1>7. auto' \in Controllers
  BY <1>1 DEF RxSchedulesPreconfig, RxAt, RxGoes, Controllers
<1>8. rx' \in Receptions
  BY <1>1, RestingTyped DEF RxSchedulesPreconfig, RxAt, RxGoes, Receptions, RxStates
<1>9. workers' \in WorkerSets
  BY <1>1 DEF RxSchedulesPreconfig, RxAt, RxGoes, WorkerSets, Senders
<1>10. HostTypes'
  BY <1>7, <1>8, <1>9, <1>2 DEF HostInv, HostTypes
<1>11. RxKinds'
  BY <1>3, <1>4, <1>5, <1>6, <1>2 DEF HostInv, RxKinds, StatusKind, LogKind
<1>12. Numbered'
  BY <1>3, <1>4, <1>5, <1>6, <1>2 DEF HostInv, Numbered
<1>13. JobFits'
  BY <1>3, <1>4, <1>5, <1>6, <1>2 DEF HostInv, JobFits, NoJob
<1>14. Caused'
  BY <1>3, <1>4, <1>5, <1>6, <1>2 DEF HostInv, Caused, Waiting, Faulted
<1>15. CompareHolds'
  BY <1>3, <1>4, <1>5, <1>6, <1>2 DEF HostInv, CompareHolds
<1>16. Enabled'
  <2> SUFFICES ASSUME auto'.enabled
               PROVE  PreinitLast' /\ ResetPath' /\ Discarding' /\ Announced' /\ Checking'
    BY DEF Enabled
  <2>1. auto.enabled
    BY <1>3, <1>4, <1>5, <1>6, <1>2
  <2>2. PreinitLast'
    BY <2>1, <1>2 DEF HostInv, Enabled, PreinitLast, LastBut
  <2>3. ResetPath'
    BY <2>1, <1>3, <1>4, <1>5, <1>6, <1>2 DEF HostInv, Enabled, ResetPath, Resetting, Released,
       NotBegun, Waiting, Announced
  <2>4. Discarding'
    BY <2>1, <1>3, <1>4, <1>5, <1>6, <1>2 DEF HostInv, Enabled, Discarding, FreshRound
  <2>5. Announced'
    BY <2>1, <1>3, <1>4, <1>5, <1>6, <1>2 DEF HostInv, Enabled, Announced, Waiting, OnlyErrors,
       Settled, Released, NotBegun
  <2>6. Checking'
    BY <2>1, <1>3, <1>4, <1>5, <1>6, <1>2 DEF HostInv, Enabled, Checking, OnlyErrors, Waiting,
       Faulted, Announced, Settled, Epoch, AtGrant, Granted
  <2> QED
    BY <2>2, <2>3, <2>4, <2>5, <2>6
<1>17. Epoch'
  <2> SUFFICES ASSUME auto'.enabled, ~auto'.skipping
               PROVE  WireOrder' /\ NotYet' /\ AtGrant' /\ OwnLog' /\ Captured' /\ Reported' /\
                  Ending'
    BY DEF Epoch
  <2>1. auto.enabled /\ ~auto.skipping
    BY <1>3, <1>4, <1>5, <1>6, <1>2
  <2>2. WireOrder'
    BY <2>1, <1>2 DEF HostInv, Epoch, WireOrder, LastBut
  <2>3. NotYet'
    BY <2>1, <1>3, <1>4, <1>5, <1>6, <1>2 DEF HostInv, Epoch, NotYet, Waiting
  <2>4. AtGrant'
    BY <2>1, <1>3, <1>4, <1>5, <1>6, <1>2 DEF HostInv, Epoch, AtGrant, Granted, OnlyErrors,
       Waiting, Faulted
  <2>5. OwnLog'
    BY <2>1, <1>3, <1>4, <1>5, <1>6, <1>2 DEF HostInv, Epoch, OwnLog, LogAbout, Waiting,
       OnlyErrors, LogKinds, LogKind
  <2>6. Captured'
    BY <2>1, <1>3, <1>4, <1>5, <1>6, <1>2 DEF HostInv, Epoch, Captured, LogKind
  <2>7. Reported'
    BY <2>1, <1>3, <1>4, <1>5, <1>6, <1>2 DEF HostInv, Epoch, Reported, Reached, Far
  <2>8. Ending'
    BY <2>1, <1>3, <1>4, <1>5, <1>6, <1>2 DEF HostInv, Epoch, Ending, OnlyErrors, Waiting
  <2> QED
    BY <2>2, <2>3, <2>4, <2>5, <2>6, <2>7, <2>8
<1> QED
  BY <1>10, <1>11, <1>12, <1>13, <1>14, <1>15, <1>16, <1>17 DEF HostInv

(* A grant is for the round, or latched when there is none.                  *)
LEMMA RxGrantKeeps == ASSUME HostInv, RxGrant PROVE HostInv'
<1>1. /\ auto \in Controllers
      /\ round \in Rounds
      /\ rx \in Receptions
  BY DEF HostInv, HostTypes
<1>2. UNCHANGED <<board, wire, vm, svc, tx, resets, watchdog, poll, compare, skip, workers,
                  started, concluded, ending, spent>>
  BY DEF RxGrant, RxAt, RxGoes, Latched, envVars, sendVars, threadVars, history
<1>3. /\ auto'.enabled = auto.enabled
      /\ auto'.round = auto.round
      /\ auto'.grant = (auto.grant \/ auto.round = 0)
      /\ auto'.skipping = auto.skipping
  BY <1>1 DEF RxGrant, RxAt, RxGoes, Latched, Controllers
<1>4. /\ round'.ready = (round.ready \/ auto.round # 0)
      /\ round'.sent = round.sent
      /\ round'.dones = round.dones
      /\ round'.over = round.over
      /\ round'.comparing = round.comparing
      /\ round'.status = round.status
      /\ round'.closed = round.closed
      /\ round'.log = round.log
  BY <1>1 DEF RxGrant, RxAt, RxGoes, Latched, Rounds
<1>5. /\ rx'.pc = IF auto.round # 0 THEN "send" ELSE "start"
      /\ rx'.frame = rx.frame
  BY <1>1 DEF RxGrant, RxAt, RxGoes, Latched, Receptions
<1>6. /\ rx.pc = "act" /\ rx.frame.kind = "GRANT"
      /\ auto.round = 0 => round' = round
  BY DEF RxGrant, RxAt, RxGoes, Latched
<1>7. auto' \in Controllers
  BY <1>1 DEF RxGrant, RxAt, RxGoes, Latched, Controllers
<1>8. round' \in Rounds
  BY <1>1 DEF RxGrant, RxAt, RxGoes, Latched, Rounds
<1>9. rx' \in Receptions
  BY <1>1 DEF RxGrant, RxAt, RxGoes, Latched, Receptions, RxStates
<1>10. HostTypes'
  BY <1>7, <1>8, <1>9, <1>2 DEF HostInv, HostTypes
<1>11. RxKinds'
  BY <1>3, <1>4, <1>5, <1>6, <1>2 DEF HostInv, RxKinds, StatusKind, LogKind
<1>12. Numbered'
  BY <1>3, <1>4, <1>5, <1>6, <1>2 DEF HostInv, Numbered
<1>13. JobFits'
  BY <1>3, <1>4, <1>5, <1>6, <1>2 DEF HostInv, JobFits, NoJob
<1>14. Caused'
  BY <1>3, <1>4, <1>5, <1>6, <1>2 DEF HostInv, Caused, Waiting, Faulted
<1>15. CompareHolds'
  BY <1>3, <1>4, <1>5, <1>6, <1>2 DEF HostInv, CompareHolds
<1>16. Enabled'
  <2> SUFFICES ASSUME auto'.enabled
               PROVE  PreinitLast' /\ ResetPath' /\ Discarding' /\ Announced' /\ Checking'
    BY DEF Enabled
  <2>1. auto.enabled
    BY <1>3, <1>4, <1>5, <1>6, <1>2
  <2>2. PreinitLast'
    BY <2>1, <1>2 DEF HostInv, Enabled, PreinitLast, LastBut
  <2>3. ResetPath'
    BY <2>1, <1>3, <1>4, <1>5, <1>6, <1>2 DEF HostInv, Enabled, ResetPath, Resetting, Released,
       NotBegun, Waiting
  <2>4. Discarding'
    BY <2>1, <1>3, <1>4, <1>5, <1>6, <1>2 DEF HostInv, Enabled, Discarding, FreshRound
  <2>5. Announced'
    BY <2>1, <1>3, <1>4, <1>5, <1>6, <1>2 DEF HostInv, Enabled, Announced, Waiting, OnlyErrors,
       Settled, Released, NotBegun
  <2>6. Checking'
    BY <2>1, <1>3, <1>4, <1>5, <1>6, <1>2 DEF HostInv, Enabled, Checking, OnlyErrors, Waiting,
       Faulted
  <2> QED
    BY <2>2, <2>3, <2>4, <2>5, <2>6
<1>17. Epoch'
  <2> SUFFICES ASSUME auto'.enabled, ~auto'.skipping
               PROVE  WireOrder' /\ NotYet' /\ AtGrant' /\ OwnLog' /\ Captured' /\ Reported' /\
                  Ending'
    BY DEF Epoch
  <2>1. auto.enabled /\ ~auto.skipping
    BY <1>3, <1>4, <1>5, <1>6, <1>2
  <2>2. WireOrder'
    BY <2>1, <1>2 DEF HostInv, Epoch, WireOrder, LastBut
  <2>3. NotYet'
    BY <2>1, <1>3, <1>4, <1>5, <1>6, <1>2 DEF HostInv, Epoch, NotYet, Waiting
  <2>4. AtGrant'
    BY <2>1, <1>3, <1>4, <1>5, <1>6, <1>2 DEF HostInv, Epoch, AtGrant, Granted, OnlyErrors,
       Waiting, Faulted
  <2>5. OwnLog'
    BY <2>1, <1>3, <1>4, <1>5, <1>6, <1>2 DEF HostInv, Epoch, OwnLog, LogAbout, Waiting,
       OnlyErrors, LogKinds, LogKind
  <2>6. Captured'
    BY <2>1, <1>3, <1>4, <1>5, <1>6, <1>2 DEF HostInv, Epoch, Captured, LogKind
  <2>7. Reported'
    BY <2>1, <1>3, <1>4, <1>5, <1>6, <1>2 DEF HostInv, Epoch, Reported, Reached, Far
  <2>8. Ending'
    BY <2>1, <1>3, <1>4, <1>5, <1>6, <1>2 DEF HostInv, Epoch, Ending, OnlyErrors, Waiting
  <2> QED
    BY <2>2, <2>3, <2>4, <2>5, <2>6, <2>7, <2>8
<1> QED
  BY <1>10, <1>11, <1>12, <1>13, <1>14, <1>15, <1>16, <1>17 DEF HostInv

(* A start worker is only begun when there is no round.                      *)
LEMMA RxSchedulesStartKeeps == ASSUME HostInv, RxSchedulesStart PROVE HostInv'
<1>1. /\ rx \in Receptions
      /\ workers \in WorkerSets
  BY DEF HostInv, HostTypes
<1>2. UNCHANGED <<board, wire, vm, svc, tx, resets, watchdog, auto, round, poll, compare, skip,
                  started, concluded, ending, spent>>
  BY DEF RxSchedulesStart, RxAt, RxGoes, envVars, sendVars, threadVars, history
<1>3. \/ rx'.pc = "idle" /\ rx'.frame.kind = "NONE"
      \/ rx'.pc = "send" /\ rx'.frame = rx.frame /\ rx.frame.kind = "GRANT"
  BY <1>1, RestingTyped DEF HostInv, RxKinds, RxSchedulesStart, RxGoes, RxAt, Receptions
<1>4. /\ workers'.pre = workers.pre
      /\ workers'.starters = IF auto.enabled /\ ~auto.skipping /\ auto.round = 0 THEN
                             workers.starters + 1 ELSE workers.starters
      /\ workers'.launch = workers.launch
      /\ workers'.sender = workers.sender
  BY <1>1 DEF RxSchedulesStart, RxAt, RxGoes, WorkerSets
<1>5. rx.frame.kind \in {"PASS", "GRANT"} /\ rx.pc \in {"act", "start"}
  BY DEF RxSchedulesStart, RxAt, RxGoes, HostInv, RxKinds
<1>6. rx' \in Receptions
  BY <1>1, RestingTyped DEF RxSchedulesStart, RxAt, RxGoes, Receptions, RxStates
<1>7. workers' \in WorkerSets
  BY <1>1 DEF RxSchedulesStart, RxAt, RxGoes, WorkerSets, Senders
<1>8. HostTypes'
  BY <1>6, <1>7, <1>2 DEF HostInv, HostTypes
<1>9. CompareHolds'
  BY <1>2 DEF HostInv, CompareHolds
<1>10. RxKinds'
  BY <1>3, <1>4, <1>5, <1>2 DEF HostInv, RxKinds, StatusKind, LogKind
<1>11. Numbered'
  BY <1>3, <1>4, <1>5, <1>2 DEF HostInv, Numbered
<1>12. JobFits'
  BY <1>3, <1>4, <1>5, <1>2 DEF HostInv, JobFits, NoJob
<1>13. Caused'
  BY <1>3, <1>4, <1>5, <1>2 DEF HostInv, Caused, Waiting, Faulted
<1>14. Enabled'
  <2> SUFFICES ASSUME auto'.enabled
               PROVE  PreinitLast' /\ ResetPath' /\ Discarding' /\ Announced' /\ Checking'
    BY DEF Enabled
  <2>1. auto.enabled
    BY <1>3, <1>4, <1>5, <1>2
  <2>2. PreinitLast'
    BY <2>1, <1>2 DEF HostInv, Enabled, PreinitLast, LastBut
  <2>3. ResetPath'
    BY <2>1, <1>3, <1>4, <1>5, <1>2 DEF HostInv, Enabled, ResetPath, Resetting, Released,
       NotBegun, Waiting
  <2>4. Discarding'
    BY <2>1, <1>3, <1>4, <1>5, <1>2 DEF HostInv, Enabled, Discarding, FreshRound
  <2>5. Announced'
    BY <2>1, <1>3, <1>4, <1>5, <1>2 DEF HostInv, Enabled, Announced, Waiting, OnlyErrors, Settled,
       Released, NotBegun, ResetPath
  <2>6. Checking'
    BY <2>1, <1>3, <1>4, <1>5, <1>2 DEF HostInv, Enabled, Checking, OnlyErrors, Waiting, Faulted
  <2> QED
    BY <2>2, <2>3, <2>4, <2>5, <2>6
<1>15. Epoch'
  <2> SUFFICES ASSUME auto'.enabled, ~auto'.skipping
               PROVE  WireOrder' /\ NotYet' /\ AtGrant' /\ OwnLog' /\ Captured' /\ Reported' /\
                  Ending'
    BY DEF Epoch
  <2>1. auto.enabled /\ ~auto.skipping
    BY <1>3, <1>4, <1>5, <1>2
  <2>2. WireOrder'
    BY <2>1, <1>2 DEF HostInv, Epoch, WireOrder, LastBut
  <2>3. NotYet'
    BY <2>1, <1>3, <1>4, <1>5, <1>2 DEF HostInv, Epoch, NotYet, Waiting
  <2>4. AtGrant'
    BY <2>1, <1>3, <1>4, <1>5, <1>2 DEF HostInv, Epoch, AtGrant, Granted, OnlyErrors, Waiting,
       Faulted
  <2>5. OwnLog'
    BY <2>1, <1>3, <1>4, <1>5, <1>2 DEF HostInv, Epoch, OwnLog, LogAbout, Waiting, OnlyErrors,
       LogKinds, LogKind
  <2>6. Captured'
    BY <2>1, <1>3, <1>4, <1>5, <1>2 DEF HostInv, Epoch, Captured, LogKind
  <2>7. Reported'
    BY <2>1, <1>3, <1>4, <1>5, <1>2 DEF HostInv, Epoch, Reported, Reached, Far, JobFits, NoJob
  <2>8. Ending'
    BY <2>1, <1>3, <1>4, <1>5, <1>2 DEF HostInv, Epoch, Ending, OnlyErrors, Waiting
  <2> QED
    BY <2>2, <2>3, <2>4, <2>5, <2>6, <2>7, <2>8
<1> QED
  BY <1>8, <1>9, <1>10, <1>11, <1>12, <1>13, <1>14, <1>15 DEF HostInv

(* A program is sent once, under the grant of its epoch.                     *)
LEMMA RxMaybeSendsKeeps == ASSUME HostInv, RxMaybeSends PROVE HostInv'
<1>1. /\ auto \in Controllers
      /\ round \in Rounds
      /\ rx \in Receptions
      /\ workers \in WorkerSets
  BY DEF HostInv, HostTypes
<1>2. UNCHANGED <<board, wire, vm, svc, tx, resets, watchdog, auto, poll, compare, skip, started,
                  concluded, ending, spent>>
  BY DEF RxMaybeSends, RxAt, RxGoes, MaybeSendProgram, envVars, sendVars, threadVars, history
<1>3. /\ round'.ready = round.ready
      /\ round'.sent = (round.sent \/ MaySend)
      /\ round'.dones = round.dones
      /\ round'.over = round.over
      /\ round'.comparing = round.comparing
      /\ round'.status = round.status
      /\ round'.closed = round.closed
      /\ round'.log = round.log
  BY <1>1 DEF RxMaybeSends, RxAt, RxGoes, MaybeSendProgram, Rounds
<1>4. /\ rx'.pc = "idle"
      /\ rx'.frame.kind = "NONE"
  BY <1>1, RestingTyped DEF RxMaybeSends, RxAt, RxGoes, MaybeSendProgram, Receptions
<1>5. /\ workers'.pre = workers.pre
      /\ workers'.starters = workers.starters
      /\ workers'.launch = workers.launch
      /\ workers'.sender = IF MaySend THEN [pc |-> "begin", of |-> auto.round] ELSE workers.sender
  BY <1>1 DEF RxMaybeSends, RxAt, RxGoes, MaybeSendProgram, WorkerSets
<1>6. /\ ~MaySend => round' = round
      /\ rx.pc = "send"
  BY DEF RxMaybeSends, RxAt, RxGoes, MaybeSendProgram
<1>7. round' \in Rounds
  BY <1>1 DEF RxMaybeSends, RxAt, RxGoes, MaybeSendProgram, Rounds
<1>8. rx' \in Receptions
  BY <1>1, RestingTyped DEF RxMaybeSends, RxAt, RxGoes, MaybeSendProgram, Receptions, RxStates
<1>9. workers' \in WorkerSets
  BY <1>1 DEF RxMaybeSends, RxAt, RxGoes, MaybeSendProgram, WorkerSets, Senders, Controllers
<1>10. HostTypes'
  BY <1>7, <1>8, <1>9, <1>2 DEF HostInv, HostTypes
<1>11. RxKinds'
  BY <1>3, <1>4, <1>5, <1>6, <1>2 DEF HostInv, RxKinds, StatusKind, LogKind
<1>12. Numbered'
  BY <1>3, <1>4, <1>5, <1>6, <1>2 DEF HostInv, Numbered, MaySend, Threads
<1>13. JobFits'
  BY <1>3, <1>4, <1>5, <1>6, <1>2 DEF HostInv, JobFits, NoJob
<1>14. Caused'
  BY <1>3, <1>4, <1>5, <1>6, <1>2 DEF HostInv, Caused, Waiting, Faulted, MaySend
<1>15. CompareHolds'
  BY <1>3, <1>4, <1>5, <1>6, <1>2 DEF HostInv, CompareHolds
<1>16. Enabled'
  <2> SUFFICES ASSUME auto'.enabled
               PROVE  PreinitLast' /\ ResetPath' /\ Discarding' /\ Announced' /\ Checking'
    BY DEF Enabled
  <2>1. auto.enabled
    BY <1>3, <1>4, <1>5, <1>6, <1>2
  <2>2. PreinitLast'
    BY <2>1, <1>2 DEF HostInv, Enabled, PreinitLast, LastBut
  <2>3. ResetPath'
    BY <2>1, <1>3, <1>4, <1>5, <1>6, <1>2 DEF HostInv, Enabled, ResetPath, Resetting, Released,
       NotBegun, Waiting
  <2>4. Discarding'
    BY <2>1, <1>3, <1>4, <1>5, <1>6, <1>2 DEF HostInv, Enabled, Discarding, FreshRound, MaySend
  <2>5. Announced'
    BY <2>1, <1>3, <1>4, <1>5, <1>6, <1>2 DEF HostInv, Enabled, Announced, Waiting, OnlyErrors,
       Settled, Released, NotBegun, MaySend
  <2>6. Checking'
    BY <2>1, <1>3, <1>4, <1>5, <1>6, <1>2 DEF HostInv, Enabled, Checking, OnlyErrors, Waiting,
       Faulted, MaySend
  <2> QED
    BY <2>2, <2>3, <2>4, <2>5, <2>6
<1>17. Epoch'
  <2> SUFFICES ASSUME auto'.enabled, ~auto'.skipping
               PROVE  WireOrder' /\ NotYet' /\ AtGrant' /\ OwnLog' /\ Captured' /\ Reported' /\
                  Ending'
    BY DEF Epoch
  <2>1. auto.enabled /\ ~auto.skipping
    BY <1>3, <1>4, <1>5, <1>6, <1>2
  <2>2. WireOrder'
    BY <2>1, <1>2 DEF HostInv, Epoch, WireOrder, LastBut
  <2>3. NotYet'
    BY <2>1, <1>3, <1>4, <1>5, <1>6, <1>2 DEF HostInv, Epoch, NotYet, Waiting
  <2>4. AtGrant'
    <3>1. OnlyErrors' = OnlyErrors /\ Waiting({"GRANT"})' = Waiting({"GRANT"})
      BY <1>2 DEF OnlyErrors, Waiting
    <3>2. MaySend => workers'.sender.pc = "begin" /\ workers'.sender.of = auto.round
      BY <2>1, <1>3, <1>4, <1>5, <1>6, <1>2 DEF OnlyErrors
    <3>3. MaySend => Granted /\ auto.round # 0 /\ ~auto.grant /\ round.ready
      BY  DEF HostInv, Epoch, AtGrant, Granted, OnlyErrors, Waiting, Faulted, MaySend, Enabled,
         Discarding
    <3>4. CASE MaySend
      BY <2>1, <1>3, <1>4, <1>5, <1>6, <1>2, <3>4, <3>1, <3>2, <3>3 DEF HostInv, Epoch, AtGrant,
         Granted, Faulted
    <3>5. CASE ~MaySend
      BY <2>1, <1>3, <1>4, <1>5, <1>6, <1>2, <3>5 DEF HostInv, Epoch, AtGrant, Granted,
         OnlyErrors, Waiting, Faulted, MaySend, Enabled, Discarding
    <3> QED
      BY <2>1, <1>3, <1>4, <1>5, <1>6, <1>2, <3>1, <3>2, <3>3, <3>4, <3>5 DEF HostInv, Epoch,
         AtGrant, Granted, OnlyErrors, Waiting, Faulted, MaySend, Enabled, Discarding
  <2>5. OwnLog'
    BY <2>1, <1>3, <1>4, <1>5, <1>6, <1>2 DEF HostInv, Epoch, OwnLog, LogAbout, Waiting,
       OnlyErrors, LogKinds, LogKind, MaySend
  <2>6. Captured'
    BY <2>1, <1>3, <1>4, <1>5, <1>6, <1>2 DEF HostInv, Epoch, Captured, LogKind, MaySend, AtGrant,
       Granted
  <2>7. Reported'
    BY <2>1, <1>3, <1>4, <1>5, <1>6, <1>2 DEF HostInv, Epoch, Reported, Reached, Far, MaySend
  <2>8. Ending'
    BY <2>1, <1>3, <1>4, <1>5, <1>6, <1>2 DEF HostInv, Epoch, Ending, OnlyErrors, Waiting, MaySend
  <2> QED
    BY <2>2, <2>3, <2>4, <2>5, <2>6, <2>7, <2>8
<1> QED
  BY <1>10, <1>11, <1>12, <1>13, <1>14, <1>15, <1>16, <1>17 DEF HostInv

(* The end of the run; with harts missing it is a loss.                      *)
LEMMA RxExeEndKeeps == ASSUME HostInv, RxExeEnd PROVE HostInv'
<1>1. /\ round \in Rounds
      /\ rx \in Receptions
  BY DEF HostInv, HostTypes
<1>2. UNCHANGED <<board, wire, vm, svc, tx, resets, watchdog, auto, poll, compare, skip, workers,
                  started, concluded, ending, spent>>
  BY DEF RxExeEnd, RxAt, RxGoes, envVars, sendVars, threadVars, history
<1>3. /\ round'.ready = round.ready
      /\ round'.sent = round.sent
      /\ round'.dones = round.dones
      /\ round'.over = (round.over \/ auto.round # 0)
      /\ round'.comparing = round.comparing
      /\ round'.status = round.status
      /\ round'.closed = round.closed
      /\ round'.log = round.log
  BY <1>1 DEF RxExeEnd, RxAt, RxGoes, Rounds
<1>4. /\ rx'.pc = IF auto.round # 0 /\ round.dones # Harts THEN "loss" ELSE "compare"
      /\ rx'.frame = rx.frame
  BY <1>1 DEF RxExeEnd, RxAt, RxGoes, Receptions
<1>5. /\ rx.pc = "act" /\ rx.frame.kind = "EXE_END"
      /\ auto.round = 0 => round' = round
  BY DEF RxExeEnd, RxAt, RxGoes
<1>6. round' \in Rounds
  BY <1>1 DEF RxExeEnd, RxAt, RxGoes, Rounds
<1>7. rx' \in Receptions
  BY <1>1 DEF RxExeEnd, RxAt, RxGoes, Receptions, RxStates
<1>8. HostTypes'
  BY <1>6, <1>7, <1>2 DEF HostInv, HostTypes
<1>9. JobFits'
  BY <1>2 DEF HostInv, JobFits, NoJob
<1>10. RxKinds'
  BY <1>3, <1>4, <1>5, <1>2 DEF HostInv, RxKinds, StatusKind, LogKind
<1>11. Numbered'
  BY <1>3, <1>4, <1>5, <1>2 DEF HostInv, Numbered
<1>12. Caused'
  BY <1>3, <1>4, <1>5, <1>2 DEF HostInv, Caused, Waiting, Faulted
<1>13. CompareHolds'
  BY <1>3, <1>4, <1>5, <1>2 DEF HostInv, CompareHolds
<1>14. Enabled'
  <2> SUFFICES ASSUME auto'.enabled
               PROVE  PreinitLast' /\ ResetPath' /\ Discarding' /\ Announced' /\ Checking'
    BY DEF Enabled
  <2>1. auto.enabled
    BY <1>3, <1>4, <1>5, <1>2
  <2>2. PreinitLast'
    BY <2>1, <1>2 DEF HostInv, Enabled, PreinitLast, LastBut
  <2>3. ResetPath'
    BY <2>1, <1>3, <1>4, <1>5, <1>2 DEF HostInv, Enabled, ResetPath, Resetting, Released,
       NotBegun, Waiting
  <2>4. Discarding'
    BY <2>1, <1>3, <1>4, <1>5, <1>2 DEF HostInv, Enabled, Discarding, FreshRound
  <2>5. Announced'
    BY <2>1, <1>3, <1>4, <1>5, <1>2 DEF HostInv, Enabled, Announced, Waiting, OnlyErrors, Settled,
       Released, NotBegun
  <2>6. Checking'
    BY <2>1, <1>3, <1>4, <1>5, <1>2 DEF HostInv, Enabled, Checking, OnlyErrors, Waiting, Faulted
  <2> QED
    BY <2>2, <2>3, <2>4, <2>5, <2>6
<1>15. Epoch'
  <2> SUFFICES ASSUME auto'.enabled, ~auto'.skipping
               PROVE  WireOrder' /\ NotYet' /\ AtGrant' /\ OwnLog' /\ Captured' /\ Reported' /\
                  Ending'
    BY DEF Epoch
  <2>1. auto.enabled /\ ~auto.skipping
    BY <1>3, <1>4, <1>5, <1>2
  <2>2. WireOrder'
    BY <2>1, <1>2 DEF HostInv, Epoch, WireOrder, LastBut
  <2>3. NotYet'
    BY <2>1, <1>3, <1>4, <1>5, <1>2 DEF HostInv, Epoch, NotYet, Waiting
  <2>4. AtGrant'
    BY <2>1, <1>3, <1>4, <1>5, <1>2 DEF HostInv, Epoch, AtGrant, Granted, OnlyErrors, Waiting,
       Faulted
  <2>5. OwnLog'
    BY <2>1, <1>3, <1>4, <1>5, <1>2 DEF HostInv, Epoch, OwnLog, LogAbout, Waiting, OnlyErrors,
       LogKinds, LogKind
  <2>6. Captured'
    BY <2>1, <1>3, <1>4, <1>5, <1>2 DEF HostInv, Epoch, Captured, LogKind, OwnLog, LogAbout,
       LogKinds
  <2>7. Reported'
    BY <2>1, <1>3, <1>4, <1>5, <1>2 DEF HostInv, Epoch, Reported, Reached, Far
  <2>8. Ending'
    BY <2>1, <1>3, <1>4, <1>5, <1>2 DEF HostInv, Epoch, Ending, OnlyErrors, Waiting, OwnLog,
       LogAbout, LogKinds
  <2> QED
    BY <2>2, <2>3, <2>4, <2>5, <2>6, <2>7, <2>8
<1> QED
  BY <1>8, <1>9, <1>10, <1>11, <1>12, <1>13, <1>14, <1>15 DEF HostInv

(* An ERROR of the board ends the session; the board has failed.             *)
LEMMA RxErrorKeeps == ASSUME HostInv, RxError PROVE HostInv'
<1>1. /\ auto \in Controllers
      /\ rx \in Receptions
      /\ ending \in {"none", "failed", "missing", "discard", "operator"}
  BY DEF HostInv, HostTypes
<1>2. UNCHANGED <<board, wire, vm, svc, tx, resets, watchdog, round, poll, compare, skip, workers,
                  started, concluded, spent>>
  BY DEF RxError, RxAt, RxGoes, Fail, Ended, envVars, sendVars, threadVars, history
<1>3. /\ auto'.enabled = FALSE
      /\ auto'.round = auto.round
      /\ auto'.grant = auto.grant
      /\ auto'.skipping = FALSE
  BY <1>1 DEF RxError, RxAt, RxGoes, Fail, Ended, Controllers
<1>4. /\ rx'.pc = "idle"
      /\ rx'.frame.kind = "NONE"
  BY <1>1, RestingTyped DEF RxError, RxAt, RxGoes, Fail, Ended, Receptions
<1>5. ending' = IF auto.enabled THEN "failed" ELSE ending
  BY <1>1 DEF RxError, RxAt, RxGoes, Fail, Ended
<1>6. rx.frame.kind = "ERROR" /\ rx.pc = "act"
  BY DEF RxError, RxAt, RxGoes, Fail, Ended
<1>7. auto' \in Controllers
  BY <1>1 DEF RxError, RxAt, RxGoes, Fail, Ended, Controllers
<1>8. rx' \in Receptions
  BY <1>1, RestingTyped DEF RxError, RxAt, RxGoes, Fail, Ended, Receptions, RxStates
<1>9. ending' \in {"none", "failed", "missing", "discard", "operator"}
  BY <1>1 DEF RxError, RxAt, RxGoes, Fail, Ended
<1>10. HostTypes'
  BY <1>7, <1>8, <1>9, <1>2 DEF HostInv, HostTypes
<1>11. RxKinds'
  BY <1>3, <1>4, <1>5, <1>6, <1>2 DEF HostInv, RxKinds, StatusKind, LogKind
<1>12. Numbered'
  BY <1>3, <1>4, <1>5, <1>6, <1>2 DEF HostInv, Numbered
<1>13. JobFits'
  BY <1>3, <1>4, <1>5, <1>6, <1>2 DEF HostInv, JobFits, NoJob
<1>14. Caused'
  BY <1>3, <1>4, <1>5, <1>6, <1>2 DEF HostInv, Caused, Waiting, Faulted
<1>15. CompareHolds'
  BY <1>3, <1>4, <1>5, <1>6, <1>2 DEF HostInv, CompareHolds
<1>16. Enabled'
  BY <1>3, <1>4, <1>5, <1>6, <1>2 DEF Enabled
<1>17. Epoch'
  BY <1>3, <1>4, <1>5, <1>6, <1>2 DEF Epoch
<1> QED
  BY <1>10, <1>11, <1>12, <1>13, <1>14, <1>15, <1>16, <1>17 DEF HostInv

(* A log frame on the wire is of the current round, and joins its log.       *)
LEMMA RxCapturesKeeps == ASSUME HostInv, RxCaptures PROVE HostInv'
<1>1. /\ wire \in Seq(Frames)
      /\ round \in Rounds
      /\ rx \in Receptions
  BY DEF HostInv, HostTypes
<1>2. UNCHANGED <<board, vm, svc, tx, resets, watchdog, auto, poll, compare, skip, workers,
                  started, concluded, ending, spent>>
  BY DEF RxCaptures, Takes, envVars, sendVars, threadVars, history
<1>3. /\ \A i \in DOMAIN wire' : i + 1 \in DOMAIN wire /\ wire'[i] = wire[i + 1]
      /\ \A i \in DOMAIN wire' : i \in Nat /\ 1 <= i
      /\ 1 \in DOMAIN wire /\ wire[1] = Head(wire) /\ Head(wire) \in Frames
  BY <1>1, WireTaken DEF RxCaptures, Takes
<1>4. /\ round'.ready = round.ready
      /\ round'.sent = round.sent
      /\ round'.dones = round.dones
      /\ round'.over = round.over
      /\ round'.comparing = round.comparing
      /\ round'.status = round.status
      /\ round'.closed = round.closed
      /\ round'.log = IF auto.round # 0 /\ ~round.closed THEN round.log \cup {Head(wire)} ELSE
                      round.log
  BY <1>1 DEF RxCaptures, Takes, Rounds
<1>5. /\ rx'.pc = "check"
      /\ rx'.frame = Head(wire)
  BY <1>1 DEF RxCaptures, Takes, Receptions
<1>6. /\ rx.pc = "idle" /\ rx.frame.kind = "NONE"
      /\ Head(wire).kind \in LogKind
      /\ auto.round = 0 => round' = round
  BY DEF RxCaptures, Takes, HostInv, RxKinds
<1>7. wire' \in Seq(Frames)
  BY <1>1, WireTaken DEF RxCaptures, Takes
<1>8. round' \in Rounds
  BY <1>1, WireTaken DEF RxCaptures, Takes, Rounds
<1>9. rx' \in Receptions
  BY <1>1, WireTaken DEF RxCaptures, Takes, Receptions, RxStates
<1>10. HostTypes'
  BY <1>7, <1>8, <1>9, <1>2 DEF HostInv, HostTypes
<1>11. JobFits'
  BY <1>2 DEF HostInv, JobFits, NoJob
<1>12. RxKinds'
  BY <1>3, <1>4, <1>5, <1>6, <1>2 DEF HostInv, RxKinds, StatusKind, LogKind
<1>13. Numbered'
  BY <1>3, <1>4, <1>5, <1>6, <1>2 DEF HostInv, Numbered
<1>14. Caused'
  BY <1>3, <1>4, <1>5, <1>6, <1>2 DEF HostInv, Caused, Waiting, Faulted, LogKind
<1>15. CompareHolds'
  BY <1>3, <1>4, <1>5, <1>6, <1>2 DEF HostInv, CompareHolds
<1>16. Enabled'
  <2> SUFFICES ASSUME auto'.enabled
               PROVE  PreinitLast' /\ ResetPath' /\ Discarding' /\ Announced' /\ Checking'
    BY DEF Enabled
  <2>1. auto.enabled
    BY <1>3, <1>4, <1>5, <1>6, <1>2
  <2>2. PreinitLast'
    BY <2>1, <1>3, <1>4, <1>5, <1>6, <1>2 DEF HostInv, Enabled, PreinitLast, LastBut
  <2>3. ResetPath'
    BY <2>1, <1>3, <1>4, <1>5, <1>6, <1>2 DEF HostInv, Enabled, ResetPath, Resetting, Released,
       NotBegun, Waiting, LogKind
  <2>4. Discarding'
    BY <2>1, <1>3, <1>4, <1>5, <1>6, <1>2 DEF HostInv, Enabled, Discarding, FreshRound
  <2>5. Announced'
    BY <2>1, <1>3, <1>4, <1>5, <1>6, <1>2 DEF HostInv, Enabled, Announced, Waiting, OnlyErrors,
       Settled, Released, NotBegun, LogKind
  <2>6. Checking'
    BY <2>1, <1>3, <1>4, <1>5, <1>6, <1>2 DEF HostInv, Enabled, Checking, OnlyErrors, Waiting,
       Faulted, LogKind
  <2> QED
    BY <2>2, <2>3, <2>4, <2>5, <2>6
<1>17. Epoch'
  <2> SUFFICES ASSUME auto'.enabled, ~auto'.skipping
               PROVE  WireOrder' /\ NotYet' /\ AtGrant' /\ OwnLog' /\ Captured' /\ Reported' /\
                  Ending'
    BY DEF Epoch
  <2>1. auto.enabled /\ ~auto.skipping
    BY <1>3, <1>4, <1>5, <1>6, <1>2
  <2>2. WireOrder'
    BY <2>1, <1>3, <1>4, <1>5, <1>6, <1>2 DEF HostInv, Epoch, WireOrder, LastBut
  <2>3. NotYet'
    BY <2>1, <1>3, <1>4, <1>5, <1>6, <1>2 DEF HostInv, Epoch, NotYet, Waiting, LogKind
  <2>4. AtGrant'
    BY <2>1, <1>3, <1>4, <1>5, <1>6, <1>2 DEF HostInv, Epoch, AtGrant, Granted, OnlyErrors,
       Waiting, Faulted, LogKind
  <2>5. OwnLog'
    BY <2>1, <1>3, <1>4, <1>5, <1>6, <1>2 DEF HostInv, Epoch, OwnLog, LogAbout, Waiting,
       OnlyErrors, LogKinds, LogKind
  <2>6. Captured'
    BY <2>1, <1>3, <1>4, <1>5, <1>6, <1>2 DEF HostInv, Epoch, Captured, LogKind, OwnLog, LogAbout,
       LogKinds, Waiting
  <2>7. Reported'
    BY <2>1, <1>3, <1>4, <1>5, <1>6, <1>2 DEF HostInv, Epoch, Reported, Reached, Far
  <2>8. Ending'
    BY <2>1, <1>3, <1>4, <1>5, <1>6, <1>2 DEF HostInv, Epoch, Ending, OnlyErrors, Waiting, LogKind
  <2> QED
    BY <2>2, <2>3, <2>4, <2>5, <2>6, <2>7, <2>8
<1> QED
  BY <1>10, <1>11, <1>12, <1>13, <1>14, <1>15, <1>16, <1>17 DEF HostInv

(* A completion frame goes on only after its data frame was seen.            *)
LEMMA RxChecksKeeps == ASSUME HostInv, RxChecks PROVE HostInv'
<1>1. /\ svc \in Services
      /\ rx \in Receptions
  BY DEF HostInv, HostTypes
<1>2. UNCHANGED <<board, wire, vm, tx, resets, watchdog, auto, round, poll, compare, skip,
                  workers, started, concluded, ending, spent>>
  BY DEF RxChecks, RxAt, RxGoes, envVars, sendVars, threadVars, history
<1>3. /\ svc'.board = svc.board
      /\ svc'.allowed = svc.allowed
      /\ svc'.seen = IF rx.frame.kind = "DATA" THEN svc.seen \cup {rx.frame.hart} ELSE svc.seen
  BY <1>1 DEF RxChecks, RxAt, RxGoes, Services
<1>4. \/ rx'.pc = "idle" /\ rx'.frame.kind = "NONE"
      \/ rx'.pc = "loss" /\ rx'.frame = rx.frame
      \/ /\ rx'.pc = "done" /\ rx'.frame = rx.frame
         /\ rx.frame.kind = "HART_DONE" /\ rx.frame.hart \in svc.seen
  BY <1>1, RestingTyped DEF HostInv, RxKinds, RxChecks, RxGoes, RxAt, Receptions, Continuous,
     LogKind
<1>5. rx.pc = "check" /\ rx.frame.kind \in LogKind
  BY DEF RxChecks, RxAt, RxGoes, HostInv, RxKinds
<1>6. svc' \in Services
  BY <1>1 DEF RxChecks, RxAt, RxGoes, Services, Receptions, Frames
<1>7. rx' \in Receptions
  BY <1>1, RestingTyped DEF RxChecks, RxAt, RxGoes, Receptions, RxStates
<1>8. HostTypes'
  BY <1>6, <1>7, <1>2 DEF HostInv, HostTypes
<1>9. JobFits' /\ CompareHolds'
  BY <1>2 DEF HostInv, JobFits, NoJob, CompareHolds
<1>10. RxKinds'
  BY <1>3, <1>4, <1>5, <1>2 DEF HostInv, RxKinds, StatusKind, LogKind
<1>11. Numbered'
  BY <1>3, <1>4, <1>5, <1>2 DEF HostInv, Numbered
<1>12. Caused'
  BY <1>3, <1>4, <1>5, <1>2 DEF HostInv, Caused, Waiting, Faulted
<1>13. Enabled'
  <2> SUFFICES ASSUME auto'.enabled
               PROVE  PreinitLast' /\ ResetPath' /\ Discarding' /\ Announced' /\ Checking'
    BY DEF Enabled
  <2>1. auto.enabled
    BY <1>3, <1>4, <1>5, <1>2
  <2>2. PreinitLast'
    BY <2>1, <1>2 DEF HostInv, Enabled, PreinitLast, LastBut
  <2>3. ResetPath'
    BY <2>1, <1>3, <1>4, <1>5, <1>2 DEF HostInv, Enabled, ResetPath, Resetting, Released,
       NotBegun, Waiting
  <2>4. Discarding'
    BY <2>1, <1>3, <1>4, <1>5, <1>2 DEF HostInv, Enabled, Discarding, FreshRound
  <2>5. Announced'
    BY <2>1, <1>3, <1>4, <1>5, <1>2 DEF HostInv, Enabled, Announced, Waiting, OnlyErrors, Settled,
       Released, NotBegun, LogKind
  <2>6. Checking'
    BY <2>1, <1>3, <1>4, <1>5, <1>2 DEF HostInv, Enabled, Checking, OnlyErrors, Waiting, Faulted,
       LogKind
  <2> QED
    BY <2>2, <2>3, <2>4, <2>5, <2>6
<1>14. Epoch'
  <2> SUFFICES ASSUME auto'.enabled, ~auto'.skipping
               PROVE  WireOrder' /\ NotYet' /\ AtGrant' /\ OwnLog' /\ Captured' /\ Reported' /\
                  Ending'
    BY DEF Epoch
  <2>1. auto.enabled /\ ~auto.skipping
    BY <1>3, <1>4, <1>5, <1>2
  <2>2. WireOrder' /\ Reported'
    BY <2>1, <1>2 DEF HostInv, Epoch, WireOrder, LastBut, Reported, Reached, Far
  <2>3. NotYet'
    BY <2>1, <1>3, <1>4, <1>5, <1>2 DEF HostInv, Epoch, NotYet, Waiting
  <2>4. AtGrant'
    BY <2>1, <1>3, <1>4, <1>5, <1>2 DEF HostInv, Epoch, AtGrant, Granted, OnlyErrors, Waiting,
       Faulted, LogKind
  <2>5. OwnLog'
    BY <2>1, <1>3, <1>4, <1>5, <1>2 DEF HostInv, Epoch, OwnLog, LogAbout, Waiting, OnlyErrors,
       LogKinds, LogKind
  <2>6. Captured'
    BY <2>1, <1>3, <1>4, <1>5, <1>2 DEF HostInv, Epoch, Captured, LogKind, OwnLog, LogOf, Frame
  <2>7. Ending'
    BY <2>1, <1>3, <1>4, <1>5, <1>2 DEF HostInv, Epoch, Ending, OnlyErrors, Waiting, LogKind
  <2> QED
    BY <2>2, <2>3, <2>4, <2>5, <2>6, <2>7
<1> QED
  BY <1>8, <1>9, <1>10, <1>11, <1>12, <1>13, <1>14 DEF HostInv

(* A hart is done when both its frames are in the log.                       *)
LEMMA RxHartDoneKeeps == ASSUME HostInv, RxHartDone PROVE HostInv'
<1>1. /\ round \in Rounds
      /\ rx \in Receptions
  BY DEF HostInv, HostTypes
<1>2. UNCHANGED <<board, wire, vm, svc, tx, resets, watchdog, auto, poll, compare, skip, workers,
                  started, concluded, ending, spent>>
  BY DEF RxHartDone, RxAt, RxGoes, envVars, sendVars, threadVars, history
<1>3. /\ round'.ready = round.ready
      /\ round'.sent = round.sent
      /\ round'.dones = IF auto.round # 0 THEN round.dones \cup {rx.frame.hart} ELSE round.dones
      /\ round'.over = round.over
      /\ round'.comparing = round.comparing
      /\ round'.status = round.status
      /\ round'.closed = round.closed
      /\ round'.log = round.log
  BY <1>1 DEF RxHartDone, RxAt, RxGoes, Rounds
<1>4. /\ rx'.pc = "compare"
      /\ rx'.frame = rx.frame
  BY <1>1 DEF RxHartDone, RxAt, RxGoes, Receptions
<1>5. /\ rx.pc = "done" /\ rx.frame.kind = "HART_DONE"
      /\ auto.round = 0 => round' = round
  BY DEF RxHartDone, RxAt, RxGoes, HostInv, RxKinds
<1>6. round' \in Rounds
  BY <1>1 DEF RxHartDone, RxAt, RxGoes, Rounds, Receptions, Frames
<1>7. rx' \in Receptions
  BY <1>1 DEF RxHartDone, RxAt, RxGoes, Receptions, RxStates
<1>8. HostTypes'
  BY <1>6, <1>7, <1>2 DEF HostInv, HostTypes
<1>9. JobFits'
  BY <1>2 DEF HostInv, JobFits, NoJob
<1>10. RxKinds'
  BY <1>3, <1>4, <1>5, <1>2 DEF HostInv, RxKinds, StatusKind, LogKind
<1>11. Numbered'
  BY <1>3, <1>4, <1>5, <1>2 DEF HostInv, Numbered
<1>12. Caused'
  BY <1>3, <1>4, <1>5, <1>2 DEF HostInv, Caused, Waiting, Faulted
<1>13. CompareHolds'
  BY <1>3, <1>4, <1>5, <1>2 DEF HostInv, CompareHolds
<1>14. Enabled'
  <2> SUFFICES ASSUME auto'.enabled
               PROVE  PreinitLast' /\ ResetPath' /\ Discarding' /\ Announced' /\ Checking'
    BY DEF Enabled
  <2>1. auto.enabled
    BY <1>3, <1>4, <1>5, <1>2
  <2>2. PreinitLast'
    BY <2>1, <1>2 DEF HostInv, Enabled, PreinitLast, LastBut
  <2>3. ResetPath'
    BY <2>1, <1>3, <1>4, <1>5, <1>2 DEF HostInv, Enabled, ResetPath, Resetting, Released,
       NotBegun, Waiting
  <2>4. Discarding'
    BY <2>1, <1>3, <1>4, <1>5, <1>2 DEF HostInv, Enabled, Discarding, FreshRound
  <2>5. Announced'
    BY <2>1, <1>3, <1>4, <1>5, <1>2 DEF HostInv, Enabled, Announced, Waiting, OnlyErrors, Settled,
       Released, NotBegun
  <2>6. Checking'
    BY <2>1, <1>3, <1>4, <1>5, <1>2 DEF HostInv, Enabled, Checking, OnlyErrors, Waiting, Faulted
  <2> QED
    BY <2>2, <2>3, <2>4, <2>5, <2>6
<1>15. Epoch'
  <2> SUFFICES ASSUME auto'.enabled, ~auto'.skipping
               PROVE  WireOrder' /\ NotYet' /\ AtGrant' /\ OwnLog' /\ Captured' /\ Reported' /\
                  Ending'
    BY DEF Epoch
  <2>1. auto.enabled /\ ~auto.skipping
    BY <1>3, <1>4, <1>5, <1>2
  <2>2. WireOrder'
    BY <2>1, <1>2 DEF HostInv, Epoch, WireOrder, LastBut
  <2>3. NotYet'
    BY <2>1, <1>3, <1>4, <1>5, <1>2 DEF HostInv, Epoch, NotYet, Waiting
  <2>4. AtGrant'
    BY <2>1, <1>3, <1>4, <1>5, <1>2 DEF HostInv, Epoch, AtGrant, Granted, OnlyErrors, Waiting,
       Faulted
  <2>5. OwnLog'
    BY <2>1, <1>3, <1>4, <1>5, <1>2 DEF HostInv, Epoch, OwnLog, LogAbout, Waiting, OnlyErrors,
       LogKinds, LogKind
  <2>6. Captured'
    BY <2>1, <1>3, <1>4, <1>5, <1>2 DEF HostInv, Epoch, Captured, LogKind, OwnLog, LogAbout,
       LogKinds, LogOf, Frame
  <2>7. Reported'
    BY <2>1, <1>3, <1>4, <1>5, <1>2 DEF HostInv, Epoch, Reported, Reached, Far
  <2>8. Ending'
    BY <2>1, <1>3, <1>4, <1>5, <1>2 DEF HostInv, Epoch, Ending, OnlyErrors, Waiting
  <2> QED
    BY <2>2, <2>3, <2>4, <2>5, <2>6, <2>7, <2>8
<1> QED
  BY <1>8, <1>9, <1>10, <1>11, <1>12, <1>13, <1>14, <1>15 DEF HostInv

(* A comparison begun here finds the whole log.                              *)
LEMMA RxMaybeComparesKeeps == ASSUME HostInv, RxMaybeCompares PROVE HostInv'
<1>1. /\ auto \in Controllers
      /\ round \in Rounds
      /\ rx \in Receptions
      /\ compare \in Comparisons
  BY DEF HostInv, HostTypes
<1>2. UNCHANGED <<board, wire, vm, svc, tx, resets, watchdog, auto, poll, skip, workers, started,
                  concluded, ending, spent>>
  BY DEF RxMaybeCompares, RxAt, RxGoes, MaybeCompare, envVars, sendVars, threadVars, history
<1>3. /\ round'.ready = round.ready
      /\ round'.sent = round.sent
      /\ round'.dones = round.dones
      /\ round'.over = round.over
      /\ round'.comparing = (round.comparing \/ MayCompare)
      /\ round'.status = round.status
      /\ round'.closed = (round.closed \/ MayCompare)
      /\ round'.log = round.log
  BY <1>1 DEF RxMaybeCompares, RxAt, RxGoes, MaybeCompare, Rounds
<1>4. /\ rx'.pc = "idle"
      /\ rx'.frame.kind = "NONE"
  BY <1>1, RestingTyped DEF RxMaybeCompares, RxAt, RxGoes, MaybeCompare, Receptions
<1>5. /\ compare'.pc = IF MayCompare THEN "compare" ELSE compare.pc
      /\ compare'.of = IF MayCompare THEN auto.round ELSE compare.of
  BY <1>1 DEF RxMaybeCompares, RxAt, RxGoes, MaybeCompare, Comparisons
<1>6. /\ ~MayCompare => round' = round
      /\ rx.pc = "compare"
  BY DEF RxMaybeCompares, RxAt, RxGoes, MaybeCompare
<1>7. round' \in Rounds
  BY <1>1 DEF RxMaybeCompares, RxAt, RxGoes, MaybeCompare, Rounds
<1>8. rx' \in Receptions
  BY <1>1, RestingTyped DEF RxMaybeCompares, RxAt, RxGoes, MaybeCompare, Receptions, RxStates
<1>9. compare' \in Comparisons
  BY <1>1 DEF RxMaybeCompares, RxAt, RxGoes, MaybeCompare, Comparisons, Controllers
<1>10. HostTypes'
  BY <1>7, <1>8, <1>9, <1>2 DEF HostInv, HostTypes
<1>11. JobFits'
  BY <1>2 DEF HostInv, JobFits, NoJob
<1>12. RxKinds'
  BY <1>3, <1>4, <1>5, <1>6, <1>2 DEF HostInv, RxKinds, StatusKind, LogKind
<1>13. Numbered'
  BY <1>3, <1>4, <1>5, <1>6, <1>2 DEF HostInv, Numbered, MayCompare
<1>14. Caused'
  BY <1>3, <1>4, <1>5, <1>6, <1>2 DEF HostInv, Caused, Waiting, Faulted
<1>15. CompareHolds'
  BY <1>3, <1>4, <1>5, <1>6, <1>2, CompareStarts DEF HostInv, CompareHolds
<1>16. Enabled'
  <2> SUFFICES ASSUME auto'.enabled
               PROVE  PreinitLast' /\ ResetPath' /\ Discarding' /\ Announced' /\ Checking'
    BY DEF Enabled
  <2>1. auto.enabled
    BY <1>3, <1>4, <1>5, <1>6, <1>2
  <2>2. PreinitLast'
    BY <2>1, <1>2 DEF HostInv, Enabled, PreinitLast, LastBut
  <2>3. ResetPath'
    BY <2>1, <1>3, <1>4, <1>5, <1>6, <1>2 DEF HostInv, Enabled, ResetPath, Resetting, Released,
       NotBegun, Waiting, MayCompare
  <2>4. Discarding'
    BY <2>1, <1>3, <1>4, <1>5, <1>6, <1>2 DEF HostInv, Enabled, Discarding, FreshRound, MayCompare
  <2>5. Announced'
    BY <2>1, <1>3, <1>4, <1>5, <1>6, <1>2 DEF HostInv, Enabled, Announced, Waiting, OnlyErrors,
       Settled, Released, NotBegun, MayCompare
  <2>6. Checking'
    BY <2>1, <1>3, <1>4, <1>5, <1>6, <1>2 DEF HostInv, Enabled, Checking, OnlyErrors, Waiting,
       Faulted
  <2> QED
    BY <2>2, <2>3, <2>4, <2>5, <2>6
<1>17. Epoch'
  <2> SUFFICES ASSUME auto'.enabled, ~auto'.skipping
               PROVE  WireOrder' /\ NotYet' /\ AtGrant' /\ OwnLog' /\ Captured' /\ Reported' /\
                  Ending'
    BY DEF Epoch
  <2>1. auto.enabled /\ ~auto.skipping
    BY <1>3, <1>4, <1>5, <1>6, <1>2
  <2>2. WireOrder'
    BY <2>1, <1>2 DEF HostInv, Epoch, WireOrder, LastBut
  <2>3. NotYet'
    BY <2>1, <1>3, <1>4, <1>5, <1>6, <1>2 DEF HostInv, Epoch, NotYet, Waiting
  <2>4. AtGrant'
    BY <2>1, <1>3, <1>4, <1>5, <1>6, <1>2 DEF HostInv, Epoch, AtGrant, Granted, OnlyErrors,
       Waiting, Faulted
  <2>5. OwnLog'
    BY <2>1, <1>3, <1>4, <1>5, <1>6, <1>2 DEF HostInv, Epoch, OwnLog, LogAbout, Waiting,
       OnlyErrors, LogKinds, LogKind
  <2>6. Captured'
    BY <2>1, <1>3, <1>4, <1>5, <1>6, <1>2 DEF HostInv, Epoch, Captured, LogKind, MayCompare
  <2>7. Reported'
    BY <2>1, <1>3, <1>4, <1>5, <1>6, <1>2 DEF HostInv, Epoch, Reported, Reached, Far
  <2>8. Ending'
    BY <2>1, <1>3, <1>4, <1>5, <1>6, <1>2 DEF HostInv, Epoch, Ending, OnlyErrors, Waiting,
       MayCompare, Captured
  <2> QED
    BY <2>2, <2>3, <2>4, <2>5, <2>6, <2>7, <2>8
<1> QED
  BY <1>10, <1>11, <1>12, <1>13, <1>14, <1>15, <1>16, <1>17 DEF HostInv

(* A loss is taken over by the session, so that no comparison follows.       *)
LEMMA RxLossKeeps == ASSUME HostInv, RxLoss PROVE HostInv'
<1>1. /\ auto \in Controllers
      /\ round \in Rounds
      /\ rx \in Receptions
      /\ skip \in [Threads -> Discards]
  BY DEF HostInv, HostTypes
<1>2. UNCHANGED <<board, wire, vm, svc, tx, resets, watchdog, auto, poll, compare, workers,
                  started, concluded, ending, spent>>
  BY DEF RxLoss, RxAt, RxGoes, envVars, sendVars, threadVars, history
<1>3. /\ round'.ready = round.ready
      /\ round'.sent = round.sent
      /\ round'.dones = round.dones
      /\ round'.over = round.over
      /\ round'.comparing = (round.comparing \/ (auto.enabled /\ auto.round # 0 /\ ~auto.skipping))
      /\ round'.status = round.status
      /\ round'.closed = round.closed
      /\ round'.log = round.log
  BY <1>1 DEF RxLoss, RxAt, RxGoes, Rounds
<1>4. \/ rx'.pc = "idle" /\ rx'.frame.kind = "NONE" /\ ~(auto.enabled /\ auto.round # 0 /\
         ~auto.skipping)
      \/ rx'.pc = "manual" /\ rx'.frame = rx.frame /\ ~(auto.enabled /\ auto.round # 0 /\
         ~auto.skipping) /\ rx.frame.kind \in LogKind
      \/ rx'.pc = "discard" /\ rx'.frame = rx.frame /\ auto.enabled /\ auto.round # 0 /\
         ~auto.skipping
  BY <1>1, RestingTyped DEF HostInv, RxKinds, RxLoss, RxGoes, RxAt, Receptions
<1>5. /\ \A t \in Threads : t # "rx" => skip'[t] = skip[t]
      /\ skip'["rx"].pc = IF auto.enabled /\ auto.round # 0 /\ ~auto.skipping THEN "save" ELSE
                          skip["rx"].pc
      /\ skip'["rx"].of = IF auto.enabled /\ auto.round # 0 /\ ~auto.skipping THEN auto.round ELSE
                          skip["rx"].of
  BY <1>1 DEF RxLoss, Threads
<1>6. /\ rx.pc = "loss" /\ rx.frame.kind \in LogKind \cup {"EXE_END"}
      /\ ~(auto.enabled /\ auto.round # 0 /\ ~auto.skipping) => round' = round
  BY DEF RxLoss, RxAt, RxGoes, HostInv, RxKinds
<1>7. round' \in Rounds
  BY <1>1 DEF RxLoss, RxAt, RxGoes, Rounds
<1>8. rx' \in Receptions
  BY <1>1, RestingTyped DEF RxLoss, RxAt, RxGoes, Receptions, RxStates
<1>9. skip' \in [Threads -> Discards]
  BY <1>1 DEF RxLoss, RxAt, RxGoes, Discards, Threads, Controllers
<1>10. HostTypes'
  BY <1>7, <1>8, <1>9, <1>2 DEF HostInv, HostTypes
<1>11. JobFits'
  BY <1>2 DEF HostInv, JobFits, NoJob
<1>12. RxKinds'
  BY <1>3, <1>4, <1>5, <1>6, <1>2 DEF HostInv, RxKinds, StatusKind, LogKind
<1>13. Numbered'
  BY <1>3, <1>4, <1>5, <1>6, <1>2 DEF HostInv, Numbered, Threads
<1>14. Caused'
  BY <1>3, <1>4, <1>5, <1>6, <1>2 DEF HostInv, Caused, Waiting, Faulted
<1>15. CompareHolds'
  BY <1>3, <1>4, <1>5, <1>6, <1>2 DEF HostInv, CompareHolds, Epoch, Ending, Enabled, Discarding,
     Threads
<1>16. Enabled'
  <2> SUFFICES ASSUME auto'.enabled
               PROVE  PreinitLast' /\ ResetPath' /\ Discarding' /\ Announced' /\ Checking'
    BY DEF Enabled
  <2>1. auto.enabled
    BY <1>3, <1>4, <1>5, <1>6, <1>2
  <2>2. PreinitLast'
    BY <2>1, <1>2 DEF HostInv, Enabled, PreinitLast, LastBut
  <2>3. ResetPath'
    BY <2>1, <1>3, <1>4, <1>5, <1>6, <1>2 DEF HostInv, Enabled, ResetPath, Resetting, Released,
       NotBegun, Waiting, Threads, Numbered
  <2>4. Discarding'
    BY <2>1, <1>3, <1>4, <1>5, <1>6, <1>2 DEF HostInv, Enabled, Discarding, FreshRound, Epoch,
       OwnLog, LogAbout, LogKinds
  <2>5. Announced'
    BY <2>1, <1>3, <1>4, <1>5, <1>6, <1>2 DEF HostInv, Enabled, Announced, Waiting, OnlyErrors,
       Settled, Released, NotBegun, LogKind
  <2>6. Checking'
    BY <2>1, <1>3, <1>4, <1>5, <1>6, <1>2 DEF HostInv, Enabled, Checking, OnlyErrors, Waiting,
       Faulted, LogKind
  <2> QED
    BY <2>2, <2>3, <2>4, <2>5, <2>6
<1>17. Epoch'
  <2> SUFFICES ASSUME auto'.enabled, ~auto'.skipping
               PROVE  WireOrder' /\ NotYet' /\ AtGrant' /\ OwnLog' /\ Captured' /\ Reported' /\
                  Ending'
    BY DEF Epoch
  <2>1. auto.enabled /\ ~auto.skipping
    BY <1>3, <1>4, <1>5, <1>6, <1>2
  <2>2. WireOrder'
    BY <2>1, <1>2 DEF HostInv, Epoch, WireOrder, LastBut
  <2>3. NotYet'
    BY <2>1, <1>3, <1>4, <1>5, <1>6, <1>2 DEF HostInv, Epoch, NotYet, Waiting
  <2>4. AtGrant'
    BY <2>1, <1>3, <1>4, <1>5, <1>6, <1>2 DEF HostInv, Epoch, AtGrant, Granted, OnlyErrors,
       Waiting, Faulted, LogKind
  <2>5. OwnLog'
    BY <2>1, <1>3, <1>4, <1>5, <1>6, <1>2 DEF HostInv, Epoch, OwnLog, LogAbout, Waiting,
       OnlyErrors, LogKinds, LogKind
  <2>6. Captured'
    BY <2>1, <1>3, <1>4, <1>5, <1>6, <1>2 DEF HostInv, Epoch, Captured, LogKind, OwnLog, LogAbout,
       LogKinds, Threads, Enabled, Discarding, FreshRound
  <2>7. Reported'
    BY <2>1, <1>3, <1>4, <1>5, <1>6, <1>2 DEF HostInv, Epoch, Reported, Reached, Far
  <2>8. Ending'
    <3>1. CASE auto.enabled /\ auto.round # 0 /\ ~auto.skipping
      BY <2>1, <1>3, <1>4, <1>5, <1>6, <1>2, <3>1 DEF HostInv, Epoch, Ending, OnlyErrors, Waiting,
         Threads, OwnLog, LogAbout, LogKinds, Numbered, LogKind, CompareHolds
    <3>2. CASE ~(auto.enabled /\ auto.round # 0 /\ ~auto.skipping)
      BY <2>1, <1>3, <1>4, <1>5, <1>6, <1>2, <3>2 DEF HostInv, Epoch, Ending, OnlyErrors, Waiting,
         Threads, Enabled, Discarding, FreshRound, LogKind, NoJob, Numbered, CompareHolds
    <3> QED
      BY <2>1, <1>3, <1>4, <1>5, <1>6, <1>2, <3>1, <3>2 DEF HostInv, Epoch, Ending, OnlyErrors,
         Waiting, Threads
  <2> QED
    BY <2>2, <2>3, <2>4, <2>5, <2>6, <2>7, <2>8
<1> QED
  BY <1>10, <1>11, <1>12, <1>13, <1>14, <1>15, <1>16, <1>17 DEF HostInv

(* The RX thread is back from discarding the round.                          *)
LEMMA RxDiscardedKeeps == ASSUME HostInv, RxDiscarded PROVE HostInv'
<1>1. /\ svc \in Services
      /\ rx \in Receptions
  BY DEF HostInv, HostTypes
<1>2. UNCHANGED <<board, wire, vm, tx, resets, watchdog, auto, round, poll, compare, skip,
                  workers, started, concluded, ending, spent>>
  BY DEF RxDiscarded, RxAt, RxGoes, envVars, sendVars, threadVars, history
<1>3. /\ svc'.board = svc.board
      /\ svc'.allowed = svc.allowed
      /\ svc'.seen = svc.seen
  BY <1>1 DEF RxDiscarded, RxAt, RxGoes, Services
<1>4. /\ rx'.pc = "idle"
      /\ rx'.frame.kind = "NONE"
  BY <1>1, RestingTyped DEF RxDiscarded, RxAt, RxGoes, Receptions
<1>5. rx.pc = "discard" /\ skip["rx"].pc = "idle"
  BY DEF RxDiscarded, RxAt, RxGoes
<1>6. svc' \in Services
  BY <1>1 DEF RxDiscarded, RxAt, RxGoes, Services
<1>7. rx' \in Receptions
  BY <1>1, RestingTyped DEF RxDiscarded, RxAt, RxGoes, Receptions, RxStates
<1>8. HostTypes'
  BY <1>6, <1>7, <1>2 DEF HostInv, HostTypes
<1>9. JobFits' /\ CompareHolds'
  BY <1>2 DEF HostInv, JobFits, NoJob, CompareHolds
<1>10. RxKinds'
  BY <1>3, <1>4, <1>5, <1>2 DEF HostInv, RxKinds, StatusKind, LogKind
<1>11. Numbered'
  BY <1>3, <1>4, <1>5, <1>2 DEF HostInv, Numbered
<1>12. Caused'
  BY <1>3, <1>4, <1>5, <1>2 DEF HostInv, Caused, Waiting, Faulted
<1>13. Enabled'
  <2> SUFFICES ASSUME auto'.enabled
               PROVE  PreinitLast' /\ ResetPath' /\ Discarding' /\ Announced' /\ Checking'
    BY DEF Enabled
  <2>1. auto.enabled
    BY <1>3, <1>4, <1>5, <1>2
  <2>2. PreinitLast'
    BY <2>1, <1>2 DEF HostInv, Enabled, PreinitLast, LastBut
  <2>3. ResetPath'
    BY <2>1, <1>3, <1>4, <1>5, <1>2 DEF HostInv, Enabled, ResetPath, Resetting, Released,
       NotBegun, Waiting
  <2>4. Discarding'
    BY <2>1, <1>3, <1>4, <1>5, <1>2 DEF HostInv, Enabled, Discarding, FreshRound
  <2>5. Announced'
    BY <2>1, <1>3, <1>4, <1>5, <1>2 DEF HostInv, Enabled, Announced, Waiting, OnlyErrors, Settled,
       Released, NotBegun
  <2>6. Checking'
    BY <2>1, <1>3, <1>4, <1>5, <1>2 DEF HostInv, Enabled, Checking, OnlyErrors, Waiting, Faulted
  <2> QED
    BY <2>2, <2>3, <2>4, <2>5, <2>6
<1>14. Epoch'
  <2> SUFFICES ASSUME auto'.enabled, ~auto'.skipping
               PROVE  WireOrder' /\ NotYet' /\ AtGrant' /\ OwnLog' /\ Captured' /\ Reported' /\
                  Ending'
    BY DEF Epoch
  <2>1. auto.enabled /\ ~auto.skipping
    BY <1>3, <1>4, <1>5, <1>2
  <2>2. WireOrder' /\ Reported'
    BY <2>1, <1>2 DEF HostInv, Epoch, WireOrder, LastBut, Reported, Reached, Far
  <2>3. NotYet'
    BY <2>1, <1>3, <1>4, <1>5, <1>2 DEF HostInv, Epoch, NotYet, Waiting
  <2>4. AtGrant'
    BY <2>1, <1>3, <1>4, <1>5, <1>2 DEF HostInv, Epoch, AtGrant, Granted, OnlyErrors, Waiting,
       Faulted
  <2>5. OwnLog'
    BY <2>1, <1>3, <1>4, <1>5, <1>2 DEF HostInv, Epoch, OwnLog, LogAbout, Waiting, OnlyErrors,
       LogKinds, LogKind
  <2>6. Captured'
    BY <2>1, <1>3, <1>4, <1>5, <1>2 DEF HostInv, Epoch, Captured, LogKind
  <2>7. Ending'
    BY <2>1, <1>3, <1>4, <1>5, <1>2 DEF HostInv, Epoch, Ending, OnlyErrors, Waiting
  <2> QED
    BY <2>2, <2>3, <2>4, <2>5, <2>6, <2>7
<1> QED
  BY <1>8, <1>9, <1>10, <1>11, <1>12, <1>13, <1>14 DEF HostInv

(* A loss outside the session is the service's own.                          *)
LEMMA RxManualKeeps == ASSUME HostInv, RxManual PROVE HostInv'
<1>1. /\ svc \in Services
      /\ rx \in Receptions
  BY DEF HostInv, HostTypes
<1>2. UNCHANGED <<board, wire, vm, tx, resets, watchdog, auto, round, poll, compare, skip,
                  workers, started, concluded, ending, spent>>
  BY DEF RxManual, RxAt, RxGoes, envVars, sendVars, threadVars, history
<1>3. /\ svc'.board = svc.board
      /\ svc'.allowed = svc.allowed
      /\ svc'.seen = svc.seen
  BY <1>1 DEF RxManual, RxAt, RxGoes, Services
<1>4. \/ rx'.pc = "idle" /\ rx'.frame.kind = "NONE"
      \/ rx'.pc = "stop" /\ rx'.frame = rx.frame
  BY <1>1, RestingTyped DEF RxManual, RxGoes, RxAt, Receptions
<1>5. rx.pc = "manual"
  BY DEF RxManual, RxAt, RxGoes
<1>6. svc' \in Services
  BY <1>1 DEF RxManual, RxAt, RxGoes, Services
<1>7. rx' \in Receptions
  BY <1>1, RestingTyped DEF RxManual, RxAt, RxGoes, Receptions, RxStates
<1>8. HostTypes'
  BY <1>6, <1>7, <1>2 DEF HostInv, HostTypes
<1>9. JobFits' /\ CompareHolds'
  BY <1>2 DEF HostInv, JobFits, NoJob, CompareHolds
<1>10. RxKinds'
  BY <1>3, <1>4, <1>5, <1>2 DEF HostInv, RxKinds, StatusKind, LogKind
<1>11. Numbered'
  BY <1>3, <1>4, <1>5, <1>2 DEF HostInv, Numbered
<1>12. Caused'
  BY <1>3, <1>4, <1>5, <1>2 DEF HostInv, Caused, Waiting, Faulted
<1>13. Enabled'
  <2> SUFFICES ASSUME auto'.enabled
               PROVE  PreinitLast' /\ ResetPath' /\ Discarding' /\ Announced' /\ Checking'
    BY DEF Enabled
  <2>1. auto.enabled
    BY <1>3, <1>4, <1>5, <1>2
  <2>2. PreinitLast'
    BY <2>1, <1>2 DEF HostInv, Enabled, PreinitLast, LastBut
  <2>3. ResetPath'
    BY <2>1, <1>3, <1>4, <1>5, <1>2 DEF HostInv, Enabled, ResetPath, Resetting, Released,
       NotBegun, Waiting
  <2>4. Discarding'
    BY <2>1, <1>3, <1>4, <1>5, <1>2 DEF HostInv, Enabled, Discarding, FreshRound
  <2>5. Announced'
    BY <2>1, <1>3, <1>4, <1>5, <1>2 DEF HostInv, Enabled, Announced, Waiting, OnlyErrors, Settled,
       Released, NotBegun
  <2>6. Checking'
    BY <2>1, <1>3, <1>4, <1>5, <1>2 DEF HostInv, Enabled, Checking, OnlyErrors, Waiting, Faulted
  <2> QED
    BY <2>2, <2>3, <2>4, <2>5, <2>6
<1>14. Epoch'
  <2> SUFFICES ASSUME auto'.enabled, ~auto'.skipping
               PROVE  WireOrder' /\ NotYet' /\ AtGrant' /\ OwnLog' /\ Captured' /\ Reported' /\
                  Ending'
    BY DEF Epoch
  <2>1. auto.enabled /\ ~auto.skipping
    BY <1>3, <1>4, <1>5, <1>2
  <2>2. WireOrder' /\ Reported'
    BY <2>1, <1>2 DEF HostInv, Epoch, WireOrder, LastBut, Reported, Reached, Far
  <2>3. NotYet'
    BY <2>1, <1>3, <1>4, <1>5, <1>2 DEF HostInv, Epoch, NotYet, Waiting
  <2>4. AtGrant'
    BY <2>1, <1>3, <1>4, <1>5, <1>2 DEF HostInv, Epoch, AtGrant, Granted, OnlyErrors, Waiting,
       Faulted
  <2>5. OwnLog'
    BY <2>1, <1>3, <1>4, <1>5, <1>2 DEF HostInv, Epoch, OwnLog, LogAbout, Waiting, OnlyErrors,
       LogKinds, LogKind
  <2>6. Captured'
    BY <2>1, <1>3, <1>4, <1>5, <1>2 DEF HostInv, Epoch, Captured, LogKind
  <2>7. Ending'
    BY <2>1, <1>3, <1>4, <1>5, <1>2 DEF HostInv, Epoch, Ending, OnlyErrors, Waiting
  <2> QED
    BY <2>2, <2>3, <2>4, <2>5, <2>6, <2>7
<1> QED
  BY <1>8, <1>9, <1>10, <1>11, <1>12, <1>13, <1>14 DEF HostInv

(* A loss the session does not own ends it.                                  *)
LEMMA RxStopsKeeps == ASSUME HostInv, RxStops PROVE HostInv'
<1>1. /\ auto \in Controllers
      /\ round \in Rounds
      /\ rx \in Receptions
      /\ ending \in {"none", "failed", "missing", "discard", "operator"}
  BY DEF HostInv, HostTypes
<1>2. UNCHANGED <<board, wire, vm, svc, tx, resets, watchdog, poll, compare, skip, workers,
                  started, concluded, spent>>
  BY DEF RxStops, RxAt, RxGoes, Ended, envVars, sendVars, threadVars, history
<1>3. auto'.enabled = FALSE /\ auto'.round = auto.round
  BY <1>1 DEF RxStops, Ended, Controllers
<1>4. /\ round'.ready = round.ready
      /\ round'.sent = round.sent
      /\ round'.dones = round.dones
      /\ round'.over = round.over
      /\ round'.comparing = round.comparing
      /\ round'.status = round.status
      /\ round'.closed = (round.closed \/ auto.enabled)
      /\ round'.log = round.log
  BY <1>1 DEF RxStops, RxAt, RxGoes, Ended, Rounds
<1>5. /\ rx'.pc = "reset"
      /\ rx'.frame = rx.frame
  BY <1>1 DEF RxStops, RxAt, RxGoes, Ended, Receptions
<1>6. ending' \in {"discard", ending}
  BY <1>1 DEF RxStops, Ended
<1>7. rx.pc = "stop"
  BY DEF RxStops, RxAt, RxGoes, Ended
<1>8. auto' \in Controllers
  BY <1>1 DEF RxStops, RxAt, RxGoes, Ended, Controllers
<1>9. round' \in Rounds
  BY <1>1 DEF RxStops, RxAt, RxGoes, Ended, Rounds
<1>10. rx' \in Receptions
  BY <1>1 DEF RxStops, RxAt, RxGoes, Ended, Receptions, RxStates
<1>11. ending' \in {"none", "failed", "missing", "discard", "operator"}
  BY <1>1 DEF RxStops, RxAt, RxGoes, Ended
<1>12. HostTypes'
  BY <1>8, <1>9, <1>10, <1>11, <1>2 DEF HostInv, HostTypes
<1>13. RxKinds'
  BY <1>3, <1>4, <1>5, <1>6, <1>7, <1>2 DEF HostInv, RxKinds, StatusKind, LogKind
<1>14. Numbered'
  BY <1>3, <1>4, <1>5, <1>6, <1>7, <1>2 DEF HostInv, Numbered
<1>15. JobFits'
  BY <1>3, <1>4, <1>5, <1>6, <1>7, <1>2 DEF HostInv, JobFits, NoJob
<1>16. Caused'
  BY <1>3, <1>4, <1>5, <1>6, <1>7, <1>2 DEF HostInv, Caused, Waiting, Faulted
<1>17. CompareHolds'
  BY <1>3, <1>4, <1>5, <1>6, <1>7, <1>2 DEF HostInv, CompareHolds
<1>18. Enabled'
  BY <1>3, <1>4, <1>5, <1>6, <1>7, <1>2 DEF Enabled
<1>19. Epoch'
  BY <1>3, <1>4, <1>5, <1>6, <1>7, <1>2 DEF Epoch
<1> QED
  BY <1>12, <1>13, <1>14, <1>15, <1>16, <1>17, <1>18, <1>19 DEF HostInv

(* The board is reset only after the session has ended.                      *)
LEMMA RxResetsKeeps == ASSUME HostInv, RxResets PROVE HostInv'
<1>1. /\ svc \in Services
      /\ tx \in Transfers
      /\ resets \in Seq(Nat)
      /\ rx \in Receptions
  BY DEF HostInv, HostTypes
<1>2. UNCHANGED <<board, wire, vm, watchdog, auto, round, poll, compare, skip, workers, started,
                  concluded, ending, spent>>
  BY DEF RxResets, RxAt, RxGoes, SendBoardReset, envVars, sendVars, threadVars, history
<1>3. /\ svc'.board = "RESETTING"
      /\ svc'.allowed = svc.allowed
      /\ svc'.seen = svc.seen
  BY <1>1 DEF RxResets, RxAt, RxGoes, SendBoardReset, Services
<1>4. /\ tx'.by = tx.by
      /\ tx'.of = tx.of
  BY <1>1 DEF RxResets, RxAt, RxGoes, SendBoardReset, Transfers
<1>5. ~auto.enabled
  BY <1>1 DEF HostInv, Enabled, Discarding, RxResets, RxAt
<1>6. /\ rx'.pc = "idle"
      /\ rx'.frame.kind = "NONE"
  BY <1>1, RestingTyped DEF RxResets, RxAt, RxGoes, SendBoardReset, Receptions
<1>7. rx.pc = "reset"
  BY DEF RxResets, RxAt, RxGoes, SendBoardReset
<1>8. svc' \in Services
  BY <1>1 DEF RxResets, RxAt, RxGoes, SendBoardReset, Services
<1>9. tx' \in Transfers
  BY <1>1 DEF RxResets, RxAt, RxGoes, SendBoardReset, Transfers
<1>10. resets' \in Seq(Nat)
  BY <1>1 DEF RxResets, RxAt, RxGoes, SendBoardReset
<1>11. rx' \in Receptions
  BY <1>1, RestingTyped DEF RxResets, RxAt, RxGoes, SendBoardReset, Receptions, RxStates
<1>12. HostTypes'
  BY <1>8, <1>9, <1>10, <1>11, <1>2 DEF HostInv, HostTypes
<1>13. JobFits' /\ CompareHolds'
  BY <1>2 DEF HostInv, JobFits, NoJob, CompareHolds
<1>14. RxKinds'
  BY <1>3, <1>4, <1>5, <1>6, <1>7, <1>2 DEF HostInv, RxKinds, StatusKind, LogKind
<1>15. Numbered'
  BY <1>3, <1>4, <1>5, <1>6, <1>7, <1>2 DEF HostInv, Numbered
<1>16. Caused'
  BY <1>3, <1>4, <1>5, <1>6, <1>7, <1>2 DEF HostInv, Caused, Waiting, Faulted
<1>17. Enabled'
  BY <1>3, <1>4, <1>5, <1>6, <1>7, <1>2 DEF Enabled
<1>18. Epoch'
  BY <1>3, <1>4, <1>5, <1>6, <1>7, <1>2 DEF Epoch
<1> QED
  BY <1>12, <1>13, <1>14, <1>15, <1>16, <1>17, <1>18 DEF HostInv

(* The job is read for the round that is current now.                        *)
LEMMA PollReadsKeeps == ASSUME HostInv, PollReads PROVE HostInv'
<1>1. /\ vm \in Jobs
      /\ auto \in Controllers
      /\ poll \in Polls
  BY DEF HostInv, HostTypes
<1>2. UNCHANGED <<board, wire, vm, svc, tx, resets, watchdog, auto, round, rx, compare, skip,
                  workers, started, concluded, ending, spent>>
  BY DEF PollReads, envVars, sendVars, threadVars, history
<1>3. /\ poll'.pc = "store"
      /\ poll'.of = auto.round
      /\ poll'.status = vm
  BY <1>1 DEF PollReads, Polls
<1>4. poll.pc = "idle" /\ auto.enabled /\ auto.round # 0 /\ vm # NoJob
  BY DEF PollReads
<1>5. poll' \in Polls
  BY <1>1 DEF PollReads, Polls, Controllers
<1>6. HostTypes'
  BY <1>5, <1>2 DEF HostInv, HostTypes
<1>7. RxKinds' /\ JobFits' /\ Caused' /\ CompareHolds'
  BY <1>2 DEF HostInv, RxKinds, StatusKind, LogKind, JobFits, NoJob, Caused, Waiting, Faulted,
     CompareHolds
<1>8. Numbered'
  BY <1>3, <1>4, <1>2 DEF HostInv, Numbered, Threads
<1>9. Enabled'
  <2> SUFFICES ASSUME auto'.enabled
               PROVE  PreinitLast' /\ ResetPath' /\ Discarding' /\ Announced' /\ Checking'
    BY DEF Enabled
  <2>1. auto.enabled
    BY <1>3, <1>4, <1>2
  <2>2. PreinitLast' /\ ResetPath' /\ Discarding' /\ Announced' /\ Checking'
    BY <2>1, <1>2 DEF HostInv, Enabled, PreinitLast, LastBut, ResetPath, Resetting, Released,
       NotBegun, Waiting, Discarding, FreshRound, Announced, OnlyErrors, Settled, Checking,
       Faulted
  <2> QED
    BY <2>2
<1>10. Epoch'
  <2> SUFFICES ASSUME auto'.enabled, ~auto'.skipping
               PROVE  WireOrder' /\ NotYet' /\ AtGrant' /\ OwnLog' /\ Captured' /\ Reported' /\
                  Ending'
    BY DEF Epoch
  <2>1. auto.enabled /\ ~auto.skipping
    BY <1>3, <1>4, <1>2
  <2>2. WireOrder' /\ NotYet' /\ AtGrant' /\ OwnLog' /\ Captured' /\ Ending'
    BY <2>1, <1>2 DEF HostInv, Epoch, WireOrder, LastBut, NotYet, Waiting, AtGrant, Granted,
       OnlyErrors, Faulted, OwnLog, LogAbout, LogKinds, LogKind, Captured, Ending
  <2>3. Reported'
    BY <2>1, <1>3, <1>4, <1>2 DEF HostInv, Epoch, Reported, Reached, Far, JobFits
  <2> QED
    BY <2>2, <2>3
<1> QED
  BY <1>6, <1>7, <1>8, <1>9, <1>10 DEF HostInv

(* What was read is stored only if the round is still current.               *)
LEMMA PollStoresKeeps == ASSUME HostInv, PollStores PROVE HostInv'
<1>1. /\ round \in Rounds
      /\ poll \in Polls
  BY DEF HostInv, HostTypes
<1>2. UNCHANGED <<board, wire, vm, svc, tx, resets, watchdog, auto, rx, compare, skip, workers,
                  started, concluded, ending, spent>>
  BY DEF PollStores, PollGoes, envVars, sendVars, threadVars, history
<1>3. /\ round'.ready = round.ready
      /\ round'.sent = round.sent
      /\ round'.dones = round.dones
      /\ round'.over = round.over
      /\ round'.comparing = round.comparing
      /\ round'.status = IF auto.round = poll.of THEN poll.status ELSE round.status
      /\ round'.closed = round.closed
      /\ round'.log = round.log
  BY <1>1 DEF PollStores, PollGoes, Rounds
<1>4. /\ poll'.pc = IF auto.round = poll.of THEN (IF poll.status.failed THEN "skip" ELSE "send")
                    ELSE "idle"
      /\ auto.round = poll.of => poll'.of = poll.of
      /\ ~(auto.round = poll.of) => round' = round /\ poll'.of = 0
  BY <1>1 DEF PollStores, PollGoes, Polls
<1>5. poll.pc = "store"
  BY DEF PollStores, PollGoes
<1>6. round' \in Rounds
  BY <1>1 DEF PollStores, PollGoes, Rounds, Polls
<1>7. poll' \in Polls
  BY <1>1, PollRestsTyped DEF PollStores, PollGoes, Polls
<1>8. HostTypes'
  BY <1>6, <1>7, <1>2 DEF HostInv, HostTypes
<1>9. RxKinds' /\ JobFits' /\ Caused'
  BY <1>2 DEF HostInv, RxKinds, StatusKind, LogKind, JobFits, NoJob, Caused, Waiting, Faulted
<1>10. Numbered'
  BY <1>3, <1>4, <1>5, <1>2 DEF HostInv, Numbered, Threads, HostTypes, Polls
<1>11. CompareHolds'
  BY <1>3, <1>4, <1>5, <1>2 DEF HostInv, CompareHolds, Threads
<1>12. Enabled'
  <2> SUFFICES ASSUME auto'.enabled
               PROVE  PreinitLast' /\ ResetPath' /\ Discarding' /\ Announced' /\ Checking'
    BY DEF Enabled
  <2>1. auto.enabled
    BY <1>3, <1>4, <1>5, <1>2
  <2>2. PreinitLast' /\ ResetPath' /\ Announced' /\ Checking'
    BY <2>1, <1>2 DEF HostInv, Enabled, PreinitLast, LastBut, ResetPath, Resetting, Released,
       NotBegun, Waiting, Announced, OnlyErrors, Settled, Checking, Faulted
  <2>3. Discarding'
    BY <2>1, <1>3, <1>4, <1>5, <1>2 DEF HostInv, Enabled, Discarding, FreshRound, Numbered
  <2> QED
    BY <2>2, <2>3
<1>13. Epoch'
  <2> SUFFICES ASSUME auto'.enabled, ~auto'.skipping
               PROVE  WireOrder' /\ NotYet' /\ AtGrant' /\ OwnLog' /\ Captured' /\ Reported' /\
                  Ending'
    BY DEF Epoch
  <2>1. auto.enabled /\ ~auto.skipping
    BY <1>3, <1>4, <1>5, <1>2
  <2>2. WireOrder'
    BY <2>1, <1>2 DEF HostInv, Epoch, WireOrder, LastBut
  <2>3. NotYet'
    BY <2>1, <1>3, <1>4, <1>5, <1>2 DEF HostInv, Epoch, NotYet, Waiting
  <2>4. AtGrant'
    BY <2>1, <1>3, <1>4, <1>5, <1>2 DEF HostInv, Epoch, AtGrant, Granted, OnlyErrors, Waiting,
       Faulted
  <2>5. OwnLog'
    BY <2>1, <1>3, <1>4, <1>5, <1>2 DEF HostInv, Epoch, OwnLog, LogAbout, Waiting, OnlyErrors,
       LogKinds, LogKind
  <2>6. Captured'
    BY <2>1, <1>3, <1>4, <1>5, <1>2 DEF HostInv, Epoch, Captured, LogKind
  <2>7. Reported'
    BY <2>1, <1>3, <1>4, <1>5, <1>2 DEF HostInv, Epoch, Reported, Reached, Far
  <2>8. Ending'
    BY <2>1, <1>3, <1>4, <1>5, <1>2 DEF HostInv, Epoch, Ending, OnlyErrors, Waiting, Numbered,
       Threads, Reported
  <2> QED
    BY <2>2, <2>3, <2>4, <2>5, <2>6, <2>7, <2>8
<1> QED
  BY <1>8, <1>9, <1>10, <1>11, <1>12, <1>13 DEF HostInv

(* A failed job closes the capture before the round is discarded.            *)
LEMMA PollSkipsKeeps == ASSUME HostInv, PollSkips PROVE HostInv'
<1>1. /\ round \in Rounds
      /\ poll \in Polls
      /\ skip \in [Threads -> Discards]
  BY DEF HostInv, HostTypes
<1>2. UNCHANGED <<board, wire, vm, svc, tx, resets, watchdog, auto, rx, compare, workers, started,
                  concluded, ending, spent>>
  BY DEF PollSkips, PollGoes, envVars, sendVars, threadVars, history
<1>3. /\ round'.ready = round.ready
      /\ round'.sent = round.sent
      /\ round'.dones = round.dones
      /\ round'.over = round.over
      /\ round'.comparing = round.comparing
      /\ round'.status = round.status
      /\ round'.closed = (round.closed \/ (auto.enabled /\ auto.round = poll.of /\ ~auto.skipping))
      /\ round'.log = round.log
  BY <1>1 DEF PollSkips, PollGoes, Rounds
<1>4. /\ poll'.pc = IF auto.enabled /\ auto.round = poll.of /\ ~auto.skipping THEN "discard" ELSE
                    "idle"
      /\ auto.enabled /\ auto.round = poll.of /\ ~auto.skipping => poll'.of = poll.of
      /\ ~(auto.enabled /\ auto.round = poll.of /\ ~auto.skipping) => poll'.of = 0
  BY <1>1 DEF PollSkips, PollGoes, Polls
<1>5. /\ \A t \in Threads : t # "poll" => skip'[t] = skip[t]
      /\ skip'["poll"].pc = IF auto.enabled /\ auto.round = poll.of /\ ~auto.skipping THEN "save"
                            ELSE skip["poll"].pc
      /\ skip'["poll"].of = IF auto.enabled /\ auto.round = poll.of /\ ~auto.skipping THEN poll.of
                            ELSE skip["poll"].of
  BY <1>1 DEF PollSkips, Threads
<1>6. /\ poll.pc = "skip"
      /\ ~(auto.enabled /\ auto.round = poll.of /\ ~auto.skipping) => round' = round
  BY DEF PollSkips, PollGoes
<1>7. round' \in Rounds
  BY <1>1 DEF PollSkips, PollGoes, Rounds
<1>8. poll' \in Polls
  BY <1>1, PollRestsTyped DEF PollSkips, PollGoes, Polls
<1>9. skip' \in [Threads -> Discards]
  BY <1>1 DEF PollSkips, PollGoes, Discards, Threads, Polls
<1>10. HostTypes'
  BY <1>7, <1>8, <1>9, <1>2 DEF HostInv, HostTypes
<1>11. RxKinds' /\ JobFits' /\ Caused'
  BY <1>2 DEF HostInv, RxKinds, StatusKind, LogKind, JobFits, NoJob, Caused, Waiting, Faulted
<1>12. Numbered'
  BY <1>3, <1>4, <1>5, <1>6, <1>2 DEF HostInv, Numbered, Threads, HostTypes, Polls
<1>13. CompareHolds'
  BY <1>3, <1>4, <1>5, <1>6, <1>2 DEF HostInv, CompareHolds, Epoch, Reported, Ending, Threads
<1>14. Enabled'
  <2> SUFFICES ASSUME auto'.enabled
               PROVE  PreinitLast' /\ ResetPath' /\ Discarding' /\ Announced' /\ Checking'
    BY DEF Enabled
  <2>1. auto.enabled
    BY <1>3, <1>4, <1>5, <1>6, <1>2
  <2>2. PreinitLast' /\ Checking'
    BY <2>1, <1>2 DEF HostInv, Enabled, PreinitLast, LastBut, Checking, OnlyErrors, Waiting,
       Faulted
  <2>3. ResetPath'
    BY <2>1, <1>3, <1>4, <1>5, <1>6, <1>2 DEF HostInv, Enabled, ResetPath, Resetting, Released,
       NotBegun, Waiting, Threads, Numbered
  <2>4. Discarding'
    BY <2>1, <1>3, <1>4, <1>5, <1>6, <1>2 DEF HostInv, Enabled, Discarding, FreshRound, Numbered
  <2>5. Announced'
    BY <2>1, <1>3, <1>4, <1>5, <1>6, <1>2 DEF HostInv, Enabled, Announced, Waiting, OnlyErrors,
       Settled, Released, NotBegun, Threads, Numbered
  <2> QED
    BY <2>2, <2>3, <2>4, <2>5
<1>15. Epoch'
  <2> SUFFICES ASSUME auto'.enabled, ~auto'.skipping
               PROVE  WireOrder' /\ NotYet' /\ AtGrant' /\ OwnLog' /\ Captured' /\ Reported' /\
                  Ending'
    BY DEF Epoch
  <2>1. auto.enabled /\ ~auto.skipping
    BY <1>3, <1>4, <1>5, <1>6, <1>2
  <2>2. WireOrder'
    BY <2>1, <1>2 DEF HostInv, Epoch, WireOrder, LastBut
  <2>3. NotYet'
    BY <2>1, <1>3, <1>4, <1>5, <1>6, <1>2 DEF HostInv, Epoch, NotYet, Waiting
  <2>4. AtGrant'
    BY <2>1, <1>3, <1>4, <1>5, <1>6, <1>2 DEF HostInv, Epoch, AtGrant, Granted, OnlyErrors,
       Waiting, Faulted
  <2>5. OwnLog'
    BY <2>1, <1>3, <1>4, <1>5, <1>6, <1>2 DEF HostInv, Epoch, OwnLog, LogAbout, Waiting,
       OnlyErrors, LogKinds, LogKind
  <2>6. Captured'
    BY <2>1, <1>3, <1>4, <1>5, <1>6, <1>2 DEF HostInv, Epoch, Captured, LogKind
  <2>7. Reported'
    BY <2>1, <1>3, <1>4, <1>5, <1>6, <1>2 DEF HostInv, Epoch, Reported, Reached, Far, Numbered
  <2>8. Ending'
    BY ZenonT(60), <2>1, <1>3, <1>4, <1>5, <1>6, <1>2 DEF HostInv, Epoch, Ending, OnlyErrors, Waiting,
       Numbered, Threads, Reported, CompareHolds
  <2> QED
    BY <2>2, <2>3, <2>4, <2>5, <2>6, <2>7, <2>8
<1> QED
  BY <1>10, <1>11, <1>12, <1>13, <1>14, <1>15 DEF HostInv

(* The poll thread is back from discarding the round.                        *)
LEMMA PollDiscardedKeeps == ASSUME HostInv, PollDiscarded PROVE HostInv'
<1>1. /\ poll \in Polls
      /\ started \in Nat
  BY DEF HostInv, HostTypes
<1>2. UNCHANGED <<board, wire, vm, svc, tx, resets, watchdog, auto, round, rx, compare, skip,
                  workers, started, concluded, ending, spent>>
  BY DEF PollDiscarded, PollGoes, envVars, sendVars, threadVars, history
<1>3. poll'.pc = "idle" /\ poll'.of = 0
  BY <1>1 DEF PollDiscarded, PollGoes
<1>4. poll.pc = "discard" /\ skip["poll"].pc = "idle"
  BY DEF PollDiscarded, PollGoes
<1>5. poll' \in Polls
  BY <1>1, PollRestsTyped DEF PollDiscarded, PollGoes, Polls
<1>6. HostTypes'
  BY <1>5, <1>2 DEF HostInv, HostTypes
<1>7. RxKinds' /\ JobFits' /\ Caused' /\ CompareHolds'
  BY <1>2 DEF HostInv, RxKinds, StatusKind, LogKind, JobFits, NoJob, Caused, Waiting, Faulted,
     CompareHolds
<1>8. Numbered'
  BY <1>3, <1>4, <1>2, <1>1 DEF HostInv, Numbered, Threads
<1>9. Enabled'
  <2> SUFFICES ASSUME auto'.enabled
               PROVE  PreinitLast' /\ ResetPath' /\ Discarding' /\ Announced' /\ Checking'
    BY DEF Enabled
  <2>1. auto.enabled
    BY <1>3, <1>4, <1>2
  <2>2. PreinitLast' /\ ResetPath' /\ Discarding' /\ Announced' /\ Checking'
    BY <2>1, <1>2 DEF HostInv, Enabled, PreinitLast, LastBut, ResetPath, Resetting, Released,
       NotBegun, Waiting, Discarding, FreshRound, Announced, OnlyErrors, Settled, Checking,
       Faulted
  <2> QED
    BY <2>2
<1>10. Epoch'
  <2> SUFFICES ASSUME auto'.enabled, ~auto'.skipping
               PROVE  WireOrder' /\ NotYet' /\ AtGrant' /\ OwnLog' /\ Captured' /\ Reported' /\
                  Ending'
    BY DEF Epoch
  <2>1. auto.enabled /\ ~auto.skipping
    BY <1>3, <1>4, <1>2
  <2>2. WireOrder' /\ NotYet' /\ AtGrant' /\ OwnLog' /\ Captured' /\ Ending'
    BY <2>1, <1>2 DEF HostInv, Epoch, WireOrder, LastBut, NotYet, Waiting, AtGrant, Granted,
       OnlyErrors, Faulted, OwnLog, LogAbout, LogKinds, LogKind, Captured, Ending
  <2>3. Reported'
    BY <2>1, <1>3, <1>4, <1>2 DEF HostInv, Epoch, Reported, Reached, Far
  <2> QED
    BY <2>2, <2>3
<1> QED
  BY <1>6, <1>7, <1>8, <1>9, <1>10 DEF HostInv

(* The poll thread sends the program if the grant came first.                *)
LEMMA PollMaybeSendsKeeps == ASSUME HostInv, PollMaybeSends PROVE HostInv'
<1>1. /\ auto \in Controllers
      /\ round \in Rounds
      /\ poll \in Polls
      /\ workers \in WorkerSets
  BY DEF HostInv, HostTypes
<1>2. UNCHANGED <<board, wire, vm, svc, tx, resets, watchdog, auto, rx, compare, skip, started,
                  concluded, ending, spent>>
  BY DEF PollMaybeSends, PollGoes, MaybeSendProgram, envVars, sendVars, threadVars, history
<1>3. /\ round'.ready = round.ready
      /\ round'.sent = (round.sent \/ MaySend)
      /\ round'.dones = round.dones
      /\ round'.over = round.over
      /\ round'.comparing = round.comparing
      /\ round'.status = round.status
      /\ round'.closed = round.closed
      /\ round'.log = round.log
  BY <1>1 DEF PollMaybeSends, PollGoes, MaybeSendProgram, Rounds
<1>4. /\ poll'.pc = "compare"
      /\ poll'.of = poll.of
      /\ poll'.status = poll.status
  BY <1>1 DEF PollMaybeSends, PollGoes, MaybeSendProgram, Polls
<1>5. /\ workers'.pre = workers.pre
      /\ workers'.starters = workers.starters
      /\ workers'.launch = workers.launch
      /\ workers'.sender = IF MaySend THEN [pc |-> "begin", of |-> auto.round] ELSE workers.sender
  BY <1>1 DEF PollMaybeSends, PollGoes, MaybeSendProgram, WorkerSets
<1>6. /\ ~MaySend => round' = round
      /\ poll.pc = "send"
  BY DEF PollMaybeSends, PollGoes, MaybeSendProgram
<1>7. round' \in Rounds
  BY <1>1 DEF PollMaybeSends, PollGoes, MaybeSendProgram, Rounds
<1>8. poll' \in Polls
  BY <1>1 DEF PollMaybeSends, PollGoes, MaybeSendProgram, Polls
<1>9. workers' \in WorkerSets
  BY <1>1 DEF PollMaybeSends, PollGoes, MaybeSendProgram, WorkerSets, Senders, Controllers
<1>10. HostTypes'
  BY <1>7, <1>8, <1>9, <1>2 DEF HostInv, HostTypes
<1>11. RxKinds'
  BY <1>2 DEF HostInv, RxKinds, StatusKind, LogKind
<1>12. Numbered'
  BY <1>3, <1>4, <1>5, <1>6, <1>2 DEF HostInv, Numbered, MaySend, Threads
<1>13. JobFits'
  BY <1>3, <1>4, <1>5, <1>6, <1>2 DEF HostInv, JobFits, NoJob
<1>14. Caused'
  BY <1>3, <1>4, <1>5, <1>6, <1>2 DEF HostInv, Caused, Waiting, Faulted, MaySend
<1>15. CompareHolds'
  BY <1>3, <1>4, <1>5, <1>6, <1>2 DEF HostInv, CompareHolds
<1>16. Enabled'
  <2> SUFFICES ASSUME auto'.enabled
               PROVE  PreinitLast' /\ ResetPath' /\ Discarding' /\ Announced' /\ Checking'
    BY DEF Enabled
  <2>1. auto.enabled
    BY <1>3, <1>4, <1>5, <1>6, <1>2
  <2>2. PreinitLast'
    BY <2>1, <1>2 DEF HostInv, Enabled, PreinitLast, LastBut
  <2>3. ResetPath'
    BY <2>1, <1>3, <1>4, <1>5, <1>6, <1>2 DEF HostInv, Enabled, ResetPath, Resetting, Released,
       NotBegun, Waiting
  <2>4. Discarding'
    BY <2>1, <1>3, <1>4, <1>5, <1>6, <1>2 DEF HostInv, Enabled, Discarding, FreshRound, MaySend
  <2>5. Announced'
    BY <2>1, <1>3, <1>4, <1>5, <1>6, <1>2 DEF HostInv, Enabled, Announced, Waiting, OnlyErrors,
       Settled, Released, NotBegun, MaySend
  <2>6. Checking'
    BY <2>1, <1>3, <1>4, <1>5, <1>6, <1>2 DEF HostInv, Enabled, Checking, OnlyErrors, Waiting,
       Faulted, MaySend
  <2> QED
    BY <2>2, <2>3, <2>4, <2>5, <2>6
<1>17. Epoch'
  <2> SUFFICES ASSUME auto'.enabled, ~auto'.skipping
               PROVE  WireOrder' /\ NotYet' /\ AtGrant' /\ OwnLog' /\ Captured' /\ Reported' /\
                  Ending'
    BY DEF Epoch
  <2>1. auto.enabled /\ ~auto.skipping
    BY <1>3, <1>4, <1>5, <1>6, <1>2
  <2>2. WireOrder'
    BY <2>1, <1>2 DEF HostInv, Epoch, WireOrder, LastBut
  <2>3. NotYet'
    BY <2>1, <1>3, <1>4, <1>5, <1>6, <1>2 DEF HostInv, Epoch, NotYet, Waiting
  <2>4. AtGrant'
    <3>1. OnlyErrors' = OnlyErrors /\ Waiting({"GRANT"})' = Waiting({"GRANT"})
      BY <1>2 DEF HostInv, Epoch, AtGrant, Granted, OnlyErrors, Waiting, Faulted, MaySend,
         Enabled, Discarding
    <3>2. MaySend => workers'.sender.pc = "begin" /\ workers'.sender.of = auto.round
      BY <2>1, <1>3, <1>4, <1>5, <1>6, <1>2 DEF HostInv, Epoch, AtGrant, Granted, OnlyErrors,
         Waiting, Faulted, MaySend, Enabled, Discarding
    <3>3. MaySend => Granted /\ auto.round # 0 /\ ~auto.grant /\ round.ready
      BY  DEF HostInv, Epoch, AtGrant, Granted, OnlyErrors, Waiting, Faulted, MaySend, Enabled,
         Discarding
    <3>4. CASE MaySend
      BY <2>1, <1>3, <1>4, <1>5, <1>6, <1>2, <3>4, <3>1, <3>2, <3>3 DEF HostInv, Epoch, AtGrant,
         Granted, OnlyErrors, Waiting, Faulted, MaySend, Enabled, Discarding
    <3>5. CASE ~MaySend
      BY <2>1, <1>3, <1>4, <1>5, <1>6, <1>2, <3>5 DEF HostInv, Epoch, AtGrant, Granted,
         OnlyErrors, Waiting, Faulted, MaySend, Enabled, Discarding
    <3> QED
      BY <2>1, <1>3, <1>4, <1>5, <1>6, <1>2, <3>1, <3>2, <3>3, <3>4, <3>5 DEF HostInv, Epoch,
         AtGrant, Granted, OnlyErrors, Waiting, Faulted, MaySend, Enabled, Discarding
  <2>5. OwnLog'
    BY <2>1, <1>3, <1>4, <1>5, <1>6, <1>2 DEF HostInv, Epoch, OwnLog, LogAbout, Waiting,
       OnlyErrors, LogKinds, LogKind, MaySend
  <2>6. Captured'
    BY <2>1, <1>3, <1>4, <1>5, <1>6, <1>2 DEF HostInv, Epoch, Captured, LogKind, MaySend, AtGrant,
       Granted
  <2>7. Reported'
    BY <2>1, <1>3, <1>4, <1>5, <1>6, <1>2 DEF HostInv, Epoch, Reported, Reached, Far, MaySend
  <2>8. Ending'
    BY <2>1, <1>3, <1>4, <1>5, <1>6, <1>2 DEF HostInv, Epoch, Ending, OnlyErrors, Waiting, MaySend
  <2> QED
    BY <2>2, <2>3, <2>4, <2>5, <2>6, <2>7, <2>8
<1> QED
  BY <1>10, <1>11, <1>12, <1>13, <1>14, <1>15, <1>16, <1>17 DEF HostInv

(* The poll thread begins the comparison if the log came first.              *)
LEMMA PollMaybeComparesKeeps == ASSUME HostInv, PollMaybeCompares PROVE HostInv'
<1>1. /\ auto \in Controllers
      /\ round \in Rounds
      /\ poll \in Polls
      /\ compare \in Comparisons
      /\ started \in Nat
  BY DEF HostInv, HostTypes
<1>2. UNCHANGED <<board, wire, vm, svc, tx, resets, watchdog, auto, rx, skip, workers, started,
                  concluded, ending, spent>>
  BY DEF PollMaybeCompares, PollGoes, MaybeCompare, envVars, sendVars, threadVars, history
<1>3. /\ round'.ready = round.ready
      /\ round'.sent = round.sent
      /\ round'.dones = round.dones
      /\ round'.over = round.over
      /\ round'.comparing = (round.comparing \/ MayCompare)
      /\ round'.status = round.status
      /\ round'.closed = (round.closed \/ MayCompare)
      /\ round'.log = round.log
  BY <1>1 DEF PollMaybeCompares, PollGoes, MaybeCompare, Rounds
<1>4. poll'.pc = "idle" /\ poll'.of = 0
  BY <1>1 DEF PollMaybeCompares, PollGoes
<1>5. /\ compare'.pc = IF MayCompare THEN "compare" ELSE compare.pc
      /\ compare'.of = IF MayCompare THEN auto.round ELSE compare.of
  BY <1>1 DEF PollMaybeCompares, PollGoes, MaybeCompare, Comparisons
<1>6. /\ ~MayCompare => round' = round
      /\ poll.pc = "compare"
  BY DEF PollMaybeCompares, PollGoes, MaybeCompare
<1>7. round' \in Rounds
  BY <1>1 DEF PollMaybeCompares, PollGoes, MaybeCompare, Rounds
<1>8. poll' \in Polls
  BY <1>1, PollRestsTyped DEF PollMaybeCompares, PollGoes, MaybeCompare, Polls
<1>9. compare' \in Comparisons
  BY <1>1 DEF PollMaybeCompares, PollGoes, MaybeCompare, Comparisons, Controllers
<1>10. HostTypes'
  BY <1>7, <1>8, <1>9, <1>2 DEF HostInv, HostTypes
<1>11. RxKinds' /\ JobFits'
  BY <1>2 DEF HostInv, RxKinds, StatusKind, LogKind, JobFits, NoJob
<1>12. Numbered'
  BY <1>3, <1>4, <1>5, <1>6, <1>2, <1>1 DEF HostInv, Numbered, MayCompare
<1>13. Caused'
  BY <1>3, <1>4, <1>5, <1>6, <1>2 DEF HostInv, Caused, Waiting, Faulted
<1>14. CompareHolds'
  BY <1>3, <1>4, <1>5, <1>6, <1>2, CompareStarts DEF HostInv, CompareHolds
<1>15. Enabled'
  <2> SUFFICES ASSUME auto'.enabled
               PROVE  PreinitLast' /\ ResetPath' /\ Discarding' /\ Announced' /\ Checking'
    BY DEF Enabled
  <2>1. auto.enabled
    BY <1>3, <1>4, <1>5, <1>6, <1>2
  <2>2. PreinitLast' /\ Checking'
    BY <2>1, <1>2 DEF HostInv, Enabled, PreinitLast, LastBut, Checking, OnlyErrors, Waiting,
       Faulted
  <2>3. ResetPath'
    BY <2>1, <1>3, <1>4, <1>5, <1>6, <1>2 DEF HostInv, Enabled, ResetPath, Resetting, Released,
       NotBegun, Waiting, MayCompare
  <2>4. Discarding'
    BY <2>1, <1>3, <1>4, <1>5, <1>6, <1>2 DEF HostInv, Enabled, Discarding, FreshRound, MayCompare
  <2>5. Announced'
    BY <2>1, <1>3, <1>4, <1>5, <1>6, <1>2 DEF HostInv, Enabled, Announced, Waiting, OnlyErrors,
       Settled, Released, NotBegun, MayCompare
  <2> QED
    BY <2>2, <2>3, <2>4, <2>5
<1>16. Epoch'
  <2> SUFFICES ASSUME auto'.enabled, ~auto'.skipping
               PROVE  WireOrder' /\ NotYet' /\ AtGrant' /\ OwnLog' /\ Captured' /\ Reported' /\
                  Ending'
    BY DEF Epoch
  <2>1. auto.enabled /\ ~auto.skipping
    BY <1>3, <1>4, <1>5, <1>6, <1>2
  <2>2. WireOrder'
    BY <2>1, <1>2 DEF HostInv, Epoch, WireOrder, LastBut
  <2>3. NotYet'
    BY <2>1, <1>3, <1>4, <1>5, <1>6, <1>2 DEF HostInv, Epoch, NotYet, Waiting
  <2>4. AtGrant'
    BY <2>1, <1>3, <1>4, <1>5, <1>6, <1>2 DEF HostInv, Epoch, AtGrant, Granted, OnlyErrors,
       Waiting, Faulted
  <2>5. OwnLog'
    BY <2>1, <1>3, <1>4, <1>5, <1>6, <1>2 DEF HostInv, Epoch, OwnLog, LogAbout, Waiting,
       OnlyErrors, LogKinds, LogKind
  <2>6. Captured'
    BY <2>1, <1>3, <1>4, <1>5, <1>6, <1>2 DEF HostInv, Epoch, Captured, LogKind, MayCompare
  <2>7. Reported'
    BY <2>1, <1>3, <1>4, <1>5, <1>6, <1>2 DEF HostInv, Epoch, Reported, Reached, Far
  <2>8. Ending'
    BY ZenonT(60), <2>1, <1>3, <1>4, <1>5, <1>6, <1>2 DEF HostInv, Epoch, Ending, OnlyErrors, Waiting,
       MayCompare, Captured
  <2> QED
    BY <2>2, <2>3, <2>4, <2>5, <2>6, <2>7, <2>8
<1> QED
  BY <1>10, <1>11, <1>12, <1>13, <1>14, <1>15, <1>16 DEF HostInv

(* Evidence of a round is saved once its log is closed.                      *)
LEMMA SkipSavesKeeps == ASSUME HostInv, NEW t \in Threads, SkipSaves(t) PROVE HostInv'
<1>1. /\ round \in Rounds /\ auto \in Controllers
      /\ skip \in [Threads -> Discards]
      /\ started \in Nat
      /\ ending \in {"none", "failed", "missing", "discard", "operator"}
  BY DEF HostInv, HostTypes
<1>2. UNCHANGED <<board, wire, vm, svc, tx, resets, watchdog, rx, poll, compare, workers,
                  started, concluded, spent>>
  BY DEF SkipSaves, SkipGoes, envVars, sendVars, threadVars, history
<1>3. /\ round'.ready = round.ready
      /\ round'.sent = round.sent
      /\ round'.dones = round.dones
      /\ round'.over = round.over
      /\ round'.comparing = round.comparing
      /\ round'.status = round.status
      /\ round'.closed = (round.closed \/ auto.round = skip[t].of)
      /\ round'.log = round.log
  BY <1>1 DEF SkipSaves, Rounds
<1>4. /\ \A u \in Threads : u # t => skip'[u] = skip[u]
      /\ skip'[t].pc \in {"idle", "release"}
      /\ skip'[t].pc # "idle" => skip'[t].of = skip[t].of
      /\ skip'[t].of \in {skip[t].of, 0}
  BY <1>1 DEF SkipSaves, SkipGoes, Discards, RestingWorker
<1>5. /\ skip[t].pc = "save"
      /\ ~(auto.round = skip[t].of) => round' = round
  BY DEF SkipSaves
<1>6. /\ auto'.round = auto.round
      /\ auto'.enabled => auto' = auto /\ skip'[t].pc = "release"
  <2>1. CASE t # "poll" /\ skip[t].of \in removed
    BY <1>1, <2>1 DEF SkipSaves, Ended, Controllers
  <2>2. CASE ~(t # "poll" /\ skip[t].of \in removed)
    <3>1. auto' = auto /\ SkipGoes(t, "release")
      BY <2>2 DEF SkipSaves
    <3>2. skip'[t].pc = "release"
      BY <1>1, <3>1 DEF SkipGoes, Discards
    <3> QED BY <3>1, <3>2
  <2> QED BY <2>1, <2>2
<1>7. auto' \in Controllers /\ ending' \in {"missing", ending}
  BY <1>1 DEF SkipSaves, Ended, Controllers
<1>8. HostTypes'
  <2>1. round' \in Rounds
    BY <1>1 DEF SkipSaves, Rounds
  <2>2. skip' \in [Threads -> Discards]
    BY <1>1 DEF SkipSaves, SkipGoes, Discards, RestingWorker
  <2> QED
    BY <1>1, <1>2, <1>7, <2>1, <2>2 DEF HostInv, HostTypes
<1>9. RxKinds' /\ JobFits' /\ Caused'
  <2>1. RxKinds' /\ JobFits'
    BY <1>2, <1>6 DEF HostInv, RxKinds, StatusKind, LogKind, JobFits, NoJob
  <2>2. Caused'
    BY <1>2, <1>6, <1>7 DEF HostInv, Caused, Waiting, Faulted
  <2> QED BY <2>1, <2>2
<1>10. Numbered'
  BY <1>3, <1>4, <1>5, <1>6, <1>2, <1>1 DEF HostInv, Numbered, Threads
<1>11. CompareHolds'
  BY <1>3, <1>4, <1>5, <1>6, <1>2 DEF HostInv, CompareHolds, Threads
<1>12. Enabled'
  <2> SUFFICES ASSUME auto'.enabled
               PROVE  PreinitLast' /\ ResetPath' /\ Discarding' /\ Announced' /\ Checking'
    BY DEF Enabled
  <2>1. auto.enabled
    BY <1>3, <1>4, <1>5, <1>6, <1>2
  <2>2. PreinitLast' /\ Checking'
    BY <2>1, <1>2, <1>6 DEF HostInv, Enabled, PreinitLast, LastBut, Checking, OnlyErrors, Waiting,
       Faulted
  <2>3. ResetPath'
    BY <2>1, <1>3, <1>4, <1>5, <1>6, <1>2 DEF HostInv, Enabled, ResetPath, Resetting, Released,
       NotBegun, Waiting, Threads
  <2>4. Discarding'
    BY <2>1, <1>3, <1>4, <1>5, <1>6, <1>2 DEF HostInv, Enabled, Discarding, FreshRound, Numbered
  <2>5. Announced'
    BY <2>1, <1>3, <1>4, <1>5, <1>6, <1>2 DEF HostInv, Enabled, Announced, Waiting, OnlyErrors, Settled,
       Released, NotBegun, Threads
  <2> QED
    BY <2>2, <2>3, <2>4, <2>5
<1>13. Epoch'
  <2> SUFFICES ASSUME auto'.enabled, ~auto'.skipping
               PROVE  WireOrder' /\ NotYet' /\ AtGrant' /\ OwnLog' /\ Captured' /\ Reported' /\
                  Ending'
    BY DEF Epoch
  <2>1. auto.enabled /\ ~auto.skipping
    BY <1>3, <1>4, <1>5, <1>6, <1>2
  <2>2. WireOrder'
    BY <2>1, <1>2, <1>6 DEF HostInv, Epoch, WireOrder, LastBut
  <2>3. NotYet'
    BY <2>1, <1>3, <1>4, <1>5, <1>6, <1>2 DEF HostInv, Epoch, NotYet, Waiting
  <2>4. AtGrant'
    BY <2>1, <1>3, <1>4, <1>5, <1>6, <1>2 DEF HostInv, Epoch, AtGrant, Granted, OnlyErrors, Waiting,
       Faulted
  <2>5. OwnLog'
    BY <2>1, <1>3, <1>4, <1>5, <1>6, <1>2 DEF HostInv, Epoch, OwnLog, LogAbout, Waiting, OnlyErrors,
       LogKinds, LogKind
  <2>6. Captured'
    BY <2>1, <1>3, <1>4, <1>5, <1>6, <1>2 DEF HostInv, Epoch, Captured, LogKind, Ending, Numbered,
       Threads
  <2>7. Reported'
    BY <2>1, <1>3, <1>4, <1>5, <1>6, <1>2 DEF HostInv, Epoch, Reported, Reached, Far
  <2>8. Ending'
    <3>1. CASE t = "rx"
      BY ZenonT(60), <2>1, <1>3, <1>4, <1>5, <1>6, <1>2, <3>1 DEF HostInv, Epoch, Ending, OnlyErrors, Waiting,
         Numbered, Threads
    <3>2. CASE t = "poll"
      BY ZenonT(60), <2>1, <1>3, <1>4, <1>5, <1>6, <1>2, <3>2 DEF HostInv, Epoch, Ending, OnlyErrors, Waiting,
         Numbered, Threads
    <3>3. CASE t = "compare"
      BY <2>1, <1>3, <1>4, <1>5, <1>6, <1>2, <3>3 DEF HostInv, Epoch, Ending, OnlyErrors, Waiting,
         Numbered, Threads
    <3> QED
      BY <2>1, <1>3, <1>4, <1>5, <1>6, <1>2, <3>1, <3>2, <3>3 DEF HostInv, Epoch, Ending, OnlyErrors,
         Waiting, Numbered, Threads
  <2> QED
    BY <2>2, <2>3, <2>4, <2>5, <2>6, <2>7, <2>8
<1> QED
  BY <1>8, <1>9, <1>10, <1>11, <1>12, <1>13 DEF HostInv

(* A round that cannot be saved ends the session, unless it is over already. *)
LEMMA SkipSaveFailsKeeps == ASSUME HostInv, NEW t \in Threads, SkipSaveFails(t) PROVE HostInv'
<1>1. /\ auto \in Controllers
      /\ skip \in [Threads -> Discards]
      /\ started \in Nat
      /\ ending \in {"none", "failed", "missing", "discard", "operator"}
      /\ spent \in [Budgets -> Nat]
  BY DEF HostInv, HostTypes
<1>2. UNCHANGED <<board, wire, vm, svc, tx, resets, watchdog, round, rx, poll, compare, workers,
                  started, concluded>>
  BY DEF SkipSaveFails, SkipGoes, Fail, Ended, envVars, sendVars, threadVars, history
<1>3. /\ auto'.round = auto.round
      /\ auto'.enabled => auto' = auto /\ t = "poll" /\ auto.round # skip[t].of
  BY <1>1 DEF SkipSaveFails, Fail, Ended, Controllers
<1>4. /\ \A u \in Threads : u # t => skip'[u] = skip[u]
      /\ skip'[t].pc = "idle"
      /\ skip'[t].pc # "idle" => skip'[t].of = skip[t].of
      /\ skip'[t].of \in {skip[t].of, 0}
  BY <1>1 DEF SkipSaveFails, SkipGoes, Discards, RestingWorker
<1>5. ending' \in {"failed", ending}
  BY <1>1 DEF SkipSaveFails, Fail, Ended
<1>6. Faulted'
  BY <1>1 DEF SkipSaveFails, Spend, Faulted, Budgets
<1>7. skip[t].pc = "save"
  BY DEF SkipSaveFails, SkipGoes, Fail, Ended
<1>8. auto' \in Controllers
  BY <1>1 DEF SkipSaveFails, SkipGoes, Fail, Ended, Controllers
<1>9. skip' \in [Threads -> Discards]
  BY <1>1 DEF SkipSaveFails, SkipGoes, Fail, Ended, Discards, RestingWorker
<1>10. ending' \in {"none", "failed", "missing", "discard", "operator"}
  BY <1>1 DEF SkipSaveFails, SkipGoes, Fail, Ended
<1>11. spent' \in [Budgets -> Nat]
  BY <1>1 DEF SkipSaveFails, SkipGoes, Fail, Ended, Spend, Budgets
<1>12. HostTypes'
  BY <1>8, <1>9, <1>10, <1>11, <1>2 DEF HostInv, HostTypes
<1>13. RxKinds'
  BY <1>2 DEF HostInv, RxKinds, StatusKind, LogKind
<1>14. Numbered'
  BY <1>3, <1>4, <1>5, <1>6, <1>7, <1>2, <1>1 DEF HostInv, Numbered, Threads
<1>15. JobFits'
  BY <1>3, <1>4, <1>5, <1>6, <1>7, <1>2 DEF HostInv, JobFits, NoJob
<1>16. Caused'
  BY <1>3, <1>4, <1>5, <1>6, <1>7, <1>2 DEF HostInv, Caused, Waiting, Faulted
<1>17. CompareHolds'
  BY <1>3, <1>4, <1>5, <1>6, <1>7, <1>2 DEF HostInv, CompareHolds, Threads
<1>18. Enabled'
  <2> SUFFICES ASSUME auto'.enabled
               PROVE  PreinitLast' /\ ResetPath' /\ Discarding' /\ Announced' /\ Checking'
    BY DEF Enabled
  <2>1. auto.enabled
    BY <1>3, <1>4, <1>5, <1>6, <1>7, <1>2
  <2>2. PreinitLast'
    BY <2>1, <1>2 DEF HostInv, Enabled, PreinitLast, LastBut
  <2>3. ResetPath'
    BY <2>1, <1>3, <1>4, <1>5, <1>6, <1>7, <1>2 DEF HostInv, Enabled, ResetPath, Resetting,
       Released, NotBegun, Waiting, Threads
  <2>4. Discarding'
    BY <2>1, <1>3, <1>4, <1>5, <1>6, <1>7, <1>2 DEF HostInv, Enabled, Discarding, FreshRound
  <2>5. Announced'
    BY <2>1, <1>3, <1>4, <1>5, <1>6, <1>7, <1>2 DEF HostInv, Enabled, Announced, Waiting,
       OnlyErrors, Settled, Released, NotBegun, Threads
  <2>6. Checking'
    BY <2>1, <1>3, <1>4, <1>5, <1>6, <1>7, <1>2 DEF HostInv, Enabled, Checking, OnlyErrors,
       Waiting, Faulted
  <2> QED
    BY <2>2, <2>3, <2>4, <2>5, <2>6
<1>19. Epoch'
  <2> SUFFICES ASSUME auto'.enabled, ~auto'.skipping
               PROVE  WireOrder' /\ NotYet' /\ AtGrant' /\ OwnLog' /\ Captured' /\ Reported' /\
                  Ending'
    BY DEF Epoch
  <2>1. auto.enabled /\ ~auto.skipping
    BY <1>3, <1>4, <1>5, <1>6, <1>7, <1>2
  <2>2. WireOrder'
    BY <2>1, <1>2 DEF HostInv, Epoch, WireOrder, LastBut
  <2>3. NotYet'
    BY <2>1, <1>3, <1>4, <1>5, <1>6, <1>7, <1>2 DEF HostInv, Epoch, NotYet, Waiting
  <2>4. AtGrant'
    BY <2>1, <1>3, <1>4, <1>5, <1>6, <1>7, <1>2 DEF HostInv, Epoch, AtGrant, Granted, OnlyErrors,
       Waiting, Faulted
  <2>5. OwnLog'
    BY <2>1, <1>3, <1>4, <1>5, <1>6, <1>7, <1>2 DEF HostInv, Epoch, OwnLog, LogAbout, Waiting,
       OnlyErrors, LogKinds, LogKind
  <2>6. Captured'
    BY <2>1, <1>3, <1>4, <1>5, <1>6, <1>7, <1>2 DEF HostInv, Epoch, Captured, LogKind, Ending,
       Numbered, Threads
  <2>7. Reported'
    BY <2>1, <1>3, <1>4, <1>5, <1>6, <1>7, <1>2 DEF HostInv, Epoch, Reported, Reached, Far
  <2>8. Ending'
    BY <2>1, <1>3, <1>4, <1>5, <1>6, <1>7, <1>2 DEF HostInv, Epoch, Ending, OnlyErrors, Waiting,
       Numbered, Threads
  <2> QED
    BY <2>2, <2>3, <2>4, <2>5, <2>6, <2>7, <2>8
<1> QED
  BY <1>12, <1>13, <1>14, <1>15, <1>16, <1>17, <1>18, <1>19 DEF HostInv

(* A round is released to be discarded; the session waits for the new epoch. *)
LEMMA SkipReleasesRoundKeeps ==
    ASSUME HostInv, NEW t \in Threads, auto.round = skip[t].of,
           SkipReleases(t)
    PROVE  HostInv'
<1>1. /\ vm \in Jobs
      /\ auto \in Controllers
      /\ round \in Rounds
      /\ skip \in [Threads -> Discards]
      /\ started \in Nat
      /\ concluded \in Nat
  BY DEF HostInv, HostTypes
<1>2. UNCHANGED <<board, wire, svc, tx, resets, watchdog, rx, poll, compare, workers, started,
                  ending, spent>>
  BY DEF SkipReleases, SkipGoes, envVars, sendVars, threadVars, history
<1>3. skip[t].pc = "release" /\ SkipGoes(t, "reset") /\ Release(TRUE)
  BY <1>1 DEF SkipReleases
<1>4. /\ \A u \in Threads : u # t => skip'[u] = skip[u]
      /\ skip'[t].pc = "reset" /\ skip'[t].of = skip[t].of
      /\ skip' \in [Threads -> Discards]
  BY <1>1, <1>3, SkipMoves
<1>5. /\ auto' \in Controllers /\ round' \in Rounds /\ vm' \in Jobs /\ concluded' \in Nat
      /\ auto'.enabled = auto.enabled /\ auto'.round = 0 /\ ~auto'.grant
      /\ auto'.skipping = TRUE
      /\ round' = FreshRound(FALSE) /\ vm' = NoJob
  BY <1>1, <1>3, ReleaseFrees DEF HostInv
<1>6. HostTypes'
  BY <1>3, <1>4, <1>5, <1>2 DEF HostInv, HostTypes
<1>7. RxKinds'
  BY <1>2 DEF HostInv, RxKinds, StatusKind, LogKind
<1>8. Numbered'
  BY <1>3, <1>4, <1>5, <1>2, <1>1 DEF HostInv, Numbered, Threads
<1>9. JobFits'
  BY <1>3, <1>4, <1>5, <1>2 DEF HostInv, JobFits, NoJob
<1>10. Caused'
  BY <1>3, <1>4, <1>5, <1>2 DEF HostInv, Caused, Waiting, Faulted
<1>11. CompareHolds'
  BY <1>3, <1>4, <1>5, <1>2 DEF HostInv, CompareHolds, Threads
<1>12. Enabled'
  <2> SUFFICES ASSUME auto'.enabled
               PROVE  PreinitLast' /\ ResetPath' /\ Discarding' /\ Announced' /\ Checking'
    BY DEF Enabled
  <2>1. auto.enabled
    BY <1>3, <1>4, <1>5, <1>2
  <2>2. PreinitLast'
    BY <2>1, <1>2 DEF HostInv, Enabled, PreinitLast, LastBut
  <2>3. ResetPath'
    BY <2>1, <1>3, <1>4, <1>5, <1>2 DEF HostInv, Enabled, ResetPath, Resetting, Released,
       NotBegun, Waiting, Threads, Announced, Numbered
  <2>4. Discarding'
    BY <2>1, <1>3, <1>4, <1>5, <1>2 DEF HostInv, Enabled, Discarding, FreshRound, Numbered
  <2>5. Announced'
    BY <2>1, <1>3, <1>4, <1>5, <1>2 DEF HostInv, Enabled, Announced, Waiting, OnlyErrors, Settled,
       Released, NotBegun, Threads, ResetPath, Numbered
  <2>6. Checking'
    BY <2>1, <1>3, <1>4, <1>5, <1>2 DEF HostInv, Enabled, Checking, OnlyErrors, Waiting, Faulted,
       Numbered
  <2> QED
    BY <2>2, <2>3, <2>4, <2>5, <2>6
<1>13. Epoch'
  <2> SUFFICES ASSUME auto'.enabled, ~auto'.skipping
               PROVE  WireOrder' /\ NotYet' /\ AtGrant' /\ OwnLog' /\ Captured' /\ Reported' /\
                  Ending'
    BY DEF Epoch
  <2>1. auto.enabled /\ ~auto.skipping
    BY <1>3, <1>4, <1>5, <1>2
  <2>2. WireOrder'
    BY <2>1, <1>2 DEF HostInv, Epoch, WireOrder, LastBut
  <2>3. NotYet'
    BY <2>1, <1>3, <1>4, <1>5, <1>2 DEF HostInv, Epoch, NotYet, Waiting
  <2>4. AtGrant'
    BY <2>1, <1>3, <1>4, <1>5, <1>2 DEF HostInv, Epoch, AtGrant, Granted, OnlyErrors, Waiting,
       Faulted
  <2>5. OwnLog'
    BY <2>1, <1>3, <1>4, <1>5, <1>2 DEF HostInv, Epoch, OwnLog, LogAbout, Waiting, OnlyErrors,
       LogKinds, LogKind
  <2>6. Captured'
    BY <2>1, <1>3, <1>4, <1>5, <1>2 DEF HostInv, Epoch, Captured, LogKind
  <2>7. Reported'
    BY <2>1, <1>3, <1>4, <1>5, <1>2 DEF HostInv, Epoch, Reported, Reached, Far
  <2>8. Ending'
    BY <2>1, <1>3, <1>4, <1>5, <1>2 DEF HostInv, Epoch, Ending, OnlyErrors, Waiting
  <2> QED
    BY <2>2, <2>3, <2>4, <2>5, <2>6, <2>7, <2>8
<1> QED
  BY <1>6, <1>7, <1>8, <1>9, <1>10, <1>11, <1>12, <1>13 DEF HostInv

(* The round that was to be discarded is gone.                               *)
LEMMA SkipReleasesNoneKeeps ==
    ASSUME HostInv, NEW t \in Threads, auto.round # skip[t].of,
           SkipReleases(t)
    PROVE  HostInv'
<1>1. /\ skip \in [Threads -> Discards]
      /\ started \in Nat
  BY DEF HostInv, HostTypes
<1>2. UNCHANGED <<board, wire, vm, svc, tx, resets, watchdog, auto, round, rx, poll, compare,
                  workers, started, concluded, ending, spent>>
  BY DEF SkipReleases, SkipGoes, envVars, sendVars, threadVars, history
<1>3. /\ \A u \in Threads : u # t => skip'[u] = skip[u]
      /\ skip'[t].pc = "idle" /\ skip'[t].of = 0
      /\ skip' \in [Threads -> Discards]
  BY <1>1, SkipMoves DEF SkipReleases
<1>4. skip[t].pc = "release" /\ auto.round # skip[t].of
  BY DEF SkipReleases, SkipGoes
<1>5. HostTypes'
  BY <1>3, <1>4, <1>2 DEF HostInv, HostTypes
<1>6. RxKinds' /\ JobFits' /\ Caused'
  BY <1>2 DEF HostInv, RxKinds, StatusKind, LogKind, JobFits, NoJob, Caused, Waiting, Faulted
<1>7. Numbered'
  BY <1>3, <1>4, <1>2, <1>1 DEF HostInv, Numbered, Threads
<1>8. CompareHolds'
  BY <1>3, <1>4, <1>2 DEF HostInv, CompareHolds, Threads
<1>9. Enabled'
  <2> SUFFICES ASSUME auto'.enabled
               PROVE  PreinitLast' /\ ResetPath' /\ Discarding' /\ Announced' /\ Checking'
    BY DEF Enabled
  <2>1. auto.enabled
    BY <1>3, <1>4, <1>2
  <2>2. PreinitLast' /\ Discarding' /\ Checking'
    BY <2>1, <1>2 DEF HostInv, Enabled, PreinitLast, LastBut, Discarding, FreshRound, Checking,
       OnlyErrors, Waiting, Faulted
  <2>3. ResetPath'
    BY <2>1, <1>3, <1>4, <1>2 DEF HostInv, Enabled, ResetPath, Resetting, Released, NotBegun,
       Waiting, Threads
  <2>4. Announced'
    BY <2>1, <1>3, <1>4, <1>2 DEF HostInv, Enabled, Announced, Waiting, OnlyErrors, Settled,
       Released, NotBegun, Threads, ResetPath, Numbered
  <2> QED
    BY <2>2, <2>3, <2>4
<1>10. Epoch'
  <2> SUFFICES ASSUME auto'.enabled, ~auto'.skipping
               PROVE  WireOrder' /\ NotYet' /\ AtGrant' /\ OwnLog' /\ Captured' /\ Reported' /\
                  Ending'
    BY DEF Epoch
  <2>1. auto.enabled /\ ~auto.skipping
    BY <1>3, <1>4, <1>2
  <2>2. WireOrder' /\ NotYet' /\ AtGrant' /\ OwnLog' /\ Captured' /\ Reported'
    BY <2>1, <1>2 DEF HostInv, Epoch, WireOrder, LastBut, NotYet, Waiting, AtGrant, Granted,
       OnlyErrors, Faulted, OwnLog, LogAbout, LogKinds, LogKind, Captured, Reported, Reached, Far
  <2>3. Ending'
    BY <2>1, <1>3, <1>4, <1>2 DEF HostInv, Epoch, Ending, OnlyErrors, Waiting, Numbered, Threads
  <2> QED
    BY <2>2, <2>3
<1> QED
  BY <1>5, <1>6, <1>7, <1>8, <1>9, <1>10 DEF HostInv

(* The one thread that released the round asks for the reset.                *)
LEMMA SkipResetsKeeps == ASSUME HostInv, NEW t \in Threads, SkipResets(t) PROVE HostInv'
<1>1. /\ svc \in Services
      /\ tx \in Transfers
      /\ resets \in Seq(Nat)
      /\ skip \in [Threads -> Discards]
      /\ started \in Nat
  BY DEF HostInv, HostTypes
<1>2. UNCHANGED <<board, wire, vm, watchdog, auto, round, rx, poll, compare, workers, started,
                  concluded, ending, spent>>
  BY DEF SkipResets, SkipGoes, SendBoardReset, envVars, sendVars, threadVars, history
<1>3. /\ svc'.board = "RESETTING"
      /\ svc'.allowed = svc.allowed
      /\ svc'.seen = svc.seen
  BY <1>1 DEF SkipResets, SkipGoes, SendBoardReset, Services
<1>4. /\ tx'.by = tx.by
      /\ tx'.of = tx.of
  BY <1>1 DEF SkipResets, SkipGoes, SendBoardReset, Transfers
<1>5. resets' # <<>>
  BY <1>1, ResetQueued DEF SkipResets, SendBoardReset
<1>6. /\ \A u \in Threads : u # t => skip'[u] = skip[u]
      /\ skip'[t].pc = "idle"
      /\ skip'[t].pc # "idle" => skip'[t].of = skip[t].of
      /\ skip'[t].of \in {skip[t].of, 0}
  BY <1>1 DEF SkipResets, SkipGoes, Discards, RestingWorker
<1>7. skip[t].pc = "reset"
  BY DEF SkipResets, SkipGoes, SendBoardReset
<1>8. svc' \in Services
  BY <1>1 DEF SkipResets, SkipGoes, SendBoardReset, Services
<1>9. tx' \in Transfers
  BY <1>1 DEF SkipResets, SkipGoes, SendBoardReset, Transfers
<1>10. resets' \in Seq(Nat)
  BY <1>1 DEF SkipResets, SkipGoes, SendBoardReset
<1>11. skip' \in [Threads -> Discards]
  BY <1>1 DEF SkipResets, SkipGoes, SendBoardReset, Discards, RestingWorker
<1>12. HostTypes'
  BY <1>8, <1>9, <1>10, <1>11, <1>2 DEF HostInv, HostTypes
<1>13. RxKinds' /\ JobFits' /\ Caused'
  BY <1>2 DEF HostInv, RxKinds, StatusKind, LogKind, JobFits, NoJob, Caused, Waiting, Faulted
<1>14. Numbered'
  BY <1>3, <1>4, <1>5, <1>6, <1>7, <1>2, <1>1 DEF HostInv, Numbered, Threads
<1>15. CompareHolds'
  BY <1>3, <1>4, <1>5, <1>6, <1>7, <1>2 DEF HostInv, CompareHolds, Threads
<1>16. Enabled'
  <2> SUFFICES ASSUME auto'.enabled
               PROVE  PreinitLast' /\ ResetPath' /\ Discarding' /\ Announced' /\ Checking'
    BY DEF Enabled
  <2>1. auto.enabled
    BY <1>3, <1>4, <1>5, <1>6, <1>7, <1>2
  <2>2. PreinitLast' /\ Discarding'
    BY <2>1, <1>2 DEF HostInv, Enabled, PreinitLast, LastBut, Discarding, FreshRound
  <2>3. ResetPath'
    BY <2>1, <1>3, <1>4, <1>5, <1>6, <1>7, <1>2 DEF HostInv, Enabled, ResetPath, Resetting,
       Released, NotBegun, Waiting, Threads
  <2>4. Announced'
    BY <2>1, <1>3, <1>4, <1>5, <1>6, <1>7, <1>2 DEF HostInv, Enabled, Announced, Waiting,
       OnlyErrors, Settled, Released, NotBegun, Threads, ResetPath, Resetting
  <2>5. Checking'
    BY <2>1, <1>3, <1>4, <1>5, <1>6, <1>7, <1>2 DEF HostInv, Enabled, Checking, OnlyErrors,
       Waiting, Faulted, ResetPath, Released, NotBegun, Resetting
  <2> QED
    BY <2>2, <2>3, <2>4, <2>5
<1>17. Epoch'
  <2> SUFFICES ASSUME auto'.enabled, ~auto'.skipping
               PROVE  WireOrder' /\ NotYet' /\ AtGrant' /\ OwnLog' /\ Captured' /\ Reported' /\
                  Ending'
    BY DEF Epoch
  <2>1. auto.enabled /\ ~auto.skipping
    BY <1>3, <1>4, <1>5, <1>6, <1>7, <1>2
  <2>2. WireOrder' /\ NotYet' /\ Reported'
    BY <2>1, <1>2 DEF HostInv, Epoch, WireOrder, LastBut, NotYet, Waiting, Reported, Reached, Far
  <2>3. AtGrant'
    BY <2>1, <1>3, <1>4, <1>5, <1>6, <1>7, <1>2 DEF HostInv, Epoch, AtGrant, Granted, OnlyErrors,
       Waiting, Faulted
  <2>4. OwnLog'
    BY <2>1, <1>3, <1>4, <1>5, <1>6, <1>7, <1>2 DEF HostInv, Epoch, OwnLog, LogAbout, Waiting,
       OnlyErrors, LogKinds, LogKind
  <2>5. Captured'
    BY <2>1, <1>3, <1>4, <1>5, <1>6, <1>7, <1>2 DEF HostInv, Epoch, Captured, LogKind
  <2>6. Ending'
    BY <2>1, <1>3, <1>4, <1>5, <1>6, <1>7, <1>2 DEF HostInv, Epoch, Ending, OnlyErrors, Waiting,
       Numbered, Threads
  <2> QED
    BY <2>2, <2>3, <2>4, <2>5, <2>6
<1> QED
  BY <1>12, <1>13, <1>14, <1>15, <1>16, <1>17 DEF HostInv

(* The log that is compared is whole.                                        *)
LEMMA ComparesKeeps == ASSUME HostInv, Compares PROVE HostInv'
<1>1. /\ compare \in Comparisons
      /\ skip \in [Threads -> Discards]
      /\ started \in Nat
  BY DEF HostInv, HostTypes
<1>2. UNCHANGED <<board, wire, vm, svc, tx, resets, watchdog, auto, round, rx, poll, workers,
                  started, concluded, ending, spent>>
  BY DEF Compares, envVars, sendVars, threadVars, history
<1>3. compare.pc = "compare" /\ auto.round = compare.of /\ round.log = LogOf(compare.of)
  BY <1>1 DEF Compares, HostInv, CompareHolds
<1>4. UNCHANGED <<skip, auto, round>> /\ CompareGoes(IF ~auto.skipping THEN "release" ELSE "idle")
  BY <1>1, <1>3 DEF Compares, StillCurrent
<1>5. \/ compare'.pc = "release" /\ compare'.of = compare.of /\ compare' \in Comparisons
      \/ compare'.pc = "idle" /\ compare'.of = 0 /\ compare' \in Comparisons
  BY <1>1, <1>4 DEF CompareGoes, Comparisons, RestingWorker
<1>6. HostTypes'
  BY <1>3, <1>4, <1>5, <1>2 DEF HostInv, HostTypes
<1>7. RxKinds' /\ JobFits'
  BY <1>2 DEF HostInv, RxKinds, StatusKind, LogKind, JobFits, NoJob
<1>8. Numbered'
  BY <1>3, <1>4, <1>5, <1>2, <1>1 DEF HostInv, Numbered, Threads
<1>9. Caused'
  BY <1>3, <1>4, <1>5, <1>2 DEF HostInv, Caused, Waiting, Faulted
<1>10. CompareHolds'
  BY <1>3, <1>4, <1>5, <1>2 DEF HostInv, CompareHolds, Threads
<1>11. Enabled'
  <2> SUFFICES ASSUME auto'.enabled
               PROVE  PreinitLast' /\ ResetPath' /\ Discarding' /\ Announced' /\ Checking'
    BY DEF Enabled
  <2>1. auto.enabled
    BY <1>3, <1>4, <1>5, <1>2
  <2>2. PreinitLast' /\ Discarding' /\ Checking'
    BY <2>1, <1>2 DEF HostInv, Enabled, PreinitLast, LastBut, Discarding, FreshRound, Checking,
       OnlyErrors, Waiting, Faulted
  <2>3. ResetPath'
    BY <2>1, <1>3, <1>4, <1>5, <1>2 DEF HostInv, Enabled, ResetPath, Resetting, Released,
       NotBegun, Waiting, Threads
  <2>4. Announced'
    BY <2>1, <1>3, <1>4, <1>5, <1>2 DEF HostInv, Enabled, Announced, Waiting, OnlyErrors, Settled,
       Released, NotBegun
  <2> QED
    BY <2>2, <2>3, <2>4
<1>12. Epoch'
  <2> SUFFICES ASSUME auto'.enabled, ~auto'.skipping
               PROVE  WireOrder' /\ NotYet' /\ AtGrant' /\ OwnLog' /\ Captured' /\ Reported' /\
                  Ending'
    BY DEF Epoch
  <2>1. auto.enabled /\ ~auto.skipping
    BY <1>3, <1>4, <1>5, <1>2
  <2>2. WireOrder' /\ NotYet' /\ AtGrant' /\ OwnLog' /\ Captured' /\ Reported'
    BY <2>1, <1>2 DEF HostInv, Epoch, WireOrder, LastBut, NotYet, Waiting, AtGrant, Granted,
       OnlyErrors, Faulted, OwnLog, LogAbout, LogKinds, LogKind, Captured, Reported, Reached, Far
  <2>3. Ending'
    BY <2>1, <1>3, <1>4, <1>5, <1>2 DEF HostInv, Epoch, Ending, OnlyErrors, Waiting, Threads
  <2> QED
    BY <2>2, <2>3
<1> QED
  BY <1>6, <1>7, <1>8, <1>9, <1>10, <1>11, <1>12 DEF HostInv

(* A comparison fails for the cores or the disk.                             *)
LEMMA ComparesFailKeeps == ASSUME HostInv, ComparesFail PROVE HostInv'
<1>1. /\ compare \in Comparisons
      /\ started \in Nat
      /\ spent \in [Budgets -> Nat]
  BY DEF HostInv, HostTypes
<1>2. UNCHANGED <<board, wire, vm, svc, tx, resets, watchdog, auto, round, rx, poll, skip,
                  workers, started, concluded, ending>>
  BY DEF ComparesFail, CompareGoes, RestingWorker, envVars, sendVars, threadVars, history
<1>3. \/ compare'.pc = "fail" /\ compare'.of = compare.of
      \/ compare'.pc = "idle" /\ compare'.of = 0
  BY <1>1 DEF ComparesFail, CompareGoes, Comparisons, RestingWorker
<1>4. Faulted'
  BY <1>1 DEF ComparesFail, Spend, Faulted, Budgets
<1>5. compare.pc = "compare"
  BY DEF ComparesFail, CompareGoes, RestingWorker
<1>6. compare' \in Comparisons
  BY <1>1 DEF ComparesFail, CompareGoes, RestingWorker, Comparisons
<1>7. spent' \in [Budgets -> Nat]
  BY <1>1 DEF ComparesFail, CompareGoes, RestingWorker, Spend, Budgets
<1>8. HostTypes'
  BY <1>6, <1>7, <1>2 DEF HostInv, HostTypes
<1>9. RxKinds' /\ JobFits'
  BY <1>2 DEF HostInv, RxKinds, StatusKind, LogKind, JobFits, NoJob
<1>10. Numbered'
  BY <1>3, <1>4, <1>5, <1>2, <1>1 DEF HostInv, Numbered, Threads
<1>11. Caused'
  BY <1>3, <1>4, <1>5, <1>2 DEF HostInv, Caused, Waiting, Faulted
<1>12. CompareHolds'
  BY <1>3, <1>4, <1>5, <1>2 DEF HostInv, CompareHolds
<1>13. Enabled'
  <2> SUFFICES ASSUME auto'.enabled
               PROVE  PreinitLast' /\ ResetPath' /\ Discarding' /\ Announced' /\ Checking'
    BY DEF Enabled
  <2>1. auto.enabled
    BY <1>3, <1>4, <1>5, <1>2
  <2>2. PreinitLast' /\ Discarding'
    BY <2>1, <1>2 DEF HostInv, Enabled, PreinitLast, LastBut, Discarding, FreshRound
  <2>3. ResetPath'
    BY <2>1, <1>3, <1>4, <1>5, <1>2 DEF HostInv, Enabled, ResetPath, Resetting, Released,
       NotBegun, Waiting
  <2>4. Announced'
    BY <2>1, <1>3, <1>4, <1>5, <1>2 DEF HostInv, Enabled, Announced, Waiting, OnlyErrors, Settled,
       Released, NotBegun
  <2>5. Checking'
    BY <2>1, <1>3, <1>4, <1>5, <1>2 DEF HostInv, Enabled, Checking, OnlyErrors, Waiting, Faulted
  <2> QED
    BY <2>2, <2>3, <2>4, <2>5
<1>14. Epoch'
  <2> SUFFICES ASSUME auto'.enabled, ~auto'.skipping
               PROVE  WireOrder' /\ NotYet' /\ AtGrant' /\ OwnLog' /\ Captured' /\ Reported' /\
                  Ending'
    BY DEF Epoch
  <2>1. auto.enabled /\ ~auto.skipping
    BY <1>3, <1>4, <1>5, <1>2
  <2>2. WireOrder' /\ NotYet' /\ OwnLog' /\ Captured' /\ Reported'
    BY <2>1, <1>2 DEF HostInv, Epoch, WireOrder, LastBut, NotYet, Waiting, OwnLog, LogAbout,
       OnlyErrors, LogKinds, LogKind, Captured, Reported, Reached, Far
  <2>3. AtGrant'
    BY <2>1, <1>3, <1>4, <1>5, <1>2 DEF HostInv, Epoch, AtGrant, Granted, OnlyErrors, Waiting,
       Faulted
  <2>4. Ending'
    BY <2>1, <1>3, <1>4, <1>5, <1>2 DEF HostInv, Epoch, Ending, OnlyErrors, Waiting
  <2> QED
    BY <2>2, <2>3, <2>4
<1> QED
  BY <1>8, <1>9, <1>10, <1>11, <1>12, <1>13, <1>14 DEF HostInv

(* The session ends for the failed comparison.                               *)
LEMMA CompareFailsKeeps == ASSUME HostInv, CompareFails PROVE HostInv'
<1>1. /\ auto \in Controllers
      /\ compare \in Comparisons
      /\ started \in Nat
      /\ ending \in {"none", "failed", "missing", "discard", "operator"}
  BY DEF HostInv, HostTypes
<1>2. UNCHANGED <<board, wire, vm, svc, tx, resets, watchdog, round, rx, poll, skip, workers,
                  started, concluded, spent>>
  BY DEF CompareFails, CompareGoes, RestingWorker, Fail, Ended, envVars, sendVars, threadVars,
     history
<1>3. /\ auto'.enabled = FALSE
      /\ auto'.round = auto.round
      /\ auto'.grant = auto.grant
      /\ auto'.skipping = FALSE
  BY <1>1 DEF CompareFails, CompareGoes, RestingWorker, Fail, Ended, Controllers
<1>4. compare'.pc = "idle" /\ compare'.of = 0
  BY <1>1 DEF CompareFails, CompareGoes, Comparisons, RestingWorker
<1>5. ending' = IF auto.enabled THEN "failed" ELSE ending
  BY <1>1 DEF CompareFails, CompareGoes, RestingWorker, Fail, Ended
<1>6. compare.pc = "fail"
  BY DEF CompareFails, CompareGoes, RestingWorker, Fail, Ended
<1>7. auto' \in Controllers
  BY <1>1 DEF CompareFails, CompareGoes, RestingWorker, Fail, Ended, Controllers
<1>8. compare' \in Comparisons
  BY <1>1 DEF CompareFails, CompareGoes, RestingWorker, Fail, Ended, Comparisons
<1>9. ending' \in {"none", "failed", "missing", "discard", "operator"}
  BY <1>1 DEF CompareFails, CompareGoes, RestingWorker, Fail, Ended
<1>10. HostTypes'
  BY <1>7, <1>8, <1>9, <1>2 DEF HostInv, HostTypes
<1>11. RxKinds'
  BY <1>2 DEF HostInv, RxKinds, StatusKind, LogKind
<1>12. Numbered'
  BY <1>3, <1>4, <1>5, <1>6, <1>2, <1>1 DEF HostInv, Numbered, Threads
<1>13. JobFits'
  BY <1>3, <1>4, <1>5, <1>6, <1>2 DEF HostInv, JobFits, NoJob
<1>14. Caused'
  BY <1>3, <1>4, <1>5, <1>6, <1>2 DEF HostInv, Caused, Waiting, Faulted
<1>15. CompareHolds'
  BY <1>3, <1>4, <1>5, <1>6, <1>2 DEF HostInv, CompareHolds
<1>16. Enabled'
  BY <1>3, <1>4, <1>5, <1>6, <1>2 DEF Enabled
<1>17. Epoch'
  BY <1>3, <1>4, <1>5, <1>6, <1>2 DEF Epoch
<1> QED
  BY <1>10, <1>11, <1>12, <1>13, <1>14, <1>15, <1>16, <1>17 DEF HostInv

(* A compared round is released when nothing of its epoch is left.           *)
LEMMA CompareReleasesKeeps == ASSUME HostInv, CompareReleases PROVE HostInv'
<1>1. /\ vm \in Jobs
      /\ auto \in Controllers
      /\ round \in Rounds
      /\ compare \in Comparisons
      /\ started \in Nat
      /\ concluded \in Nat
  BY DEF HostInv, HostTypes
<1>2. UNCHANGED <<board, wire, svc, tx, resets, watchdog, rx, poll, skip, workers, started,
                  ending, spent>>
  BY DEF CompareReleases, envVars, sendVars, threadVars, history
<1>3. compare.pc = "release" /\ auto.round = compare.of /\ compare.of # 0
  BY <1>1 DEF CompareReleases, HostInv, CompareHolds, Numbered
<1>4. CompareGoes("reset") /\ Release(auto.skipping)
  BY <1>1, <1>3 DEF CompareReleases
<1>5. compare'.pc = "reset" /\ compare'.of = compare.of /\ compare' \in Comparisons
  BY <1>1, <1>4 DEF CompareGoes, Comparisons
<1>6. /\ auto' \in Controllers /\ round' \in Rounds /\ vm' \in Jobs /\ concluded' \in Nat
      /\ auto'.enabled = auto.enabled /\ auto'.round = 0 /\ ~auto'.grant
      /\ auto'.skipping = auto.skipping
      /\ round' = FreshRound(FALSE) /\ vm' = NoJob
  BY <1>1, <1>4, ReleaseFrees DEF HostInv, HostTypes, Controllers
<1>7. HostTypes'
  BY <1>3, <1>4, <1>5, <1>6, <1>2 DEF HostInv, HostTypes
<1>8. RxKinds'
  BY <1>2 DEF HostInv, RxKinds, StatusKind, LogKind
<1>9. Numbered'
  BY <1>3, <1>4, <1>5, <1>6, <1>2, <1>1 DEF HostInv, Numbered, Threads
<1>10. JobFits'
  BY <1>3, <1>4, <1>5, <1>6, <1>2 DEF HostInv, JobFits, NoJob
<1>11. Caused'
  BY <1>3, <1>4, <1>5, <1>6, <1>2 DEF HostInv, Caused, Waiting, Faulted
<1>12. CompareHolds'
  BY <1>3, <1>4, <1>5, <1>6, <1>2 DEF HostInv, CompareHolds, Threads
<1>13. Enabled'
  <2> SUFFICES ASSUME auto'.enabled
               PROVE  PreinitLast' /\ ResetPath' /\ Discarding' /\ Announced' /\ Checking'
    BY DEF Enabled
  <2>1. auto.enabled
    BY <1>3, <1>4, <1>5, <1>6, <1>2
  <2>2. PreinitLast'
    BY <2>1, <1>2 DEF HostInv, Enabled, PreinitLast, LastBut
  <2>3. ResetPath'
    BY <2>1, <1>3, <1>4, <1>5, <1>6, <1>2 DEF HostInv, Enabled, ResetPath, Resetting, Released,
       NotBegun, Waiting, Threads, Announced, Numbered, Epoch, Ending, Discarding, Checking,
       Reported, OnlyErrors, OwnLog
  <2>4. Discarding'
    BY <2>1, <1>3, <1>4, <1>5, <1>6, <1>2 DEF HostInv, Enabled, Discarding, FreshRound, Numbered
  <2>5. Announced'
    BY <2>1, <1>3, <1>4, <1>5, <1>6, <1>2 DEF HostInv, Enabled, Announced, Waiting, OnlyErrors,
       Settled, Released, NotBegun, Threads, ResetPath, Numbered
  <2>6. Checking'
    BY <2>1, <1>3, <1>4, <1>5, <1>6, <1>2 DEF HostInv, Enabled, Checking, OnlyErrors, Waiting,
       Faulted, Numbered
  <2> QED
    BY <2>2, <2>3, <2>4, <2>5, <2>6
<1>14. Epoch'
  <2> SUFFICES ASSUME auto'.enabled, ~auto'.skipping
               PROVE  WireOrder' /\ NotYet' /\ AtGrant' /\ OwnLog' /\ Captured' /\ Reported' /\
                  Ending'
    BY DEF Epoch
  <2>1. auto.enabled /\ ~auto.skipping
    BY <1>3, <1>4, <1>5, <1>6, <1>2
  <2>2. WireOrder'
    BY <2>1, <1>2 DEF HostInv, Epoch, WireOrder, LastBut
  <2>3. NotYet'
    BY <2>1, <1>3, <1>4, <1>5, <1>6, <1>2 DEF HostInv, Epoch, NotYet, Waiting, FreshRound
  <2>4. AtGrant'
    BY <2>1, <1>3, <1>4, <1>5, <1>6, <1>2 DEF HostInv, Epoch, AtGrant, Granted, OnlyErrors,
       Waiting, Faulted, Ending, FreshRound
  <2>5. OwnLog'
    BY <2>1, <1>3, <1>4, <1>5, <1>6, <1>2 DEF HostInv, Epoch, OwnLog, LogAbout, Waiting,
       OnlyErrors, LogKinds, LogKind, Ending, FreshRound
  <2>6. Captured'
    BY <2>1, <1>3, <1>4, <1>5, <1>6, <1>2 DEF HostInv, Epoch, Captured, LogKind, FreshRound,
       Ending, RxKinds
  <2>7. Reported'
    BY <2>1, <1>3, <1>4, <1>5, <1>6, <1>2 DEF HostInv, Epoch, Reported, Reached, Far, Numbered,
       FreshRound, NoJob
  <2>8. Ending'
    BY <2>1, <1>3, <1>4, <1>5, <1>6, <1>2 DEF HostInv, Epoch, Ending, OnlyErrors, Waiting,
       Numbered, Threads, FreshRound
  <2> QED
    BY <2>2, <2>3, <2>4, <2>5, <2>6, <2>7, <2>8
<1> QED
  BY <1>7, <1>8, <1>9, <1>10, <1>11, <1>12, <1>13, <1>14 DEF HostInv

(* The reset after a comparison.                                             *)
LEMMA CompareResetsKeeps == ASSUME HostInv, CompareResets PROVE HostInv'
<1>1. /\ svc \in Services
      /\ tx \in Transfers
      /\ resets \in Seq(Nat)
      /\ compare \in Comparisons
      /\ started \in Nat
  BY DEF HostInv, HostTypes
<1>2. UNCHANGED <<board, wire, vm, watchdog, auto, round, rx, poll, skip, workers, started,
                  concluded, ending, spent>>
  BY DEF CompareResets, SendBoardReset, envVars, sendVars, threadVars, history
<1>3. /\ svc'.board = "RESETTING"
      /\ svc'.allowed = svc.allowed
      /\ svc'.seen = svc.seen
  BY <1>1 DEF CompareResets, SendBoardReset, Services
<1>4. /\ tx'.by = tx.by
      /\ tx'.of = tx.of
  BY <1>1 DEF CompareResets, SendBoardReset, Transfers
<1>5. resets' # <<>>
  BY <1>1, ResetQueued DEF CompareResets, SendBoardReset
<1>6. compare'.pc = "idle" /\ compare'.of = 0
  BY <1>1 DEF CompareResets, CompareGoes, RestingWorker, Comparisons
<1>7. compare.pc = "reset"
  BY DEF CompareResets, SendBoardReset
<1>8. svc' \in Services
  BY <1>1 DEF CompareResets, SendBoardReset, Services
<1>9. tx' \in Transfers
  BY <1>1 DEF CompareResets, SendBoardReset, Transfers
<1>10. resets' \in Seq(Nat)
  BY <1>1 DEF CompareResets, SendBoardReset
<1>11. compare' \in Comparisons
  BY <1>1 DEF CompareResets, SendBoardReset, Comparisons, CompareGoes, RestingWorker
<1>12. HostTypes'
  BY <1>8, <1>9, <1>10, <1>11, <1>2 DEF HostInv, HostTypes
<1>13. RxKinds' /\ JobFits'
  BY <1>2 DEF HostInv, RxKinds, StatusKind, LogKind, JobFits, NoJob
<1>14. Numbered'
  BY <1>3, <1>4, <1>5, <1>6, <1>7, <1>2, <1>1 DEF HostInv, Numbered, Threads
<1>15. Caused'
  BY <1>3, <1>4, <1>5, <1>6, <1>7, <1>2 DEF HostInv, Caused, Waiting, Faulted
<1>16. CompareHolds'
  BY <1>3, <1>4, <1>5, <1>6, <1>7, <1>2 DEF HostInv, CompareHolds, Threads
<1>17. Enabled'
  <2> SUFFICES ASSUME auto'.enabled
               PROVE  PreinitLast' /\ ResetPath' /\ Discarding' /\ Announced' /\ Checking'
    BY DEF Enabled
  <2>1. auto.enabled
    BY <1>3, <1>4, <1>5, <1>6, <1>7, <1>2
  <2>2. PreinitLast' /\ Discarding'
    BY <2>1, <1>2 DEF HostInv, Enabled, PreinitLast, LastBut, Discarding, FreshRound
  <2>3. ResetPath'
    BY <2>1, <1>3, <1>4, <1>5, <1>6, <1>7, <1>2 DEF HostInv, Enabled, ResetPath, Resetting,
       Released, NotBegun, Waiting, Threads
  <2>4. Announced'
    BY <2>1, <1>3, <1>4, <1>5, <1>6, <1>7, <1>2 DEF HostInv, Enabled, Announced, Waiting,
       OnlyErrors, Settled, Released, NotBegun, Threads, ResetPath, Resetting
  <2>5. Checking'
    BY <2>1, <1>3, <1>4, <1>5, <1>6, <1>7, <1>2 DEF HostInv, Enabled, Checking, OnlyErrors,
       Waiting, Faulted, ResetPath, Released, NotBegun, Resetting
  <2> QED
    BY <2>2, <2>3, <2>4, <2>5
<1>18. Epoch'
  <2> SUFFICES ASSUME auto'.enabled, ~auto'.skipping
               PROVE  WireOrder' /\ NotYet' /\ AtGrant' /\ OwnLog' /\ Captured' /\ Reported' /\
                  Ending'
    BY DEF Epoch
  <2>1. auto.enabled /\ ~auto.skipping
    BY <1>3, <1>4, <1>5, <1>6, <1>7, <1>2
  <2>2. WireOrder' /\ NotYet' /\ Reported'
    BY <2>1, <1>2 DEF HostInv, Epoch, WireOrder, LastBut, NotYet, Waiting, Reported, Reached, Far
  <2>3. AtGrant'
    BY <2>1, <1>3, <1>4, <1>5, <1>6, <1>7, <1>2 DEF HostInv, Epoch, AtGrant, Granted, OnlyErrors,
       Waiting, Faulted
  <2>4. OwnLog'
    BY <2>1, <1>3, <1>4, <1>5, <1>6, <1>7, <1>2 DEF HostInv, Epoch, OwnLog, LogAbout, Waiting,
       OnlyErrors, LogKinds, LogKind
  <2>5. Captured'
    BY <2>1, <1>3, <1>4, <1>5, <1>6, <1>7, <1>2 DEF HostInv, Epoch, Captured, LogKind
  <2>6. Ending'
    BY <2>1, <1>3, <1>4, <1>5, <1>6, <1>7, <1>2 DEF HostInv, Epoch, Ending, OnlyErrors, Waiting,
       Numbered, Threads
  <2> QED
    BY <2>2, <2>3, <2>4, <2>5, <2>6
<1> QED
  BY <1>12, <1>13, <1>14, <1>15, <1>16, <1>17, <1>18 DEF HostInv

(* The check is refused only if the board has failed.                        *)
LEMMA PreSendsKeeps == ASSUME HostInv, PreSends PROVE HostInv'
<1>1. /\ tx \in Transfers
      /\ workers \in WorkerSets
  BY DEF HostInv, HostTypes
<1>2. UNCHANGED <<board, wire, vm, svc, resets, watchdog, auto, round, rx, poll, compare, skip,
                  started, concluded, ending, spent>>
  BY DEF PreSends, envVars, sendVars, threadVars, history
<1>3. /\ tx'.by = IF svc.board = "PRECONFIG" /\ tx.by = "none" THEN "CHECK" ELSE tx.by
      /\ tx'.of = IF svc.board = "PRECONFIG" /\ tx.by = "none" THEN 0 ELSE tx.of
  BY <1>1 DEF PreSends, Transfers
<1>4. /\ workers'.pre = IF svc.board = "PRECONFIG" /\ tx.by = "none" THEN "sent" ELSE "fail"
      /\ workers'.starters = workers.starters
      /\ workers'.launch = workers.launch
      /\ workers'.sender = workers.sender
  BY <1>1 DEF PreSends, WorkerSets
<1>5. /\ workers.pre = "send"
      /\ (svc.board = "PRECONFIG" /\ tx.by = "none") => tx' = [by |-> "CHECK", of |-> 0, cancel
                      |-> FALSE]
      /\ ~(svc.board = "PRECONFIG" /\ tx.by = "none") => tx' = tx
  BY DEF PreSends
<1>6. tx' \in Transfers
  BY <1>1, <1>5, TransferTyped
<1>7. workers' \in WorkerSets
  BY <1>1 DEF PreSends, WorkerSets, Senders
<1>8. HostTypes'
  BY <1>6, <1>7, <1>2 DEF HostInv, HostTypes
<1>9. RxKinds' /\ CompareHolds'
  BY <1>2 DEF HostInv, RxKinds, StatusKind, LogKind, CompareHolds
<1>10. Numbered'
  BY <1>3, <1>4, <1>5, <1>2 DEF HostInv, Numbered
<1>11. JobFits'
  BY <1>3, <1>4, <1>5, <1>2 DEF HostInv, JobFits, NoJob
<1>12. Caused'
  BY <1>3, <1>4, <1>5, <1>2 DEF HostInv, Caused, Waiting, Faulted, Enabled, Checking
<1>13. Enabled'
  <2> SUFFICES ASSUME auto'.enabled
               PROVE  PreinitLast' /\ ResetPath' /\ Discarding' /\ Announced' /\ Checking'
    BY DEF Enabled
  <2>1. auto.enabled
    BY <1>3, <1>4, <1>5, <1>2
  <2>2. PreinitLast' /\ Discarding'
    BY <2>1, <1>2 DEF HostInv, Enabled, PreinitLast, LastBut, Discarding, FreshRound
  <2>3. ResetPath'
    BY <2>1, <1>3, <1>4, <1>5, <1>2 DEF HostInv, Enabled, ResetPath, Resetting, Released,
       NotBegun, Waiting, Checking
  <2>4. Announced'
    BY <2>1, <1>3, <1>4, <1>5, <1>2 DEF HostInv, Enabled, Announced, Waiting, OnlyErrors, Settled,
       Released, NotBegun
  <2>5. Checking'
    BY <2>1, <1>3, <1>4, <1>5, <1>2 DEF HostInv, Enabled, Checking, OnlyErrors, Waiting, Faulted
  <2> QED
    BY <2>2, <2>3, <2>4, <2>5
<1>14. Epoch'
  <2> SUFFICES ASSUME auto'.enabled, ~auto'.skipping
               PROVE  WireOrder' /\ NotYet' /\ AtGrant' /\ OwnLog' /\ Captured' /\ Reported' /\
                  Ending'
    BY DEF Epoch
  <2>1. auto.enabled /\ ~auto.skipping
    BY <1>3, <1>4, <1>5, <1>2
  <2>2. WireOrder' /\ NotYet' /\ Captured'
    BY <2>1, <1>2 DEF HostInv, Epoch, WireOrder, LastBut, NotYet, Waiting, Captured, LogKind
  <2>3. AtGrant'
    BY <2>1, <1>3, <1>4, <1>5, <1>2 DEF HostInv, Epoch, AtGrant, Granted, OnlyErrors, Waiting,
       Faulted, Enabled, Checking, Discarding, FreshRound
  <2>4. OwnLog'
    BY <2>1, <1>3, <1>4, <1>5, <1>2 DEF HostInv, Epoch, OwnLog, LogAbout, Waiting, OnlyErrors,
       LogKinds, LogKind, Enabled, Checking
  <2>5. Reported'
    BY <2>1, <1>3, <1>4, <1>5, <1>2 DEF HostInv, Epoch, Reported, Reached, Far
  <2>6. Ending'
    BY <2>1, <1>3, <1>4, <1>5, <1>2 DEF HostInv, Epoch, Ending, OnlyErrors, Waiting, Enabled,
       Checking, Discarding, FreshRound
  <2> QED
    BY <2>2, <2>3, <2>4, <2>5, <2>6
<1> QED
  BY <1>8, <1>9, <1>10, <1>11, <1>12, <1>13, <1>14 DEF HostInv

(* The check is on its way.                                                  *)
LEMMA PreSentKeeps == ASSUME HostInv, PreSent PROVE HostInv'
<1>1. /\ auto \in Controllers
      /\ workers \in WorkerSets
  BY DEF HostInv, HostTypes
<1>2. UNCHANGED <<board, wire, vm, svc, tx, resets, watchdog, round, rx, poll, compare, skip,
                  started, concluded, ending, spent>>
  BY DEF PreSent, envVars, sendVars, threadVars, history
<1>3. /\ auto'.enabled = auto.enabled
      /\ auto'.round = auto.round
      /\ auto'.grant = auto.grant
      /\ auto'.skipping = auto.skipping
  BY <1>1 DEF PreSent, Controllers
<1>4. /\ workers'.pre = "end"
      /\ workers'.starters = workers.starters
      /\ workers'.launch = workers.launch
      /\ workers'.sender = workers.sender
  BY <1>1 DEF PreSent, WorkerSets
<1>5. workers.pre = "sent"
  BY DEF PreSent
<1>6. auto' \in Controllers
  BY <1>1 DEF PreSent, Controllers
<1>7. workers' \in WorkerSets
  BY <1>1 DEF PreSent, WorkerSets, Senders
<1>8. HostTypes'
  BY <1>6, <1>7, <1>2 DEF HostInv, HostTypes
<1>9. RxKinds'
  BY <1>2 DEF HostInv, RxKinds, StatusKind, LogKind
<1>10. Numbered'
  BY <1>3, <1>4, <1>5, <1>2 DEF HostInv, Numbered
<1>11. JobFits'
  BY <1>3, <1>4, <1>5, <1>2 DEF HostInv, JobFits, NoJob
<1>12. Caused'
  BY <1>3, <1>4, <1>5, <1>2 DEF HostInv, Caused, Waiting, Faulted
<1>13. CompareHolds'
  BY <1>3, <1>4, <1>5, <1>2 DEF HostInv, CompareHolds
<1>14. Enabled'
  <2> SUFFICES ASSUME auto'.enabled
               PROVE  PreinitLast' /\ ResetPath' /\ Discarding' /\ Announced' /\ Checking'
    BY DEF Enabled
  <2>1. auto.enabled
    BY <1>3, <1>4, <1>5, <1>2
  <2>2. PreinitLast'
    BY <2>1, <1>2 DEF HostInv, Enabled, PreinitLast, LastBut
  <2>3. ResetPath'
    BY <2>1, <1>3, <1>4, <1>5, <1>2 DEF HostInv, Enabled, ResetPath, Resetting, Released,
       NotBegun, Waiting
  <2>4. Discarding'
    BY <2>1, <1>3, <1>4, <1>5, <1>2 DEF HostInv, Enabled, Discarding, FreshRound
  <2>5. Announced'
    BY <2>1, <1>3, <1>4, <1>5, <1>2 DEF HostInv, Enabled, Announced, Waiting, OnlyErrors, Settled,
       Released, NotBegun
  <2>6. Checking'
    BY <2>1, <1>3, <1>4, <1>5, <1>2 DEF HostInv, Enabled, Checking, OnlyErrors, Waiting, Faulted
  <2> QED
    BY <2>2, <2>3, <2>4, <2>5, <2>6
<1>15. Epoch'
  <2> SUFFICES ASSUME auto'.enabled, ~auto'.skipping
               PROVE  WireOrder' /\ NotYet' /\ AtGrant' /\ OwnLog' /\ Captured' /\ Reported' /\
                  Ending'
    BY DEF Epoch
  <2>1. auto.enabled /\ ~auto.skipping
    BY <1>3, <1>4, <1>5, <1>2
  <2>2. WireOrder'
    BY <2>1, <1>2 DEF HostInv, Epoch, WireOrder, LastBut
  <2>3. NotYet'
    BY <2>1, <1>3, <1>4, <1>5, <1>2 DEF HostInv, Epoch, NotYet, Waiting
  <2>4. AtGrant'
    BY <2>1, <1>3, <1>4, <1>5, <1>2 DEF HostInv, Epoch, AtGrant, Granted, OnlyErrors, Waiting,
       Faulted
  <2>5. OwnLog'
    BY <2>1, <1>3, <1>4, <1>5, <1>2 DEF HostInv, Epoch, OwnLog, LogAbout, Waiting, OnlyErrors,
       LogKinds, LogKind
  <2>6. Captured'
    BY <2>1, <1>3, <1>4, <1>5, <1>2 DEF HostInv, Epoch, Captured, LogKind
  <2>7. Reported'
    BY <2>1, <1>3, <1>4, <1>5, <1>2 DEF HostInv, Epoch, Reported, Reached, Far
  <2>8. Ending'
    BY <2>1, <1>3, <1>4, <1>5, <1>2 DEF HostInv, Epoch, Ending, OnlyErrors, Waiting
  <2> QED
    BY <2>2, <2>3, <2>4, <2>5, <2>6, <2>7, <2>8
<1> QED
  BY <1>8, <1>9, <1>10, <1>11, <1>12, <1>13, <1>14, <1>15 DEF HostInv

(* The session ends for the refused check.                                   *)
LEMMA PreFailsKeeps == ASSUME HostInv, PreFails PROVE HostInv'
<1>1. /\ auto \in Controllers
      /\ workers \in WorkerSets
      /\ ending \in {"none", "failed", "missing", "discard", "operator"}
  BY DEF HostInv, HostTypes
<1>2. UNCHANGED <<board, wire, vm, svc, tx, resets, watchdog, round, rx, poll, compare, skip,
                  started, concluded, spent>>
  BY DEF PreFails, Fail, Ended, envVars, sendVars, threadVars, history
<1>3. /\ auto'.enabled = FALSE
      /\ auto'.round = auto.round
      /\ auto'.grant = auto.grant
      /\ auto'.skipping = FALSE
  BY <1>1 DEF PreFails, Fail, Ended, Controllers
<1>4. /\ workers'.pre = "end"
      /\ workers'.starters = workers.starters
      /\ workers'.launch = workers.launch
      /\ workers'.sender = workers.sender
  BY <1>1 DEF PreFails, Fail, Ended, WorkerSets
<1>5. ending' = IF auto.enabled THEN "failed" ELSE ending
  BY <1>1 DEF PreFails, Fail, Ended
<1>6. workers.pre = "fail"
  BY DEF PreFails, Fail, Ended
<1>7. auto' \in Controllers
  BY <1>1 DEF PreFails, Fail, Ended, Controllers
<1>8. workers' \in WorkerSets
  BY <1>1 DEF PreFails, Fail, Ended, WorkerSets, Senders
<1>9. ending' \in {"none", "failed", "missing", "discard", "operator"}
  BY <1>1 DEF PreFails, Fail, Ended
<1>10. HostTypes'
  BY <1>7, <1>8, <1>9, <1>2 DEF HostInv, HostTypes
<1>11. RxKinds'
  BY <1>2 DEF HostInv, RxKinds, StatusKind, LogKind
<1>12. Numbered'
  BY <1>3, <1>4, <1>5, <1>6, <1>2 DEF HostInv, Numbered
<1>13. JobFits'
  BY <1>3, <1>4, <1>5, <1>6, <1>2 DEF HostInv, JobFits, NoJob
<1>14. Caused'
  BY <1>3, <1>4, <1>5, <1>6, <1>2 DEF HostInv, Caused, Waiting, Faulted
<1>15. CompareHolds'
  BY <1>3, <1>4, <1>5, <1>6, <1>2 DEF HostInv, CompareHolds
<1>16. Enabled'
  BY <1>3, <1>4, <1>5, <1>6, <1>2 DEF Enabled
<1>17. Epoch'
  BY <1>3, <1>4, <1>5, <1>6, <1>2 DEF Epoch
<1> QED
  BY <1>10, <1>11, <1>12, <1>13, <1>14, <1>15, <1>16, <1>17 DEF HostInv

(* The preconfig worker ends.                                                *)
LEMMA PreEndsKeeps == ASSUME HostInv, PreEnds PROVE HostInv'
<1>1. /\ auto \in Controllers
      /\ workers \in WorkerSets
  BY DEF HostInv, HostTypes
<1>2. UNCHANGED <<board, wire, vm, svc, tx, resets, watchdog, round, rx, poll, compare, skip,
                  started, concluded, ending, spent>>
  BY DEF PreEnds, envVars, sendVars, threadVars, history
<1>3. /\ auto'.enabled = auto.enabled
      /\ auto'.round = auto.round
      /\ auto'.grant = auto.grant
      /\ auto'.skipping = auto.skipping
  BY <1>1 DEF PreEnds, Controllers
<1>4. /\ workers'.pre = "idle"
      /\ workers'.starters = workers.starters
      /\ workers'.launch = workers.launch
      /\ workers'.sender = workers.sender
  BY <1>1 DEF PreEnds, WorkerSets
<1>5. workers.pre = "end"
  BY DEF PreEnds
<1>6. auto' \in Controllers
  BY <1>1 DEF PreEnds, Controllers
<1>7. workers' \in WorkerSets
  BY <1>1 DEF PreEnds, WorkerSets, Senders
<1>8. HostTypes'
  BY <1>6, <1>7, <1>2 DEF HostInv, HostTypes
<1>9. RxKinds'
  BY <1>2 DEF HostInv, RxKinds, StatusKind, LogKind
<1>10. Numbered'
  BY <1>3, <1>4, <1>5, <1>2 DEF HostInv, Numbered
<1>11. JobFits'
  BY <1>3, <1>4, <1>5, <1>2 DEF HostInv, JobFits, NoJob
<1>12. Caused'
  BY <1>3, <1>4, <1>5, <1>2 DEF HostInv, Caused, Waiting, Faulted
<1>13. CompareHolds'
  BY <1>3, <1>4, <1>5, <1>2 DEF HostInv, CompareHolds
<1>14. Enabled'
  <2> SUFFICES ASSUME auto'.enabled
               PROVE  PreinitLast' /\ ResetPath' /\ Discarding' /\ Announced' /\ Checking'
    BY DEF Enabled
  <2>1. auto.enabled
    BY <1>3, <1>4, <1>5, <1>2
  <2>2. PreinitLast'
    BY <2>1, <1>2 DEF HostInv, Enabled, PreinitLast, LastBut
  <2>3. ResetPath'
    BY <2>1, <1>3, <1>4, <1>5, <1>2 DEF HostInv, Enabled, ResetPath, Resetting, Released,
       NotBegun, Waiting
  <2>4. Discarding'
    BY <2>1, <1>3, <1>4, <1>5, <1>2 DEF HostInv, Enabled, Discarding, FreshRound
  <2>5. Announced'
    BY <2>1, <1>3, <1>4, <1>5, <1>2 DEF HostInv, Enabled, Announced, Waiting, OnlyErrors, Settled,
       Released, NotBegun
  <2>6. Checking'
    BY <2>1, <1>3, <1>4, <1>5, <1>2 DEF HostInv, Enabled, Checking, OnlyErrors, Waiting, Faulted
  <2> QED
    BY <2>2, <2>3, <2>4, <2>5, <2>6
<1>15. Epoch'
  <2> SUFFICES ASSUME auto'.enabled, ~auto'.skipping
               PROVE  WireOrder' /\ NotYet' /\ AtGrant' /\ OwnLog' /\ Captured' /\ Reported' /\
                  Ending'
    BY DEF Epoch
  <2>1. auto.enabled /\ ~auto.skipping
    BY <1>3, <1>4, <1>5, <1>2
  <2>2. WireOrder'
    BY <2>1, <1>2 DEF HostInv, Epoch, WireOrder, LastBut
  <2>3. NotYet'
    BY <2>1, <1>3, <1>4, <1>5, <1>2 DEF HostInv, Epoch, NotYet, Waiting
  <2>4. AtGrant'
    BY <2>1, <1>3, <1>4, <1>5, <1>2 DEF HostInv, Epoch, AtGrant, Granted, OnlyErrors, Waiting,
       Faulted
  <2>5. OwnLog'
    BY <2>1, <1>3, <1>4, <1>5, <1>2 DEF HostInv, Epoch, OwnLog, LogAbout, Waiting, OnlyErrors,
       LogKinds, LogKind
  <2>6. Captured'
    BY <2>1, <1>3, <1>4, <1>5, <1>2 DEF HostInv, Epoch, Captured, LogKind
  <2>7. Reported'
    BY <2>1, <1>3, <1>4, <1>5, <1>2 DEF HostInv, Epoch, Reported, Reached, Far
  <2>8. Ending'
    BY <2>1, <1>3, <1>4, <1>5, <1>2 DEF HostInv, Epoch, Ending, OnlyErrors, Waiting
  <2> QED
    BY <2>2, <2>3, <2>4, <2>5, <2>6, <2>7, <2>8
<1> QED
  BY <1>8, <1>9, <1>10, <1>11, <1>12, <1>13, <1>14, <1>15 DEF HostInv

(* A new round finds nothing of an earlier one on its way.                   *)
LEMMA InstallsRoundKeeps ==
    ASSUME HostInv, auto.enabled /\ ~auto.skipping /\ auto.round = 0 /\ started < MaxRounds,
           Installs
    PROVE  HostInv'
<1>1. /\ auto \in Controllers
      /\ round \in Rounds
      /\ poll \in Polls
      /\ compare \in Comparisons
      /\ skip \in [Threads -> Discards]
      /\ workers \in WorkerSets
      /\ started \in Nat
  BY DEF HostInv, HostTypes
<1>2. UNCHANGED <<board, wire, vm, svc, tx, resets, watchdog, rx, poll, compare, skip, concluded,
                  ending, spent>>
  BY DEF Installs, envVars, sendVars, threadVars, history
<1>3. /\ auto'.enabled = auto.enabled
      /\ auto'.round = started + 1
      /\ auto'.grant = FALSE
      /\ auto'.skipping = auto.skipping
  BY <1>1 DEF Installs, Controllers
<1>4. /\ round'.ready = auto.grant
      /\ round'.sent = FALSE
      /\ round'.dones = {}
      /\ round'.over = FALSE
      /\ round'.comparing = FALSE
      /\ round'.status = NoJob
      /\ round'.closed = FALSE
      /\ round'.log = {}
  BY <1>1 DEF Installs, Rounds, FreshRound
<1>5. /\ workers'.pre = workers.pre
      /\ workers'.starters = workers.starters - 1
      /\ workers'.launch = started + 1
      /\ workers'.sender = workers.sender
  BY <1>1 DEF Installs, WorkerSets
<1>6. started' = started + 1
  BY <1>1 DEF Installs
<1>7. /\ workers.starters > 0
      /\ round' = FreshRound(auto.grant)
      /\ started' = started + 1
      /\ workers' = [workers EXCEPT !.starters = workers.starters - 1, !.launch = started + 1]
      /\ auto' = [auto EXCEPT !.round = started + 1, !.grant = FALSE]
  BY DEF Installs
<1>8. auto' \in Controllers
  BY <1>1, <1>7, InstallTyped DEF HostInv
<1>9. round' \in Rounds
  BY <1>1, <1>3, <1>4, <1>5, <1>6, <1>7, FreshTyped DEF Installs, Rounds, Controllers
<1>10. workers' \in WorkerSets
  BY <1>1, <1>7, InstallTyped DEF HostInv
<1>11. started' \in Nat
  BY <1>1 DEF Installs
<1>12. HostTypes'
  BY <1>8, <1>9, <1>10, <1>11, <1>2 DEF HostInv, HostTypes
<1>13. RxKinds'
  BY <1>2 DEF HostInv, RxKinds, StatusKind, LogKind
<1>14. Numbered'
  BY <1>3, <1>4, <1>5, <1>6, <1>7, <1>2, <1>1 DEF HostInv, Numbered, Threads, Controllers,
     WorkerSets, Polls, Comparisons, Discards
<1>15. JobFits'
  BY <1>3, <1>4, <1>5, <1>6, <1>7, <1>2, <1>1 DEF HostInv, JobFits, NoJob, Controllers
<1>16. Caused'
  BY <1>3, <1>4, <1>5, <1>6, <1>7, <1>2 DEF HostInv, Caused, Waiting, Faulted
<1>17. CompareHolds'
  BY <1>3, <1>4, <1>5, <1>6, <1>7, <1>2 DEF HostInv, CompareHolds, Numbered
<1>18. Enabled'
  <2> SUFFICES ASSUME auto'.enabled
               PROVE  PreinitLast' /\ ResetPath' /\ Discarding' /\ Announced' /\ Checking'
    BY DEF Enabled
  <2>1. auto.enabled
    BY <1>3, <1>4, <1>5, <1>6, <1>7, <1>2
  <2>2. PreinitLast'
    BY <2>1, <1>2 DEF HostInv, Enabled, PreinitLast, LastBut
  <2>3. ResetPath'
    BY <2>1, <1>3, <1>4, <1>5, <1>6, <1>7, <1>2 DEF HostInv, Enabled, ResetPath, Resetting,
       Released, NotBegun, Waiting
  <2>4. Discarding'
    BY <2>1, <1>3, <1>4, <1>5, <1>6, <1>7, <1>2, <1>1 DEF HostInv, Enabled, Discarding,
       FreshRound, Epoch, OwnLog
  <2>5. Announced'
    BY <2>1, <1>3, <1>4, <1>5, <1>6, <1>7, <1>2 DEF HostInv, Enabled, Announced, Waiting,
       OnlyErrors, Settled, Released, NotBegun
  <2>6. Checking'
    BY <2>1, <1>3, <1>4, <1>5, <1>6, <1>7, <1>2 DEF HostInv, Enabled, Checking, OnlyErrors,
       Waiting, Faulted
  <2> QED
    BY <2>2, <2>3, <2>4, <2>5, <2>6
<1>19. Epoch'
  <2> SUFFICES ASSUME auto'.enabled, ~auto'.skipping
               PROVE  WireOrder' /\ NotYet' /\ AtGrant' /\ OwnLog' /\ Captured' /\ Reported' /\
                  Ending'
    BY DEF Epoch
  <2>1. auto.enabled /\ ~auto.skipping
    BY <1>3, <1>4, <1>5, <1>6, <1>7, <1>2
  <2>2. WireOrder'
    BY <2>1, <1>2 DEF HostInv, Epoch, WireOrder, LastBut
  <2>3. NotYet'
    BY <2>1, <1>3, <1>4, <1>5, <1>6, <1>7, <1>2 DEF HostInv, Epoch, NotYet, Waiting
  <2>4. AtGrant'
    BY <2>1, <1>3, <1>4, <1>5, <1>6, <1>7, <1>2 DEF HostInv, Epoch, AtGrant, Granted, OnlyErrors,
       Waiting, Faulted
  <2>5. OwnLog'
    BY <2>1, <1>3, <1>4, <1>5, <1>6, <1>7, <1>2 DEF HostInv, Epoch, OwnLog, LogAbout, Waiting,
       OnlyErrors, LogKinds, LogKind
  <2>6. Captured'
    BY <2>1, <1>3, <1>4, <1>5, <1>6, <1>7, <1>2 DEF HostInv, Epoch, Captured, LogKind, OwnLog,
       LogAbout, RxKinds, LogKinds
  <2>7. Reported'
    BY <2>1, <1>3, <1>4, <1>5, <1>6, <1>7, <1>2, <1>1 DEF HostInv, Epoch, Reported, Reached, Far,
       Numbered, JobFits, NoJob, Polls
  <2>8. Ending'
    BY <2>1, <1>3, <1>4, <1>5, <1>6, <1>7, <1>2, <1>1 DEF HostInv, Epoch, Ending, OnlyErrors,
       Waiting, Numbered, CompareHolds, Threads, Discards
  <2> QED
    BY <2>2, <2>3, <2>4, <2>5, <2>6, <2>7, <2>8
<1> QED
  BY <1>12, <1>13, <1>14, <1>15, <1>16, <1>17, <1>18, <1>19 DEF HostInv

(* A start worker that comes too late or too early.                          *)
LEMMA InstallsNoneKeeps ==
    ASSUME HostInv, ~(auto.enabled /\ ~auto.skipping /\ auto.round = 0 /\ started < MaxRounds),
           Installs
    PROVE  HostInv'
<1>1. workers \in WorkerSets
  BY DEF HostInv, HostTypes
<1>2. UNCHANGED <<board, wire, vm, svc, tx, resets, watchdog, auto, round, rx, poll, compare,
                  skip, started, concluded, ending, spent>>
  BY DEF Installs, envVars, sendVars, threadVars, history
<1>3. /\ workers'.pre = workers.pre
      /\ workers'.starters = workers.starters - 1
      /\ workers'.launch = workers.launch
      /\ workers'.sender = workers.sender
  BY <1>1 DEF Installs, WorkerSets
<1>4. /\ workers.starters > 0
      /\ workers' = [workers EXCEPT !.starters = workers.starters - 1]
  BY DEF Installs
<1>5. workers' \in WorkerSets
  BY <1>1, <1>3, <1>4 DEF Installs, WorkerSets, Senders
<1>6. HostTypes'
  BY <1>5, <1>2 DEF HostInv, HostTypes
<1>7. RxKinds' /\ CompareHolds'
  BY <1>2 DEF HostInv, RxKinds, StatusKind, LogKind, CompareHolds
<1>8. Numbered'
  BY <1>3, <1>4, <1>2 DEF HostInv, Numbered
<1>9. JobFits'
  BY <1>3, <1>4, <1>2 DEF HostInv, JobFits, NoJob
<1>10. Caused'
  BY <1>3, <1>4, <1>2 DEF HostInv, Caused, Waiting, Faulted
<1>11. Enabled'
  <2> SUFFICES ASSUME auto'.enabled
               PROVE  PreinitLast' /\ ResetPath' /\ Discarding' /\ Announced' /\ Checking'
    BY DEF Enabled
  <2>1. auto.enabled
    BY <1>3, <1>4, <1>2
  <2>2. PreinitLast' /\ Discarding'
    BY <2>1, <1>2 DEF HostInv, Enabled, PreinitLast, LastBut, Discarding, FreshRound
  <2>3. ResetPath'
    BY <2>1, <1>3, <1>4, <1>2 DEF HostInv, Enabled, ResetPath, Resetting, Released, NotBegun,
       Waiting
  <2>4. Announced'
    BY <2>1, <1>3, <1>4, <1>2 DEF HostInv, Enabled, Announced, Waiting, OnlyErrors, Settled,
       Released, NotBegun
  <2>5. Checking'
    BY <2>1, <1>3, <1>4, <1>2 DEF HostInv, Enabled, Checking, OnlyErrors, Waiting, Faulted
  <2> QED
    BY <2>2, <2>3, <2>4, <2>5
<1>12. Epoch'
  <2> SUFFICES ASSUME auto'.enabled, ~auto'.skipping
               PROVE  WireOrder' /\ NotYet' /\ AtGrant' /\ OwnLog' /\ Captured' /\ Reported' /\
                  Ending'
    BY DEF Epoch
  <2>1. auto.enabled /\ ~auto.skipping
    BY <1>3, <1>4, <1>2
  <2>2. WireOrder' /\ NotYet' /\ Captured'
    BY <2>1, <1>2 DEF HostInv, Epoch, WireOrder, LastBut, NotYet, Waiting, Captured, LogKind
  <2>3. AtGrant'
    BY <2>1, <1>3, <1>4, <1>2 DEF HostInv, Epoch, AtGrant, Granted, OnlyErrors, Waiting, Faulted
  <2>4. OwnLog'
    BY <2>1, <1>3, <1>4, <1>2 DEF HostInv, Epoch, OwnLog, LogAbout, Waiting, OnlyErrors, LogKinds,
       LogKind
  <2>5. Reported'
    BY <2>1, <1>3, <1>4, <1>2 DEF HostInv, Epoch, Reported, Reached, Far
  <2>6. Ending'
    BY <2>1, <1>3, <1>4, <1>2 DEF HostInv, Epoch, Ending, OnlyErrors, Waiting
  <2> QED
    BY <2>2, <2>3, <2>4, <2>5, <2>6
<1> QED
  BY <1>6, <1>7, <1>8, <1>9, <1>10, <1>11, <1>12 DEF HostInv

(* The VM gets the job of the current round.                                 *)
LEMMA LaunchesKeeps == ASSUME HostInv, Launches PROVE HostInv'
<1>1. /\ vm \in Jobs
      /\ auto \in Controllers
      /\ workers \in WorkerSets
      /\ started \in Nat
  BY DEF HostInv, HostTypes
<1>2. UNCHANGED <<board, wire, svc, tx, resets, watchdog, auto, round, rx, poll, compare, skip,
                  started, concluded, ending, spent>>
  BY DEF Launches, envVars, sendVars, threadVars, history
<1>3. /\ vm'.at = IF auto.round = workers.launch THEN "generating" ELSE vm.at
      /\ vm'.failed = vm.failed
  BY <1>1 DEF Launches, Jobs, VmStates
<1>4. /\ workers'.pre = workers.pre
      /\ workers'.starters = workers.starters
      /\ workers'.launch = 0
      /\ workers'.sender = workers.sender
  BY <1>1 DEF Launches, WorkerSets
<1>5. /\ workers.launch # 0
      /\ auto.round # workers.launch => vm' = vm
  BY DEF Launches
<1>6. vm' \in Jobs
  BY <1>1 DEF Launches, Jobs, VmStates
<1>7. workers' \in WorkerSets
  BY <1>1 DEF Launches, WorkerSets, Senders
<1>8. HostTypes'
  BY <1>6, <1>7, <1>2 DEF HostInv, HostTypes
<1>9. RxKinds' /\ CompareHolds'
  BY <1>2 DEF HostInv, RxKinds, StatusKind, LogKind, CompareHolds
<1>10. Numbered'
  BY <1>3, <1>4, <1>5, <1>2, <1>1 DEF HostInv, Numbered, Controllers
<1>11. JobFits'
  BY <1>3, <1>4, <1>5, <1>2, <1>1 DEF HostInv, JobFits, NoJob, Jobs
<1>12. Caused'
  BY <1>3, <1>4, <1>5, <1>2 DEF HostInv, Caused, Waiting, Faulted
<1>13. Enabled'
  <2> SUFFICES ASSUME auto'.enabled
               PROVE  PreinitLast' /\ ResetPath' /\ Discarding' /\ Announced' /\ Checking'
    BY DEF Enabled
  <2>1. auto.enabled
    BY <1>3, <1>4, <1>5, <1>2
  <2>2. PreinitLast' /\ Discarding'
    BY <2>1, <1>2 DEF HostInv, Enabled, PreinitLast, LastBut, Discarding, FreshRound
  <2>3. ResetPath'
    BY <2>1, <1>3, <1>4, <1>5, <1>2 DEF HostInv, Enabled, ResetPath, Resetting, Released,
       NotBegun, Waiting
  <2>4. Announced'
    BY <2>1, <1>3, <1>4, <1>5, <1>2 DEF HostInv, Enabled, Announced, Waiting, OnlyErrors, Settled,
       Released, NotBegun
  <2>5. Checking'
    BY <2>1, <1>3, <1>4, <1>5, <1>2 DEF HostInv, Enabled, Checking, OnlyErrors, Waiting, Faulted
  <2> QED
    BY <2>2, <2>3, <2>4, <2>5
<1>14. Epoch'
  <2> SUFFICES ASSUME auto'.enabled, ~auto'.skipping
               PROVE  WireOrder' /\ NotYet' /\ AtGrant' /\ OwnLog' /\ Captured' /\ Reported' /\
                  Ending'
    BY DEF Epoch
  <2>1. auto.enabled /\ ~auto.skipping
    BY <1>3, <1>4, <1>5, <1>2
  <2>2. WireOrder' /\ NotYet' /\ Captured'
    BY <2>1, <1>2 DEF HostInv, Epoch, WireOrder, LastBut, NotYet, Waiting, Captured, LogKind
  <2>3. AtGrant'
    BY <2>1, <1>3, <1>4, <1>5, <1>2 DEF HostInv, Epoch, AtGrant, Granted, OnlyErrors, Waiting,
       Faulted
  <2>4. OwnLog'
    BY <2>1, <1>3, <1>4, <1>5, <1>2 DEF HostInv, Epoch, OwnLog, LogAbout, Waiting, OnlyErrors,
       LogKinds, LogKind
  <2>5. Reported'
    BY <2>1, <1>3, <1>4, <1>5, <1>2 DEF HostInv, Epoch, Reported, Reached, Far, JobFits, NoJob
  <2>6. Ending'
    BY <2>1, <1>3, <1>4, <1>5, <1>2 DEF HostInv, Epoch, Ending, OnlyErrors, Waiting
  <2> QED
    BY <2>2, <2>3, <2>4, <2>5, <2>6
<1> QED
  BY <1>8, <1>9, <1>10, <1>11, <1>12, <1>13, <1>14 DEF HostInv

(* The session ends for a launch that failed.                                *)
LEMMA LaunchFailsKeeps == ASSUME HostInv, LaunchFails PROVE HostInv'
<1>1. /\ auto \in Controllers
      /\ workers \in WorkerSets
      /\ started \in Nat
      /\ ending \in {"none", "failed", "missing", "discard", "operator"}
      /\ spent \in [Budgets -> Nat]
  BY DEF HostInv, HostTypes
<1>2. UNCHANGED <<board, wire, vm, svc, tx, resets, watchdog, round, rx, poll, compare, skip,
                  started, concluded>>
  BY DEF LaunchFails, Fail, Ended, envVars, sendVars, threadVars, history
<1>3. /\ auto'.enabled = FALSE
      /\ auto'.round = auto.round
      /\ auto'.grant = auto.grant
      /\ auto'.skipping = FALSE
  BY <1>1 DEF LaunchFails, Fail, Ended, Controllers
<1>4. /\ workers'.pre = workers.pre
      /\ workers'.starters = workers.starters
      /\ workers'.launch = 0
      /\ workers'.sender = workers.sender
  BY <1>1 DEF LaunchFails, Fail, Ended, WorkerSets
<1>5. ending' = IF auto.enabled THEN "failed" ELSE ending
  BY <1>1 DEF LaunchFails, Fail, Ended
<1>6. Faulted'
  BY <1>1 DEF LaunchFails, Spend, Faulted, Budgets
<1>7. workers.launch # 0
  BY DEF LaunchFails, Fail, Ended
<1>8. auto' \in Controllers
  BY <1>1 DEF LaunchFails, Fail, Ended, Controllers
<1>9. workers' \in WorkerSets
  BY <1>1 DEF LaunchFails, Fail, Ended, WorkerSets, Senders
<1>10. ending' \in {"none", "failed", "missing", "discard", "operator"}
  BY <1>1 DEF LaunchFails, Fail, Ended
<1>11. spent' \in [Budgets -> Nat]
  BY <1>1 DEF LaunchFails, Fail, Ended, Spend, Budgets
<1>12. HostTypes'
  BY <1>8, <1>9, <1>10, <1>11, <1>2 DEF HostInv, HostTypes
<1>13. RxKinds'
  BY <1>2 DEF HostInv, RxKinds, StatusKind, LogKind
<1>14. Numbered'
  BY <1>3, <1>4, <1>5, <1>6, <1>7, <1>2, <1>1 DEF HostInv, Numbered, Threads
<1>15. JobFits'
  BY <1>3, <1>4, <1>5, <1>6, <1>7, <1>2 DEF HostInv, JobFits, NoJob
<1>16. Caused'
  BY <1>3, <1>4, <1>5, <1>6, <1>7, <1>2 DEF HostInv, Caused, Waiting, Faulted
<1>17. CompareHolds'
  BY <1>3, <1>4, <1>5, <1>6, <1>7, <1>2 DEF HostInv, CompareHolds
<1>18. Enabled'
  BY <1>3, <1>4, <1>5, <1>6, <1>7, <1>2 DEF Enabled
<1>19. Epoch'
  BY <1>3, <1>4, <1>5, <1>6, <1>7, <1>2 DEF Epoch
<1> QED
  BY <1>12, <1>13, <1>14, <1>15, <1>16, <1>17, <1>18, <1>19 DEF HostInv

(* The program is refused only if the board has failed.                      *)
LEMMA SenderBeginsKeeps == ASSUME HostInv, SenderBegins PROVE HostInv'
<1>1. /\ svc \in Services
      /\ tx \in Transfers
      /\ auto \in Controllers
      /\ workers \in WorkerSets
  BY DEF HostInv, HostTypes
<1>2. UNCHANGED <<board, wire, vm, resets, watchdog, auto, round, rx, poll, compare, skip,
                  started, concluded, ending, spent>>
  BY DEF SenderBegins, envVars, sendVars, threadVars, history
<1>3. /\ svc'.board = svc.board
      /\ svc'.allowed = (svc.allowed /\ ~(svc.allowed /\ tx.by = "none"))
      /\ svc'.seen = svc.seen
  BY <1>1 DEF SenderBegins, Services
<1>4. /\ tx'.by = IF svc.allowed /\ tx.by = "none" THEN "PROGRAM" ELSE tx.by
      /\ tx'.of = IF svc.allowed /\ tx.by = "none" THEN workers.sender.of ELSE tx.of
  BY <1>1 DEF SenderBegins, Transfers
<1>5. /\ workers'.pre = workers.pre /\ workers'.starters = workers.starters /\ workers'.launch =
                        workers.launch
      /\ \/ workers'.sender.pc = "fail" /\ workers'.sender.of = workers.sender.of
            /\ auto.round = workers.sender.of /\ ~(svc.allowed /\ tx.by = "none")
         \/ workers'.sender.pc = "idle" /\ workers'.sender.of = 0
            /\ ((svc.allowed /\ tx.by = "none") \/ auto.round # workers.sender.of)
  BY <1>1 DEF SenderBegins, WorkerSets, Senders, RestingWorker
<1>6. /\ workers.sender.pc = "begin"
      /\ (svc.allowed /\ tx.by = "none") => tx' = [by |-> "PROGRAM", of |-> workers.sender.of,
         cancel |-> FALSE]
      /\ ~(svc.allowed /\ tx.by = "none") => tx' = tx
  BY DEF SenderBegins
<1>7. svc' \in Services
  BY <1>1 DEF SenderBegins, Services
<1>8. tx' \in Transfers
  BY <1>1, <1>6, TransferTyped DEF WorkerSets, Senders
<1>9. workers' \in WorkerSets
  BY <1>1 DEF SenderBegins, WorkerSets, Senders, RestingWorker
<1>10. HostTypes'
  BY <1>7, <1>8, <1>9, <1>2 DEF HostInv, HostTypes
<1>11. RxKinds' /\ CompareHolds'
  BY <1>2 DEF HostInv, RxKinds, StatusKind, LogKind, CompareHolds
<1>12. Numbered'
  BY <1>3, <1>4, <1>5, <1>6, <1>2 DEF HostInv, Numbered
<1>13. JobFits'
  BY <1>3, <1>4, <1>5, <1>6, <1>2 DEF HostInv, JobFits, NoJob
<1>14. Caused'
  BY <1>3, <1>4, <1>5, <1>6, <1>2 DEF HostInv, Caused, Waiting, Faulted, Numbered, Enabled,
     Discarding, Epoch, AtGrant, Granted
<1>15. Enabled'
  <2> SUFFICES ASSUME auto'.enabled
               PROVE  PreinitLast' /\ ResetPath' /\ Discarding' /\ Announced' /\ Checking'
    BY DEF Enabled
  <2>1. auto.enabled
    BY <1>3, <1>4, <1>5, <1>6, <1>2
  <2>2. PreinitLast' /\ Discarding'
    BY <2>1, <1>2 DEF HostInv, Enabled, PreinitLast, LastBut, Discarding, FreshRound
  <2>3. ResetPath'
    BY <2>1, <1>3, <1>4, <1>5, <1>6, <1>2 DEF HostInv, Enabled, ResetPath, Resetting, Released,
       NotBegun, Waiting
  <2>4. Announced'
    BY <2>1, <1>3, <1>4, <1>5, <1>6, <1>2 DEF HostInv, Enabled, Announced, Waiting, OnlyErrors,
       Settled, Released, NotBegun
  <2>5. Checking'
    BY <2>1, <1>3, <1>4, <1>5, <1>6, <1>2 DEF HostInv, Enabled, Checking, OnlyErrors, Waiting,
       Faulted
  <2> QED
    BY <2>2, <2>3, <2>4, <2>5
<1>16. Epoch'
  <2> SUFFICES ASSUME auto'.enabled, ~auto'.skipping
               PROVE  WireOrder' /\ NotYet' /\ AtGrant' /\ OwnLog' /\ Captured' /\ Reported' /\
                  Ending'
    BY DEF Epoch
  <2>1. auto.enabled /\ ~auto.skipping
    BY <1>3, <1>4, <1>5, <1>6, <1>2
  <2>2. WireOrder' /\ NotYet'
    BY <2>1, <1>2 DEF HostInv, Epoch, WireOrder, LastBut, NotYet, Waiting
  <2>3. AtGrant'
    BY <2>1, <1>3, <1>4, <1>5, <1>6, <1>2 DEF HostInv, Epoch, AtGrant, Granted, OnlyErrors,
       Waiting, Faulted, Enabled, Discarding
  <2>4. OwnLog'
    BY <2>1, <1>3, <1>4, <1>5, <1>6, <1>2 DEF HostInv, Epoch, OwnLog, LogAbout, Waiting,
       OnlyErrors, LogKinds, LogKind
  <2>5. Captured'
    BY <2>1, <1>3, <1>4, <1>5, <1>6, <1>2 DEF HostInv, Epoch, Captured, LogKind
  <2>6. Reported'
    BY <2>1, <1>3, <1>4, <1>5, <1>6, <1>2 DEF HostInv, Epoch, Reported, Reached, Far
  <2>7. Ending'
    BY <2>1, <1>3, <1>4, <1>5, <1>6, <1>2 DEF HostInv, Epoch, Ending, OnlyErrors, Waiting
  <2> QED
    BY <2>2, <2>3, <2>4, <2>5, <2>6, <2>7
<1> QED
  BY <1>10, <1>11, <1>12, <1>13, <1>14, <1>15, <1>16 DEF HostInv

(* The session ends for the refused program.                                 *)
LEMMA SenderFailsKeeps == ASSUME HostInv, SenderFails PROVE HostInv'
<1>1. /\ auto \in Controllers
      /\ workers \in WorkerSets
      /\ ending \in {"none", "failed", "missing", "discard", "operator"}
  BY DEF HostInv, HostTypes
<1>2. UNCHANGED <<board, wire, vm, svc, tx, resets, watchdog, round, rx, poll, compare, skip,
                  started, concluded, spent>>
  BY DEF SenderFails, Fail, Ended, envVars, sendVars, threadVars, history
<1>3. /\ auto'.enabled = FALSE
      /\ auto'.round = auto.round
      /\ auto'.grant = auto.grant
      /\ auto'.skipping = FALSE
  BY <1>1 DEF SenderFails, Fail, Ended, Controllers
<1>4. workers'.pre = workers.pre /\ workers'.starters = workers.starters
      /\ workers'.launch = workers.launch /\ workers'.sender.pc = "idle"
  BY <1>1 DEF SenderFails, WorkerSets, RestingWorker
<1>5. ending' = IF auto.enabled THEN "failed" ELSE ending
  BY <1>1 DEF SenderFails, Fail, Ended
<1>6. workers.sender.pc = "fail"
  BY DEF SenderFails, Fail, Ended
<1>7. auto' \in Controllers
  BY <1>1 DEF SenderFails, Fail, Ended, Controllers
<1>8. workers' \in WorkerSets
  BY <1>1 DEF SenderFails, Fail, Ended, WorkerSets, Senders, RestingWorker
<1>9. ending' \in {"none", "failed", "missing", "discard", "operator"}
  BY <1>1 DEF SenderFails, Fail, Ended
<1>10. HostTypes'
  BY <1>7, <1>8, <1>9, <1>2 DEF HostInv, HostTypes
<1>11. RxKinds'
  BY <1>2 DEF HostInv, RxKinds, StatusKind, LogKind
<1>12. Numbered'
  BY <1>3, <1>4, <1>5, <1>6, <1>2 DEF HostInv, Numbered
<1>13. JobFits'
  BY <1>3, <1>4, <1>5, <1>6, <1>2 DEF HostInv, JobFits, NoJob
<1>14. Caused'
  BY <1>3, <1>4, <1>5, <1>6, <1>2 DEF HostInv, Caused, Waiting, Faulted
<1>15. CompareHolds'
  BY <1>3, <1>4, <1>5, <1>6, <1>2 DEF HostInv, CompareHolds
<1>16. Enabled'
  BY <1>3, <1>4, <1>5, <1>6, <1>2 DEF Enabled
<1>17. Epoch'
  BY <1>3, <1>4, <1>5, <1>6, <1>2 DEF Epoch
<1> QED
  BY <1>10, <1>11, <1>12, <1>13, <1>14, <1>15, <1>16, <1>17 DEF HostInv

(* A check makes the board check, a program makes it run the current round.  *)
LEMMA BulkEndsKeeps == ASSUME HostInv, BulkEnds PROVE HostInv'
<1>1. /\ board \in Boards
      /\ tx \in Transfers
  BY DEF HostInv, HostTypes
<1>2. UNCHANGED <<wire, vm, svc, resets, watchdog, auto, round, rx, poll, compare, skip, workers,
                  started, concluded, ending, spent>>
  BY DEF BulkEnds, envVars, sendVars, threadVars, history
<1>3. /\ board'.out = board.out
      /\ \/ board' = board
         \/ tx.by = "CHECK" /\ board.at = "WAIT_CHECK" /\ board'.at = "CHECK" /\ board'.of =
            board.of
         \/ tx.by = "PROGRAM" /\ board.at = "WRITE" /\ board'.at = "EXEC" /\ board'.of = tx.of
  BY <1>1 DEF BulkEnds, Boards
<1>4. /\ tx'.by = "none"
      /\ tx'.of = 0
  BY <1>1 DEF BulkEnds, Transfers
<1>5. tx.by # "none"
  BY DEF BulkEnds
<1>6. board' \in Boards
  BY <1>1 DEF BulkEnds, Boards, BoardStates, Transfers
<1>7. tx' \in Transfers
  BY <1>1 DEF BulkEnds, Transfers
<1>8. HostTypes'
  BY <1>6, <1>7, <1>2 DEF HostInv, HostTypes
<1>9. RxKinds' /\ Numbered' /\ JobFits' /\ CompareHolds'
  BY <1>2 DEF HostInv, RxKinds, StatusKind, LogKind, Numbered, JobFits, NoJob, CompareHolds
<1>10. Caused'
  BY <1>3, <1>4, <1>5, <1>2 DEF HostInv, Caused, Waiting, Faulted
<1>11. Enabled'
  <2> SUFFICES ASSUME auto'.enabled
               PROVE  PreinitLast' /\ ResetPath' /\ Discarding' /\ Announced' /\ Checking'
    BY DEF Enabled
  <2>1. auto.enabled
    BY <1>3, <1>4, <1>5, <1>2
  <2>2. PreinitLast' /\ Discarding'
    BY <2>1, <1>2 DEF HostInv, Enabled, PreinitLast, LastBut, Discarding, FreshRound
  <2>3. ResetPath'
    BY <2>1, <1>3, <1>4, <1>5, <1>2 DEF HostInv, Enabled, ResetPath, Resetting, Released,
       NotBegun, Waiting, Checking, Discarding
  <2>4. Announced'
    BY <2>1, <1>3, <1>4, <1>5, <1>2 DEF HostInv, Enabled, Announced, Waiting, OnlyErrors, Settled,
       Released, NotBegun
  <2>5. Checking'
    BY <2>1, <1>3, <1>4, <1>5, <1>2 DEF HostInv, Enabled, Checking, OnlyErrors, Waiting, Faulted
  <2> QED
    BY <2>2, <2>3, <2>4, <2>5
<1>12. Epoch'
  <2> SUFFICES ASSUME auto'.enabled, ~auto'.skipping
               PROVE  WireOrder' /\ NotYet' /\ AtGrant' /\ OwnLog' /\ Captured' /\ Reported' /\
                  Ending'
    BY DEF Epoch
  <2>1. auto.enabled /\ ~auto.skipping
    BY <1>3, <1>4, <1>5, <1>2
  <2>2. WireOrder' /\ Captured' /\ Reported'
    BY <2>1, <1>2 DEF HostInv, Epoch, WireOrder, LastBut, Captured, LogKind, Reported, Reached,
       Far
  <2>3. NotYet'
    BY <2>1, <1>3, <1>4, <1>5, <1>2 DEF HostInv, Epoch, NotYet, Waiting
  <2>4. AtGrant'
    BY <2>1, <1>3, <1>4, <1>5, <1>2 DEF HostInv, Epoch, AtGrant, Granted, OnlyErrors, Waiting,
       Faulted
  <2>5. OwnLog'
    BY <2>1, <1>3, <1>4, <1>5, <1>2 DEF HostInv, Epoch, OwnLog, LogAbout, Waiting, OnlyErrors,
       LogKinds, LogKind, AtGrant, Granted
  <2>6. Ending'
    BY <2>1, <1>3, <1>4, <1>5, <1>2 DEF HostInv, Epoch, Ending, OnlyErrors, Waiting
  <2> QED
    BY <2>2, <2>3, <2>4, <2>5, <2>6
<1> QED
  BY <1>8, <1>9, <1>10, <1>11, <1>12 DEF HostInv

(* The board is reset when nothing of the next epoch has begun.              *)
LEMMA ResetArrivesKeeps == ASSUME HostInv, ResetArrives PROVE HostInv'
<1>1. /\ board \in Boards
      /\ resets \in Seq(Nat)
      /\ watchdog \in Watchdogs
  BY DEF HostInv, HostTypes
<1>2. UNCHANGED <<wire, vm, svc, tx, auto, round, rx, poll, compare, skip, workers, started,
                  concluded, ending, spent>>
  BY DEF ResetArrives, ResetGoesOut, envVars, sendVars, threadVars, history
<1>3. board'.at = "RESET" /\ board'.out = <<>> /\ board' \in Boards
  BY <1>1 DEF ResetArrives, ResetGoesOut, Boards, BoardStates
<1>4. resets' \in Seq(Nat) /\ Head(resets) \in Nat
  BY <1>1, ResetTaken DEF ResetArrives, ResetGoesOut
<1>5. /\ watchdog'.asleep = Head(resets)
      /\ watchdog'.calling = watchdog.calling
  BY <1>1 DEF ResetArrives, ResetGoesOut, Watchdogs
<1>6. tx.by = "none" /\ resets # <<>>
  BY DEF ResetArrives, ResetGoesOut
<1>7. watchdog' \in Watchdogs
  BY <1>1, ResetTaken DEF ResetArrives, ResetGoesOut, Watchdogs
<1>8. HostTypes'
  BY <1>7, <1>3, <1>4, <1>5, <1>6, <1>2 DEF HostInv, HostTypes
<1>9. RxKinds' /\ Numbered' /\ JobFits' /\ CompareHolds'
  BY <1>2 DEF HostInv, RxKinds, StatusKind, LogKind, Numbered, JobFits, NoJob, CompareHolds
<1>10. Caused'
  BY <1>3, <1>4, <1>5, <1>6, <1>2 DEF HostInv, Caused, Waiting, Faulted
<1>11. Enabled'
  <2> SUFFICES ASSUME auto'.enabled
               PROVE  PreinitLast' /\ ResetPath' /\ Discarding' /\ Announced' /\ Checking'
    BY DEF Enabled
  <2>1. auto.enabled
    BY <1>3, <1>4, <1>5, <1>6, <1>2
  <2>2. PreinitLast' /\ Discarding'
    BY <2>1, <1>2 DEF HostInv, Enabled, PreinitLast, LastBut, Discarding, FreshRound
  <2>3. ResetPath'
    BY <2>1, <1>3, <1>4, <1>5, <1>6, <1>2 DEF HostInv, Enabled, ResetPath, Resetting, Released,
       NotBegun, Waiting
  <2>4. Announced'
    BY <2>1, <1>3, <1>4, <1>5, <1>6, <1>2 DEF HostInv, Enabled, Announced, Waiting, OnlyErrors,
       Settled, Released, NotBegun, ResetPath, Resetting
  <2>5. Checking'
    BY <2>1, <1>3, <1>4, <1>5, <1>6, <1>2 DEF HostInv, Enabled, Checking, OnlyErrors, Waiting,
       Faulted, ResetPath, Resetting, NotBegun
  <2> QED
    BY <2>2, <2>3, <2>4, <2>5
<1>12. Epoch'
  <2> SUFFICES ASSUME auto'.enabled, ~auto'.skipping
               PROVE  WireOrder' /\ NotYet' /\ AtGrant' /\ OwnLog' /\ Captured' /\ Reported' /\
                  Ending'
    BY DEF Epoch
  <2>1. auto.enabled /\ ~auto.skipping
    BY <1>3, <1>4, <1>5, <1>6, <1>2
  <2>2. WireOrder' /\ Captured' /\ Reported'
    BY <2>1, <1>2 DEF HostInv, Epoch, WireOrder, LastBut, Captured, LogKind, Reported, Reached,
       Far
  <2>3. NotYet'
    BY <2>1, <1>3, <1>4, <1>5, <1>6, <1>2 DEF HostInv, Epoch, NotYet, Waiting, Enabled, ResetPath,
       Resetting, NotBegun, Discarding, FreshRound
  <2>4. AtGrant'
    BY <2>1, <1>3, <1>4, <1>5, <1>6, <1>2 DEF HostInv, Epoch, AtGrant, Granted, OnlyErrors,
       Waiting, Faulted, Enabled, ResetPath, Resetting, NotBegun, Discarding, FreshRound
  <2>5. OwnLog'
    BY <2>1, <1>3, <1>4, <1>5, <1>6, <1>2 DEF HostInv, Epoch, OwnLog, LogAbout, Waiting,
       OnlyErrors, LogKinds, LogKind, Enabled, ResetPath, Resetting
  <2>6. Ending'
    BY <2>1, <1>3, <1>4, <1>5, <1>6, <1>2 DEF HostInv, Epoch, Ending, OnlyErrors, Waiting,
       Enabled, ResetPath, Resetting, Discarding, FreshRound
  <2> QED
    BY <2>2, <2>3, <2>4, <2>5, <2>6
<1> QED
  BY <1>8, <1>9, <1>10, <1>11, <1>12 DEF HostInv

(* The reset does not reach the board; its watchdog sleeps.                  *)
LEMMA ResetLostKeeps == ASSUME HostInv, ResetLost PROVE HostInv'
<1>1. /\ resets \in Seq(Nat)
      /\ watchdog \in Watchdogs
      /\ spent \in [Budgets -> Nat]
  BY DEF HostInv, HostTypes
<1>2. UNCHANGED <<board, wire, vm, svc, tx, auto, round, rx, poll, compare, skip, workers,
                  started, concluded, ending>>
  BY DEF ResetLost, ResetGoesOut, envVars, sendVars, threadVars, history
<1>3. resets' \in Seq(Nat) /\ Head(resets) \in Nat
  BY <1>1, ResetTaken DEF ResetLost, ResetGoesOut
<1>4. /\ watchdog'.asleep = Head(resets)
      /\ watchdog'.calling = watchdog.calling
  BY <1>1 DEF ResetLost, ResetGoesOut, Watchdogs
<1>5. Faulted' = Faulted
  BY <1>1 DEF ResetLost, Spend, Faulted, Budgets
<1>6. tx.by = "none" /\ resets # <<>>
  BY DEF ResetLost, ResetGoesOut
<1>7. watchdog' \in Watchdogs
  BY <1>1, ResetTaken DEF ResetLost, ResetGoesOut, Watchdogs
<1>8. spent' \in [Budgets -> Nat]
  BY <1>1 DEF ResetLost, ResetGoesOut, Spend, Budgets
<1>9. HostTypes'
  BY <1>7, <1>8, <1>3, <1>4, <1>5, <1>6, <1>2 DEF HostInv, HostTypes
<1>10. RxKinds' /\ Numbered' /\ JobFits' /\ CompareHolds'
  BY <1>2 DEF HostInv, RxKinds, StatusKind, LogKind, Numbered, JobFits, NoJob, CompareHolds
<1>11. Caused'
  BY <1>3, <1>4, <1>5, <1>6, <1>2 DEF HostInv, Caused, Waiting, Faulted
<1>12. Enabled'
  <2> SUFFICES ASSUME auto'.enabled
               PROVE  PreinitLast' /\ ResetPath' /\ Discarding' /\ Announced' /\ Checking'
    BY DEF Enabled
  <2>1. auto.enabled
    BY <1>3, <1>4, <1>5, <1>6, <1>2
  <2>2. PreinitLast' /\ Discarding'
    BY <2>1, <1>2 DEF HostInv, Enabled, PreinitLast, LastBut, Discarding, FreshRound
  <2>3. ResetPath'
    BY <2>1, <1>3, <1>4, <1>5, <1>6, <1>2 DEF HostInv, Enabled, ResetPath, Resetting, Released,
       NotBegun, Waiting
  <2>4. Announced'
    BY <2>1, <1>3, <1>4, <1>5, <1>6, <1>2 DEF HostInv, Enabled, Announced, Waiting, OnlyErrors,
       Settled, Released, NotBegun, ResetPath, Resetting
  <2>5. Checking'
    BY <2>1, <1>3, <1>4, <1>5, <1>6, <1>2 DEF HostInv, Enabled, Checking, OnlyErrors, Waiting,
       Faulted
  <2> QED
    BY <2>2, <2>3, <2>4, <2>5
<1>13. Epoch'
  <2> SUFFICES ASSUME auto'.enabled, ~auto'.skipping
               PROVE  WireOrder' /\ NotYet' /\ AtGrant' /\ OwnLog' /\ Captured' /\ Reported' /\
                  Ending'
    BY DEF Epoch
  <2>1. auto.enabled /\ ~auto.skipping
    BY <1>3, <1>4, <1>5, <1>6, <1>2
  <2>2. WireOrder' /\ NotYet' /\ OwnLog' /\ Captured' /\ Reported' /\ Ending'
    BY <2>1, <1>2 DEF HostInv, Epoch, WireOrder, LastBut, NotYet, Waiting, OwnLog, LogAbout,
       OnlyErrors, LogKinds, LogKind, Captured, Reported, Reached, Far, Ending
  <2>3. AtGrant'
    BY <2>1, <1>3, <1>4, <1>5, <1>6, <1>2 DEF HostInv, Epoch, AtGrant, Granted, OnlyErrors,
       Waiting, Faulted
  <2> QED
    BY <2>2, <2>3
<1> QED
  BY <1>9, <1>10, <1>11, <1>12, <1>13 DEF HostInv

(* The watchdog gives up or retries only when no PREINIT is on its way.      *)
LEMMA WatchdogWakesKeeps == ASSUME HostInv, WatchdogWakes PROVE HostInv'
<1>1. /\ svc \in Services
      /\ watchdog \in Watchdogs
  BY DEF HostInv, HostTypes
<1>2. UNCHANGED <<board, wire, vm, tx, resets, auto, round, rx, poll, compare, skip, workers,
                  started, concluded, ending, spent>>
  BY DEF WatchdogWakes, envVars, sendVars, threadVars, history
<1>3. /\ svc'.board = IF svc.board = "RESETTING" /\ ~(watchdog.asleep < MaxRetries) THEN
                      "RESET_TIMEOUT" ELSE svc.board
      /\ svc'.allowed = svc.allowed
      /\ svc'.seen = svc.seen
  BY <1>1 DEF WatchdogWakes, Services
<1>4. /\ watchdog'.asleep = -1
      /\ watchdog'.calling = IF svc.board = "RESETTING" /\ watchdog.asleep < MaxRetries THEN
                             watchdog.asleep + 1 ELSE watchdog.calling
  BY <1>1 DEF WatchdogWakes, Watchdogs
<1>5. watchdog.asleep >= 0 /\ ~Waiting({"PREINIT"})
  BY DEF WatchdogWakes, Answering, Waiting
<1>6. svc' \in Services
  BY <1>1 DEF WatchdogWakes, Services
<1>7. watchdog' \in Watchdogs
  BY <1>1 DEF WatchdogWakes, Watchdogs
<1>8. HostTypes'
  BY <1>6, <1>7, <1>2 DEF HostInv, HostTypes
<1>9. RxKinds' /\ Numbered' /\ JobFits' /\ Caused' /\ CompareHolds'
  BY <1>2 DEF HostInv, RxKinds, StatusKind, LogKind, Numbered, JobFits, NoJob, Caused, Waiting,
     Faulted, CompareHolds
<1>10. Enabled'
  <2> SUFFICES ASSUME auto'.enabled
               PROVE  PreinitLast' /\ ResetPath' /\ Discarding' /\ Announced' /\ Checking'
    BY DEF Enabled
  <2>1. auto.enabled
    BY <1>3, <1>4, <1>5, <1>2
  <2>2. PreinitLast' /\ Discarding'
    BY <2>1, <1>2 DEF HostInv, Enabled, PreinitLast, LastBut, Discarding, FreshRound
  <2>3. ResetPath'
    BY <2>1, <1>3, <1>4, <1>5, <1>2, <1>1 DEF HostInv, Enabled, ResetPath, Resetting, Released,
       NotBegun, Waiting, Watchdogs
  <2>4. Announced'
    BY <2>1, <1>3, <1>4, <1>5, <1>2, <1>1 DEF HostInv, Enabled, Announced, Waiting, OnlyErrors,
       Settled, Released, NotBegun, Watchdogs, ResetPath, Resetting
  <2>5. Checking'
    BY <2>1, <1>3, <1>4, <1>5, <1>2 DEF HostInv, Enabled, Checking, OnlyErrors, Waiting, Faulted
  <2> QED
    BY <2>2, <2>3, <2>4, <2>5
<1>11. Epoch'
  <2> SUFFICES ASSUME auto'.enabled, ~auto'.skipping
               PROVE  WireOrder' /\ NotYet' /\ AtGrant' /\ OwnLog' /\ Captured' /\ Reported' /\
                  Ending'
    BY DEF Epoch
  <2>1. auto.enabled /\ ~auto.skipping
    BY <1>3, <1>4, <1>5, <1>2
  <2>2. WireOrder' /\ NotYet' /\ OwnLog' /\ Reported' /\ Ending'
    BY <2>1, <1>2 DEF HostInv, Epoch, WireOrder, LastBut, NotYet, Waiting, OwnLog, LogAbout,
       OnlyErrors, LogKinds, LogKind, Reported, Reached, Far, Ending
  <2>3. AtGrant'
    BY <2>1, <1>3, <1>4, <1>5, <1>2 DEF HostInv, Epoch, AtGrant, Granted, OnlyErrors, Waiting,
       Faulted
  <2>4. Captured'
    BY <2>1, <1>3, <1>4, <1>5, <1>2 DEF HostInv, Epoch, Captured, LogKind
  <2> QED
    BY <2>2, <2>3, <2>4
<1> QED
  BY <1>8, <1>9, <1>10, <1>11 DEF HostInv

(* The watchdog sends the reset again.                                       *)
LEMMA WatchdogCallsKeeps == ASSUME HostInv, WatchdogCalls PROVE HostInv'
<1>1. /\ svc \in Services
      /\ tx \in Transfers
      /\ resets \in Seq(Nat)
      /\ watchdog \in Watchdogs
  BY DEF HostInv, HostTypes
<1>2. UNCHANGED <<board, wire, vm, auto, round, rx, poll, compare, skip, workers, started,
                  concluded, ending, spent>>
  BY DEF WatchdogCalls, SendBoardReset, envVars, sendVars, threadVars, history
<1>3. /\ svc'.board = "RESETTING"
      /\ svc'.allowed = svc.allowed
      /\ svc'.seen = svc.seen
  BY <1>1 DEF WatchdogCalls, SendBoardReset, Services
<1>4. /\ tx'.by = tx.by
      /\ tx'.of = tx.of
  BY <1>1 DEF WatchdogCalls, SendBoardReset, Transfers
<1>5. resets' # <<>> /\ resets' \in Seq(Nat)
  BY <1>1, ResetQueued DEF WatchdogCalls, SendBoardReset, Watchdogs
<1>6. /\ watchdog'.asleep = watchdog.asleep
      /\ watchdog'.calling = -1
  BY <1>1 DEF WatchdogCalls, SendBoardReset, Watchdogs
<1>7. watchdog.calling >= 0
  BY DEF WatchdogCalls, SendBoardReset
<1>8. svc' \in Services
  BY <1>1 DEF WatchdogCalls, SendBoardReset, Services
<1>9. tx' \in Transfers
  BY <1>1 DEF WatchdogCalls, SendBoardReset, Transfers
<1>10. watchdog' \in Watchdogs
  BY <1>1 DEF WatchdogCalls, SendBoardReset, Watchdogs
<1>11. HostTypes'
  BY <1>8, <1>9, <1>10, <1>3, <1>4, <1>5, <1>6, <1>7, <1>2 DEF HostInv, HostTypes
<1>12. RxKinds' /\ Numbered' /\ JobFits' /\ Caused' /\ CompareHolds'
  BY <1>2 DEF HostInv, RxKinds, StatusKind, LogKind, Numbered, JobFits, NoJob, Caused, Waiting,
     Faulted, CompareHolds
<1>13. Enabled'
  <2> SUFFICES ASSUME auto'.enabled
               PROVE  PreinitLast' /\ ResetPath' /\ Discarding' /\ Announced' /\ Checking'
    BY DEF Enabled
  <2>1. auto.enabled
    BY <1>3, <1>4, <1>5, <1>6, <1>7, <1>2
  <2>2. PreinitLast' /\ Discarding'
    BY <2>1, <1>2 DEF HostInv, Enabled, PreinitLast, LastBut, Discarding, FreshRound
  <2>3. ResetPath'
    BY <2>1, <1>3, <1>4, <1>5, <1>6, <1>7, <1>2 DEF HostInv, Enabled, ResetPath, Resetting,
       Released, NotBegun, Waiting
  <2>4. Announced'
    BY <2>1, <1>3, <1>4, <1>5, <1>6, <1>7, <1>2 DEF HostInv, Enabled, Announced, Waiting,
       OnlyErrors, Settled, Released, NotBegun, ResetPath, Resetting
  <2>5. Checking'
    BY <2>1, <1>3, <1>4, <1>5, <1>6, <1>7, <1>2 DEF HostInv, Enabled, Checking, OnlyErrors,
       Waiting, Faulted, ResetPath, Resetting, NotBegun
  <2> QED
    BY <2>2, <2>3, <2>4, <2>5
<1>14. Epoch'
  <2> SUFFICES ASSUME auto'.enabled, ~auto'.skipping
               PROVE  WireOrder' /\ NotYet' /\ AtGrant' /\ OwnLog' /\ Captured' /\ Reported' /\
                  Ending'
    BY DEF Epoch
  <2>1. auto.enabled /\ ~auto.skipping
    BY <1>3, <1>4, <1>5, <1>6, <1>7, <1>2
  <2>2. WireOrder' /\ NotYet' /\ Reported'
    BY <2>1, <1>2 DEF HostInv, Epoch, WireOrder, LastBut, NotYet, Waiting, Reported, Reached, Far
  <2>3. AtGrant'
    BY <2>1, <1>3, <1>4, <1>5, <1>6, <1>7, <1>2 DEF HostInv, Epoch, AtGrant, Granted, OnlyErrors,
       Waiting, Faulted
  <2>4. OwnLog'
    BY <2>1, <1>3, <1>4, <1>5, <1>6, <1>7, <1>2 DEF HostInv, Epoch, OwnLog, LogAbout, Waiting,
       OnlyErrors, LogKinds, LogKind
  <2>5. Captured'
    BY <2>1, <1>3, <1>4, <1>5, <1>6, <1>7, <1>2 DEF HostInv, Epoch, Captured, LogKind
  <2>6. Ending'
    BY <2>1, <1>3, <1>4, <1>5, <1>6, <1>7, <1>2 DEF HostInv, Epoch, Ending, OnlyErrors, Waiting
  <2> QED
    BY <2>2, <2>3, <2>4, <2>5, <2>6
<1> QED
  BY <1>11, <1>12, <1>13, <1>14 DEF HostInv

(* The operator ends the session.                                            *)
LEMMA OperatorStopsKeeps == ASSUME HostInv, OperatorStops PROVE HostInv'
<1>1. /\ auto \in Controllers
      /\ round \in Rounds
      /\ ending \in {"none", "failed", "missing", "discard", "operator"}
      /\ spent \in [Budgets -> Nat]
  BY DEF HostInv, HostTypes
<1>2. UNCHANGED <<board, wire, vm, svc, tx, resets, watchdog, rx, poll, compare, skip, workers,
                  started, concluded>>
  BY DEF OperatorStops, Ended, envVars, sendVars, threadVars, history
<1>3. /\ auto'.enabled = FALSE
      /\ auto'.round = auto.round
      /\ auto'.grant = auto.grant
      /\ auto'.skipping = FALSE
  BY <1>1 DEF OperatorStops, Ended, Controllers
<1>4. /\ round'.ready = round.ready
      /\ round'.sent = round.sent
      /\ round'.dones = round.dones
      /\ round'.over = round.over
      /\ round'.comparing = round.comparing
      /\ round'.status = round.status
      /\ round'.closed = TRUE
      /\ round'.log = round.log
  BY <1>1 DEF OperatorStops, Ended, Rounds
<1>5. ending' \in {ending, "operator"}
  BY <1>1 DEF OperatorStops, Ended
<1>6. Faulted'
  BY <1>1 DEF OperatorStops, Spend, Faulted, Budgets
<1>7. auto' \in Controllers
  BY <1>1 DEF OperatorStops, Ended, Controllers
<1>8. round' \in Rounds
  BY <1>1 DEF OperatorStops, Ended, Rounds
<1>9. ending' \in {"none", "failed", "missing", "discard", "operator"}
  BY <1>1 DEF OperatorStops, Ended
<1>10. spent' \in [Budgets -> Nat]
  BY <1>1 DEF OperatorStops, Ended, Spend, Budgets
<1>11. HostTypes'
  BY <1>7, <1>8, <1>9, <1>10, <1>2 DEF HostInv, HostTypes
<1>12. RxKinds'
  BY <1>2 DEF HostInv, RxKinds, StatusKind, LogKind
<1>13. Numbered'
  BY <1>3, <1>4, <1>5, <1>6, <1>2 DEF HostInv, Numbered
<1>14. JobFits'
  BY <1>3, <1>4, <1>5, <1>6, <1>2 DEF HostInv, JobFits, NoJob
<1>15. Caused'
  BY <1>3, <1>4, <1>5, <1>6, <1>2 DEF HostInv, Caused, Waiting, Faulted
<1>16. CompareHolds'
  BY <1>3, <1>4, <1>5, <1>6, <1>2 DEF HostInv, CompareHolds
<1>17. Enabled'
  BY <1>3, <1>4, <1>5, <1>6, <1>2 DEF Enabled
<1>18. Epoch'
  BY <1>3, <1>4, <1>5, <1>6, <1>2 DEF Epoch
<1> QED
  BY <1>11, <1>12, <1>13, <1>14, <1>15, <1>16, <1>17, <1>18 DEF HostInv

(* The PREINIT of an epoch is its first frame and finds the host at rest.    *)
LEMMA BoardBootsKeeps == ASSUME HostInv, spent' = spent, BoardRests, BoardBoots PROVE HostInv'
<1>1. /\ board \in Boards
      /\ wire \in Seq(Frames)
      /\ watchdog \in Watchdogs
      /\ started \in Nat
  BY DEF HostInv, HostTypes
<1>2. UNCHANGED <<vm, svc, tx, resets, watchdog, auto, round, rx, poll, compare, skip, workers,
                  started, concluded, ending, spent>>
  BY DEF BoardBoots, BoardRests, Emits, envVars, sendVars, threadVars, history
<1>3. board'.at = "WAIT_CHECK" /\ board'.of = board.of /\ board'.out = board.out /\ board' \in
      Boards
  BY <1>1 DEF BoardBoots, Boards, BoardStates
<1>4. Status("PREINIT") \in Frames /\ Status("PREINIT").kind = "PREINIT"
  BY <1>1, FramesTyped DEF FrameKinds, AnyKind, StatusKind, LogKind
<1>5. /\ wire' \in Seq(Frames)
      /\ \A i \in DOMAIN wire : i \in DOMAIN wire' /\ wire'[i] = wire[i]
      /\ \A i \in DOMAIN wire' : i \in DOMAIN wire \/ wire'[i].kind = "PREINIT"
      /\ \A i, j \in DOMAIN wire' : i < j => i \in DOMAIN wire
  BY <1>1, <1>4, WireSent DEF BoardBoots, Emits
<1>6. /\ board.at = "RESET"
      /\ Settled
  BY DEF BoardBoots, BoardRests, Emits
<1>7. HostTypes'
  BY <1>3, <1>4, <1>5, <1>6, <1>2 DEF HostInv, HostTypes
<1>8. RxKinds' /\ Numbered' /\ JobFits' /\ CompareHolds'
  BY <1>2 DEF HostInv, RxKinds, StatusKind, LogKind, Numbered, JobFits, NoJob, CompareHolds
<1>9. Caused'
  BY <1>3, <1>4, <1>5, <1>6, <1>2 DEF HostInv, Caused, Waiting, Faulted
<1>10. Enabled'
  <2> SUFFICES ASSUME auto'.enabled
               PROVE  PreinitLast' /\ ResetPath' /\ Discarding' /\ Announced' /\ Checking'
    BY DEF Enabled
  <2>1. auto.enabled
    BY <1>3, <1>4, <1>5, <1>6, <1>2
  <2>2. Discarding'
    BY <2>1, <1>2 DEF HostInv, Enabled, Discarding, FreshRound
  <2>3. PreinitLast'
    BY <2>1, <1>3, <1>4, <1>5, <1>6, <1>2 DEF HostInv, Enabled, PreinitLast, LastBut, Announced,
       ResetPath, Waiting, Resetting
  <2>4. ResetPath'
    BY <2>1, <1>3, <1>4, <1>5, <1>6, <1>2, <1>1 DEF HostInv, Enabled, ResetPath, Resetting,
       Released, NotBegun, Waiting, Settled, Watchdogs
  <2>5. Announced'
    BY <2>1, <1>3, <1>4, <1>5, <1>6, <1>2 DEF HostInv, Enabled, Announced, Waiting, OnlyErrors,
       Settled, Released, NotBegun, Resetting, ResetPath
  <2>6. Checking'
    BY <2>1, <1>3, <1>4, <1>5, <1>6, <1>2 DEF HostInv, Enabled, Checking, OnlyErrors, Waiting,
       Faulted
  <2> QED
    BY <2>2, <2>3, <2>4, <2>5, <2>6
<1>11. Epoch'
  <2> SUFFICES ASSUME auto'.enabled, ~auto'.skipping
               PROVE  WireOrder' /\ NotYet' /\ AtGrant' /\ OwnLog' /\ Captured' /\ Reported' /\
                  Ending'
    BY DEF Epoch
  <2>1. auto.enabled /\ ~auto.skipping
    BY <1>3, <1>4, <1>5, <1>6, <1>2
  <2>2. Captured' /\ Reported'
    BY <2>1, <1>2 DEF HostInv, Epoch, Captured, LogKind, Reported, Reached, Far
  <2>3. WireOrder'
    BY <2>1, <1>3, <1>4, <1>5, <1>6, <1>2 DEF HostInv, Epoch, WireOrder, LastBut, NotYet, OwnLog,
       Waiting, LogAbout, AtGrant, Enabled, Discarding
  <2>4. NotYet'
    BY <2>1, <1>3, <1>4, <1>5, <1>6, <1>2 DEF HostInv, Epoch, NotYet, Waiting
  <2>5. AtGrant'
    BY <2>1, <1>3, <1>4, <1>5, <1>6, <1>2 DEF HostInv, Epoch, AtGrant, Granted, OnlyErrors,
       Waiting, Faulted, NotYet
  <2>6. OwnLog'
    BY <2>1, <1>3, <1>4, <1>5, <1>6, <1>2 DEF HostInv, Epoch, OwnLog, LogAbout, Waiting,
       OnlyErrors, LogKinds, LogKind, Enabled, ResetPath, Resetting
  <2>7. Ending'
    BY <2>1, <1>3, <1>4, <1>5, <1>6, <1>2 DEF HostInv, Epoch, Ending, OnlyErrors, Waiting,
       LogKind, LogKinds, OwnLog
  <2> QED
    BY <2>2, <2>3, <2>4, <2>5, <2>6, <2>7
<1> QED
  BY <1>7, <1>8, <1>9, <1>10, <1>11 DEF HostInv

(* The board has passed its check.                                           *)
LEMMA BoardPassesKeeps == ASSUME HostInv, spent' = spent, BoardRests, BoardPasses PROVE HostInv'
<1>1. /\ board \in Boards
      /\ wire \in Seq(Frames)
      /\ watchdog \in Watchdogs
      /\ started \in Nat
  BY DEF HostInv, HostTypes
<1>2. UNCHANGED <<vm, svc, tx, resets, watchdog, auto, round, rx, poll, compare, skip, workers,
                  started, concluded, ending, spent>>
  BY DEF BoardPasses, BoardRests, Emits, envVars, sendVars, threadVars, history
<1>3. board'.at = "READY" /\ board'.of = board.of /\ board'.out = board.out /\ board' \in Boards
  BY <1>1 DEF BoardPasses, Boards, BoardStates
<1>4. Status("PASS") \in Frames /\ Status("PASS").kind = "PASS"
  BY <1>1, FramesTyped DEF FrameKinds, AnyKind, StatusKind, LogKind
<1>5. /\ wire' \in Seq(Frames)
      /\ \A i \in DOMAIN wire : i \in DOMAIN wire' /\ wire'[i] = wire[i]
      /\ \A i \in DOMAIN wire' : i \in DOMAIN wire \/ wire'[i].kind = "PASS"
      /\ \A i, j \in DOMAIN wire' : i < j => i \in DOMAIN wire
  BY <1>1, <1>4, WireSent DEF BoardPasses, Emits
<1>6. board.at = "CHECK"
  BY DEF BoardPasses, BoardRests, Emits
<1>7. HostTypes'
  BY <1>3, <1>4, <1>5, <1>6, <1>2 DEF HostInv, HostTypes
<1>8. RxKinds' /\ Numbered' /\ JobFits' /\ CompareHolds'
  BY <1>2 DEF HostInv, RxKinds, StatusKind, LogKind, Numbered, JobFits, NoJob, CompareHolds
<1>9. Caused'
  BY <1>3, <1>4, <1>5, <1>6, <1>2 DEF HostInv, Caused, Waiting, Faulted
<1>10. Enabled'
  <2> SUFFICES ASSUME auto'.enabled
               PROVE  PreinitLast' /\ ResetPath' /\ Discarding' /\ Announced' /\ Checking'
    BY DEF Enabled
  <2>1. auto.enabled
    BY <1>3, <1>4, <1>5, <1>6, <1>2
  <2>2. Discarding'
    BY <2>1, <1>2 DEF HostInv, Enabled, Discarding, FreshRound
  <2>3. PreinitLast'
    BY <2>1, <1>3, <1>4, <1>5, <1>6, <1>2 DEF HostInv, Enabled, PreinitLast, LastBut, Announced,
       ResetPath, Waiting, Resetting
  <2>4. ResetPath'
    BY <2>1, <1>3, <1>4, <1>5, <1>6, <1>2 DEF HostInv, Enabled, ResetPath, Resetting, Released,
       NotBegun, Waiting
  <2>5. Announced'
    BY <2>1, <1>3, <1>4, <1>5, <1>6, <1>2 DEF HostInv, Enabled, Announced, Waiting, OnlyErrors,
       Settled, Released, NotBegun, Resetting, ResetPath
  <2>6. Checking'
    BY <2>1, <1>3, <1>4, <1>5, <1>6, <1>2 DEF HostInv, Enabled, Checking, OnlyErrors, Waiting,
       Faulted
  <2> QED
    BY <2>2, <2>3, <2>4, <2>5, <2>6
<1>11. Epoch'
  <2> SUFFICES ASSUME auto'.enabled, ~auto'.skipping
               PROVE  WireOrder' /\ NotYet' /\ AtGrant' /\ OwnLog' /\ Captured' /\ Reported' /\
                  Ending'
    BY DEF Epoch
  <2>1. auto.enabled /\ ~auto.skipping
    BY <1>3, <1>4, <1>5, <1>6, <1>2
  <2>2. Captured' /\ Reported'
    BY <2>1, <1>2 DEF HostInv, Epoch, Captured, LogKind, Reported, Reached, Far
  <2>3. WireOrder'
    BY <2>1, <1>3, <1>4, <1>5, <1>6, <1>2 DEF HostInv, Epoch, WireOrder, LastBut, NotYet, OwnLog,
       Waiting, LogAbout, AtGrant, Enabled, Discarding
  <2>4. NotYet'
    BY <2>1, <1>3, <1>4, <1>5, <1>6, <1>2 DEF HostInv, Epoch, NotYet, Waiting
  <2>5. AtGrant'
    BY <2>1, <1>3, <1>4, <1>5, <1>6, <1>2 DEF HostInv, Epoch, AtGrant, Granted, OnlyErrors,
       Waiting, Faulted, NotYet
  <2>6. OwnLog'
    BY <2>1, <1>3, <1>4, <1>5, <1>6, <1>2 DEF HostInv, Epoch, OwnLog, LogAbout, Waiting,
       OnlyErrors, LogKinds, LogKind
  <2>7. Ending'
    BY <2>1, <1>3, <1>4, <1>5, <1>6, <1>2 DEF HostInv, Epoch, Ending, OnlyErrors, Waiting,
       LogKind, LogKinds, OwnLog
  <2> QED
    BY <2>2, <2>3, <2>4, <2>5, <2>6, <2>7
<1> QED
  BY <1>7, <1>8, <1>9, <1>10, <1>11 DEF HostInv

(* The board grants the program; no earlier grant is in use.                 *)
LEMMA BoardGrantsKeeps == ASSUME HostInv, spent' = spent, BoardRests, BoardGrants PROVE HostInv'
<1>1. /\ board \in Boards
      /\ wire \in Seq(Frames)
      /\ watchdog \in Watchdogs
      /\ started \in Nat
  BY DEF HostInv, HostTypes
<1>2. UNCHANGED <<vm, svc, tx, resets, watchdog, auto, round, rx, poll, compare, skip, workers,
                  started, concluded, ending, spent>>
  BY DEF BoardGrants, BoardRests, Emits, envVars, sendVars, threadVars, history
<1>3. board'.at = "WRITE" /\ board'.of = board.of /\ board'.out = board.out /\ board' \in Boards
  BY <1>1 DEF BoardGrants, Boards, BoardStates
<1>4. Status("GRANT") \in Frames /\ Status("GRANT").kind = "GRANT"
  BY <1>1, FramesTyped DEF FrameKinds, AnyKind, StatusKind, LogKind
<1>5. /\ wire' \in Seq(Frames)
      /\ \A i \in DOMAIN wire : i \in DOMAIN wire' /\ wire'[i] = wire[i]
      /\ \A i \in DOMAIN wire' : i \in DOMAIN wire \/ wire'[i].kind = "GRANT"
      /\ \A i, j \in DOMAIN wire' : i < j => i \in DOMAIN wire
  BY <1>1, <1>4, WireSent DEF BoardGrants, Emits
<1>6. board.at = "READY"
  BY DEF BoardGrants, BoardRests, Emits
<1>7. HostTypes'
  BY <1>3, <1>4, <1>5, <1>6, <1>2 DEF HostInv, HostTypes
<1>8. RxKinds' /\ Numbered' /\ JobFits' /\ CompareHolds'
  BY <1>2 DEF HostInv, RxKinds, StatusKind, LogKind, Numbered, JobFits, NoJob, CompareHolds
<1>9. Caused'
  BY <1>3, <1>4, <1>5, <1>6, <1>2 DEF HostInv, Caused, Waiting, Faulted
<1>10. Enabled'
  <2> SUFFICES ASSUME auto'.enabled
               PROVE  PreinitLast' /\ ResetPath' /\ Discarding' /\ Announced' /\ Checking'
    BY DEF Enabled
  <2>1. auto.enabled
    BY <1>3, <1>4, <1>5, <1>6, <1>2
  <2>2. Discarding'
    BY <2>1, <1>2 DEF HostInv, Enabled, Discarding, FreshRound
  <2>3. PreinitLast'
    BY <2>1, <1>3, <1>4, <1>5, <1>6, <1>2 DEF HostInv, Enabled, PreinitLast, LastBut, Announced,
       ResetPath, Waiting, Resetting
  <2>4. ResetPath'
    BY <2>1, <1>3, <1>4, <1>5, <1>6, <1>2 DEF HostInv, Enabled, ResetPath, Resetting, Released,
       NotBegun, Waiting
  <2>5. Announced'
    BY <2>1, <1>3, <1>4, <1>5, <1>6, <1>2 DEF HostInv, Enabled, Announced, Waiting, OnlyErrors,
       Settled, Released, NotBegun, Resetting, ResetPath
  <2>6. Checking'
    BY <2>1, <1>3, <1>4, <1>5, <1>6, <1>2 DEF HostInv, Enabled, Checking, OnlyErrors, Waiting,
       Faulted
  <2> QED
    BY <2>2, <2>3, <2>4, <2>5, <2>6
<1>11. Epoch'
  <2> SUFFICES ASSUME auto'.enabled, ~auto'.skipping
               PROVE  WireOrder' /\ NotYet' /\ AtGrant' /\ OwnLog' /\ Captured' /\ Reported' /\
                  Ending'
    BY DEF Epoch
  <2>1. auto.enabled /\ ~auto.skipping
    BY <1>3, <1>4, <1>5, <1>6, <1>2
  <2>2. Captured' /\ Reported'
    BY <2>1, <1>2 DEF HostInv, Epoch, Captured, LogKind, Reported, Reached, Far
  <2>3. WireOrder'
    BY <2>1, <1>3, <1>4, <1>5, <1>6, <1>2 DEF HostInv, Epoch, WireOrder, LastBut, NotYet, OwnLog,
       Waiting, LogAbout, AtGrant, Enabled, Discarding
  <2>4. NotYet'
    BY <2>1, <1>3, <1>4, <1>5, <1>6, <1>2 DEF HostInv, Epoch, NotYet, Waiting
  <2>5. AtGrant'
    BY <2>1, <1>3, <1>4, <1>5, <1>6, <1>2 DEF HostInv, Epoch, AtGrant, Granted, OnlyErrors,
       Waiting, Faulted, NotYet
  <2>6. OwnLog'
    BY <2>1, <1>3, <1>4, <1>5, <1>6, <1>2 DEF HostInv, Epoch, OwnLog, LogAbout, Waiting,
       OnlyErrors, LogKinds, LogKind
  <2>7. Ending'
    BY <2>1, <1>3, <1>4, <1>5, <1>6, <1>2 DEF HostInv, Epoch, Ending, OnlyErrors, Waiting,
       LogKind, LogKinds, OwnLog
  <2> QED
    BY <2>2, <2>3, <2>4, <2>5, <2>6, <2>7
<1> QED
  BY <1>7, <1>8, <1>9, <1>10, <1>11 DEF HostInv

(* The board has run the program and dumps the log of its round.             *)
LEMMA BoardRunsKeeps == ASSUME HostInv, spent' = spent, BoardRests, BoardRuns PROVE HostInv'
<1>1. /\ board \in Boards
      /\ wire \in Seq(Frames)
      /\ watchdog \in Watchdogs
      /\ started \in Nat
  BY DEF HostInv, HostTypes
<1>2. UNCHANGED <<vm, svc, tx, resets, watchdog, auto, round, rx, poll, compare, skip, workers,
                  started, concluded, ending, spent>>
  BY DEF BoardRuns, BoardRests, Emits, envVars, sendVars, threadVars, history
<1>3. board'.at = "DUMP" /\ board'.of = board.of /\ board'.out = Dump(board.of) /\ board.of \in Nat
  BY <1>1 DEF BoardRuns, Boards
<1>4. board' \in Boards /\ \A i \in DOMAIN board'.out : board'.out[i] \in LogOf(board.of)
  BY <1>1, <1>3, DumpOwn DEF BoardRuns, Boards, BoardStates
<1>5. Status("DONE") \in Frames /\ Status("DONE").kind = "DONE"
  BY <1>1, FramesTyped DEF FrameKinds, AnyKind, StatusKind, LogKind
<1>6. /\ wire' \in Seq(Frames)
      /\ \A i \in DOMAIN wire : i \in DOMAIN wire' /\ wire'[i] = wire[i]
      /\ \A i \in DOMAIN wire' : i \in DOMAIN wire \/ wire'[i].kind = "DONE"
      /\ \A i, j \in DOMAIN wire' : i < j => i \in DOMAIN wire
  BY <1>1, <1>5, WireSent DEF BoardRuns, Emits
<1>7. board.at = "EXEC"
  BY DEF BoardRuns, BoardRests, Emits
<1>8. HostTypes'
  BY <1>3, <1>4, <1>5, <1>6, <1>7, <1>2 DEF HostInv, HostTypes
<1>9. RxKinds' /\ Numbered' /\ JobFits' /\ CompareHolds'
  BY <1>2 DEF HostInv, RxKinds, StatusKind, LogKind, Numbered, JobFits, NoJob, CompareHolds
<1>10. Caused'
  BY <1>3, <1>4, <1>5, <1>6, <1>7, <1>2 DEF HostInv, Caused, Waiting, Faulted
<1>11. Enabled'
  <2> SUFFICES ASSUME auto'.enabled
               PROVE  PreinitLast' /\ ResetPath' /\ Discarding' /\ Announced' /\ Checking'
    BY DEF Enabled
  <2>1. auto.enabled
    BY <1>3, <1>4, <1>5, <1>6, <1>7, <1>2
  <2>2. Discarding'
    BY <2>1, <1>2 DEF HostInv, Enabled, Discarding, FreshRound
  <2>3. PreinitLast'
    BY <2>1, <1>3, <1>4, <1>5, <1>6, <1>7, <1>2 DEF HostInv, Enabled, PreinitLast, LastBut,
       Announced, ResetPath, Waiting, Resetting
  <2>4. ResetPath'
    BY <2>1, <1>3, <1>4, <1>5, <1>6, <1>7, <1>2 DEF HostInv, Enabled, ResetPath, Resetting,
       Released, NotBegun, Waiting
  <2>5. Announced'
    BY <2>1, <1>3, <1>4, <1>5, <1>6, <1>7, <1>2 DEF HostInv, Enabled, Announced, Waiting,
       OnlyErrors, Settled, Released, NotBegun, Resetting, ResetPath
  <2>6. Checking'
    BY <2>1, <1>3, <1>4, <1>5, <1>6, <1>7, <1>2 DEF HostInv, Enabled, Checking, OnlyErrors,
       Waiting, Faulted
  <2> QED
    BY <2>2, <2>3, <2>4, <2>5, <2>6
<1>12. Epoch'
  <2> SUFFICES ASSUME auto'.enabled, ~auto'.skipping
               PROVE  WireOrder' /\ NotYet' /\ AtGrant' /\ OwnLog' /\ Captured' /\ Reported' /\
                  Ending'
    BY DEF Epoch
  <2>1. auto.enabled /\ ~auto.skipping
    BY <1>3, <1>4, <1>5, <1>6, <1>7, <1>2
  <2>2. Captured' /\ Reported'
    BY <2>1, <1>2 DEF HostInv, Epoch, Captured, LogKind, Reported, Reached, Far
  <2>3. WireOrder'
    BY <2>1, <1>3, <1>4, <1>5, <1>6, <1>7, <1>2 DEF HostInv, Epoch, WireOrder, LastBut, NotYet,
       OwnLog, Waiting, LogAbout, AtGrant, Enabled, Discarding
  <2>4. NotYet'
    BY <2>1, <1>3, <1>4, <1>5, <1>6, <1>7, <1>2 DEF HostInv, Epoch, NotYet, Waiting
  <2>5. AtGrant'
    BY <2>1, <1>3, <1>4, <1>5, <1>6, <1>7, <1>2 DEF HostInv, Epoch, AtGrant, Granted, OnlyErrors,
       Waiting, Faulted, NotYet
  <2>6. OwnLog'
    BY <2>1, <1>3, <1>4, <1>5, <1>6, <1>7, <1>2 DEF HostInv, Epoch, OwnLog, LogAbout, Waiting,
       OnlyErrors, LogKinds, LogKind
  <2>7. Ending'
    BY <2>1, <1>3, <1>4, <1>5, <1>6, <1>7, <1>2 DEF HostInv, Epoch, Ending, OnlyErrors, Waiting,
       LogKind, LogKinds, OwnLog
  <2> QED
    BY <2>2, <2>3, <2>4, <2>5, <2>6, <2>7
<1> QED
  BY <1>8, <1>9, <1>10, <1>11, <1>12 DEF HostInv

(* A frame of the log goes out.                                              *)
LEMMA BoardDumpsKeeps == ASSUME HostInv, spent' = spent, BoardRests, BoardDumps PROVE HostInv'
<1>1. /\ board \in Boards
      /\ wire \in Seq(Frames)
      /\ watchdog \in Watchdogs
      /\ started \in Nat
  BY DEF HostInv, HostTypes
<1>2. UNCHANGED <<vm, svc, tx, resets, watchdog, auto, round, rx, poll, compare, skip, workers,
                  started, concluded, ending, spent>>
  BY DEF BoardDumps, BoardRests, Emits, envVars, sendVars, threadVars, history
<1>3. /\ board'.at = board.at /\ board'.of = board.of /\ board' \in Boards /\ board.out # <<>>
      /\ \A i \in DOMAIN board'.out : i + 1 \in DOMAIN board.out /\ board'.out[i] = board.out[i + 1]
      /\ 1 \in DOMAIN board.out /\ Head(board.out) = board.out[1]
  BY <1>1, DumpTaken DEF BoardDumps, Boards, BoardStates
<1>4. Head(board.out) \in Frames /\ Head(board.out).kind \in LogKind
  BY <1>1, DumpTaken DEF BoardDumps, LogFrames, Frames, FrameKinds, AnyKind
<1>5. /\ wire' \in Seq(Frames)
      /\ \A i \in DOMAIN wire : i \in DOMAIN wire' /\ wire'[i] = wire[i]
      /\ \A i \in DOMAIN wire' : i \in DOMAIN wire \/ wire'[i] = Head(board.out)
      /\ \A i, j \in DOMAIN wire' : i < j => i \in DOMAIN wire
  BY <1>1, <1>4, WireSent DEF BoardDumps, Emits
<1>6. /\ board.at = "DUMP"
      /\ board.out # <<>>
  BY DEF BoardDumps, BoardRests, Emits
<1>7. HostTypes'
  BY <1>3, <1>4, <1>5, <1>6, <1>2 DEF HostInv, HostTypes
<1>8. RxKinds' /\ Numbered' /\ JobFits' /\ CompareHolds'
  BY <1>2 DEF HostInv, RxKinds, StatusKind, LogKind, Numbered, JobFits, NoJob, CompareHolds
<1>9. Caused'
  BY <1>3, <1>4, <1>5, <1>6, <1>2 DEF HostInv, Caused, Waiting, Faulted, LogKind
<1>10. Enabled'
  <2> SUFFICES ASSUME auto'.enabled
               PROVE  PreinitLast' /\ ResetPath' /\ Discarding' /\ Announced' /\ Checking'
    BY DEF Enabled
  <2>1. auto.enabled
    BY <1>3, <1>4, <1>5, <1>6, <1>2
  <2>2. Discarding'
    BY <2>1, <1>2 DEF HostInv, Enabled, Discarding, FreshRound
  <2>3. PreinitLast'
    BY <2>1, <1>3, <1>4, <1>5, <1>6, <1>2 DEF HostInv, Enabled, PreinitLast, LastBut, Announced,
       ResetPath, Waiting, Resetting
  <2>4. ResetPath'
    BY <2>1, <1>3, <1>4, <1>5, <1>6, <1>2 DEF HostInv, Enabled, ResetPath, Resetting, Released,
       NotBegun, Waiting, LogKind
  <2>5. Announced'
    BY <2>1, <1>3, <1>4, <1>5, <1>6, <1>2 DEF HostInv, Enabled, Announced, Waiting, OnlyErrors,
       Settled, Released, NotBegun, Resetting, ResetPath, LogKind
  <2>6. Checking'
    BY <2>1, <1>3, <1>4, <1>5, <1>6, <1>2 DEF HostInv, Enabled, Checking, OnlyErrors, Waiting,
       Faulted
  <2> QED
    BY <2>2, <2>3, <2>4, <2>5, <2>6
<1>11. Epoch'
  <2> SUFFICES ASSUME auto'.enabled, ~auto'.skipping
               PROVE  WireOrder' /\ NotYet' /\ AtGrant' /\ OwnLog' /\ Captured' /\ Reported' /\
                  Ending'
    BY DEF Epoch
  <2>1. auto.enabled /\ ~auto.skipping
    BY <1>3, <1>4, <1>5, <1>6, <1>2
  <2>2. Captured' /\ Reported'
    BY <2>1, <1>2 DEF HostInv, Epoch, Captured, LogKind, Reported, Reached, Far
  <2>3. WireOrder'
    BY <2>1, <1>3, <1>4, <1>5, <1>6, <1>2 DEF HostInv, Epoch, WireOrder, LastBut, NotYet, OwnLog,
       Waiting, LogAbout, AtGrant, Enabled, Discarding
  <2>4. NotYet'
    BY <2>1, <1>3, <1>4, <1>5, <1>6, <1>2 DEF HostInv, Epoch, NotYet, Waiting
  <2>5. AtGrant'
    BY <2>1, <1>3, <1>4, <1>5, <1>6, <1>2 DEF HostInv, Epoch, AtGrant, Granted, OnlyErrors,
       Waiting, Faulted, NotYet, LogKind
  <2>6. OwnLog'
    BY <2>1, <1>3, <1>4, <1>5, <1>6, <1>2 DEF HostInv, Epoch, OwnLog, LogAbout, Waiting,
       OnlyErrors, LogKinds, LogKind
  <2>7. Ending'
    BY <2>1, <1>3, <1>4, <1>5, <1>6, <1>2 DEF HostInv, Epoch, Ending, OnlyErrors, Waiting,
       LogKind, LogKinds, OwnLog
  <2> QED
    BY <2>2, <2>3, <2>4, <2>5, <2>6, <2>7
<1> QED
  BY <1>7, <1>8, <1>9, <1>10, <1>11 DEF HostInv

(* The end of execution follows the whole log.                               *)
LEMMA BoardFinishesKeeps ==
    ASSUME HostInv, spent' = spent, BoardRests,
           BoardFinishes
    PROVE  HostInv'
<1>1. /\ board \in Boards
      /\ wire \in Seq(Frames)
      /\ watchdog \in Watchdogs
      /\ started \in Nat
  BY DEF HostInv, HostTypes
<1>2. UNCHANGED <<vm, svc, tx, resets, watchdog, auto, round, rx, poll, compare, skip, workers,
                  started, concluded, ending, spent>>
  BY DEF BoardFinishes, BoardRests, Emits, envVars, sendVars, threadVars, history
<1>3. board'.at = "END" /\ board'.of = board.of /\ board'.out = board.out /\ board' \in Boards
  BY <1>1 DEF BoardFinishes, Boards, BoardStates
<1>4. Status("EXE_END") \in Frames /\ Status("EXE_END").kind = "EXE_END"
  BY <1>1, FramesTyped DEF FrameKinds, AnyKind, StatusKind, LogKind
<1>5. /\ wire' \in Seq(Frames)
      /\ \A i \in DOMAIN wire : i \in DOMAIN wire' /\ wire'[i] = wire[i]
      /\ \A i \in DOMAIN wire' : i \in DOMAIN wire \/ wire'[i].kind = "EXE_END"
      /\ \A i, j \in DOMAIN wire' : i < j => i \in DOMAIN wire
  BY <1>1, <1>4, WireSent DEF BoardFinishes, Emits
<1>6. /\ board.at = "DUMP"
      /\ board.out = <<>>
  BY DEF BoardFinishes, BoardRests, Emits
<1>7. HostTypes'
  BY <1>3, <1>4, <1>5, <1>6, <1>2 DEF HostInv, HostTypes
<1>8. RxKinds' /\ Numbered' /\ JobFits' /\ CompareHolds'
  BY <1>2 DEF HostInv, RxKinds, StatusKind, LogKind, Numbered, JobFits, NoJob, CompareHolds
<1>9. Caused'
  BY <1>3, <1>4, <1>5, <1>6, <1>2 DEF HostInv, Caused, Waiting, Faulted
<1>10. Enabled'
  <2> SUFFICES ASSUME auto'.enabled
               PROVE  PreinitLast' /\ ResetPath' /\ Discarding' /\ Announced' /\ Checking'
    BY DEF Enabled
  <2>1. auto.enabled
    BY <1>3, <1>4, <1>5, <1>6, <1>2
  <2>2. Discarding'
    BY <2>1, <1>2 DEF HostInv, Enabled, Discarding, FreshRound
  <2>3. PreinitLast'
    BY <2>1, <1>3, <1>4, <1>5, <1>6, <1>2 DEF HostInv, Enabled, PreinitLast, LastBut, Announced,
       ResetPath, Waiting, Resetting
  <2>4. ResetPath'
    BY <2>1, <1>3, <1>4, <1>5, <1>6, <1>2 DEF HostInv, Enabled, ResetPath, Resetting, Released,
       NotBegun, Waiting
  <2>5. Announced'
    BY <2>1, <1>3, <1>4, <1>5, <1>6, <1>2 DEF HostInv, Enabled, Announced, Waiting, OnlyErrors,
       Settled, Released, NotBegun, Resetting, ResetPath
  <2>6. Checking'
    BY <2>1, <1>3, <1>4, <1>5, <1>6, <1>2 DEF HostInv, Enabled, Checking, OnlyErrors, Waiting,
       Faulted
  <2> QED
    BY <2>2, <2>3, <2>4, <2>5, <2>6
<1>11. Epoch'
  <2> SUFFICES ASSUME auto'.enabled, ~auto'.skipping
               PROVE  WireOrder' /\ NotYet' /\ AtGrant' /\ OwnLog' /\ Captured' /\ Reported' /\
                  Ending'
    BY DEF Epoch
  <2>1. auto.enabled /\ ~auto.skipping
    BY <1>3, <1>4, <1>5, <1>6, <1>2
  <2>2. Captured' /\ Reported'
    BY <2>1, <1>2 DEF HostInv, Epoch, Captured, LogKind, Reported, Reached, Far
  <2>3. WireOrder'
    BY <2>1, <1>3, <1>4, <1>5, <1>6, <1>2 DEF HostInv, Epoch, WireOrder, LastBut, NotYet, OwnLog,
       Waiting, LogAbout, AtGrant, Enabled, Discarding
  <2>4. NotYet'
    BY <2>1, <1>3, <1>4, <1>5, <1>6, <1>2 DEF HostInv, Epoch, NotYet, Waiting
  <2>5. AtGrant'
    BY <2>1, <1>3, <1>4, <1>5, <1>6, <1>2 DEF HostInv, Epoch, AtGrant, Granted, OnlyErrors,
       Waiting, Faulted, NotYet
  <2>6. OwnLog'
    BY <2>1, <1>3, <1>4, <1>5, <1>6, <1>2 DEF HostInv, Epoch, OwnLog, LogAbout, Waiting,
       OnlyErrors, LogKinds, LogKind
  <2>7. Ending'
    BY <2>1, <1>3, <1>4, <1>5, <1>6, <1>2 DEF HostInv, Epoch, Ending, OnlyErrors, Waiting,
       LogKind, LogKinds, OwnLog
  <2> QED
    BY <2>2, <2>3, <2>4, <2>5, <2>6, <2>7
<1> QED
  BY <1>7, <1>8, <1>9, <1>10, <1>11 DEF HostInv

(* A frame of the log is lost before it is sent.                             *)
LEMMA LogFrameLostKeeps == ASSUME HostInv, LogFrameLost PROVE HostInv'
<1>1. /\ board \in Boards
      /\ wire \in Seq(Frames)
      /\ spent \in [Budgets -> Nat]
  BY DEF HostInv, HostTypes
<1>2. UNCHANGED <<vm, svc, tx, resets, watchdog, auto, round, rx, poll, compare, skip, workers,
                  started, concluded, ending>>
  BY DEF LogFrameLost, BoardRests, envVars, sendVars, threadVars, history
<1>3. /\ board'.at = board.at /\ board'.of = board.of /\ board' \in Boards /\ board.out # <<>>
      /\ \A i \in DOMAIN board'.out : i + 1 \in DOMAIN board.out /\ board'.out[i] = board.out[i + 1]
      /\ 1 \in DOMAIN board.out /\ Head(board.out) = board.out[1]
      /\ wire' = wire
  BY <1>1, DumpTaken DEF LogFrameLost, Boards, BoardStates
<1>4. Faulted' = Faulted
  BY <1>1 DEF LogFrameLost, Spend, Faulted, Budgets
<1>5. spent' \in [Budgets -> Nat]
  BY <1>1 DEF LogFrameLost, BoardRests, Spend, Budgets
<1>6. HostTypes'
  BY <1>5, <1>3, <1>4, <1>2 DEF HostInv, HostTypes
<1>7. RxKinds' /\ Numbered' /\ JobFits' /\ CompareHolds'
  BY <1>2 DEF HostInv, RxKinds, StatusKind, LogKind, Numbered, JobFits, NoJob, CompareHolds
<1>8. Caused'
  BY <1>3, <1>4, <1>2 DEF HostInv, Caused, Waiting, Faulted
<1>9. Enabled'
  <2> SUFFICES ASSUME auto'.enabled
               PROVE  PreinitLast' /\ ResetPath' /\ Discarding' /\ Announced' /\ Checking'
    BY DEF Enabled
  <2>1. auto.enabled
    BY <1>3, <1>4, <1>2
  <2>2. Discarding'
    BY <2>1, <1>2 DEF HostInv, Enabled, Discarding, FreshRound
  <2>3. PreinitLast'
    BY <2>1, <1>3, <1>4, <1>2 DEF HostInv, Enabled, PreinitLast, LastBut
  <2>4. ResetPath'
    BY <2>1, <1>3, <1>4, <1>2 DEF HostInv, Enabled, ResetPath, Resetting, Released, NotBegun,
       Waiting
  <2>5. Announced'
    BY <2>1, <1>3, <1>4, <1>2 DEF HostInv, Enabled, Announced, Waiting, OnlyErrors, Settled,
       Released, NotBegun
  <2>6. Checking'
    BY <2>1, <1>3, <1>4, <1>2 DEF HostInv, Enabled, Checking, OnlyErrors, Waiting, Faulted
  <2> QED
    BY <2>2, <2>3, <2>4, <2>5, <2>6
<1>10. Epoch'
  <2> SUFFICES ASSUME auto'.enabled, ~auto'.skipping
               PROVE  WireOrder' /\ NotYet' /\ AtGrant' /\ OwnLog' /\ Captured' /\ Reported' /\
                  Ending'
    BY DEF Epoch
  <2>1. auto.enabled /\ ~auto.skipping
    BY <1>3, <1>4, <1>2
  <2>2. Captured' /\ Reported'
    BY <2>1, <1>2 DEF HostInv, Epoch, Captured, LogKind, Reported, Reached, Far
  <2>3. WireOrder'
    BY <2>1, <1>3, <1>4, <1>2 DEF HostInv, Epoch, WireOrder, LastBut
  <2>4. NotYet'
    BY <2>1, <1>3, <1>4, <1>2 DEF HostInv, Epoch, NotYet, Waiting
  <2>5. AtGrant'
    BY <2>1, <1>3, <1>4, <1>2 DEF HostInv, Epoch, AtGrant, Granted, OnlyErrors, Waiting, Faulted
  <2>6. OwnLog'
    BY <2>1, <1>3, <1>4, <1>2 DEF HostInv, Epoch, OwnLog, LogAbout, Waiting, OnlyErrors, LogKinds,
       LogKind
  <2>7. Ending'
    BY <2>1, <1>3, <1>4, <1>2 DEF HostInv, Epoch, Ending, OnlyErrors, Waiting
  <2> QED
    BY <2>2, <2>3, <2>4, <2>5, <2>6, <2>7
<1> QED
  BY <1>6, <1>7, <1>8, <1>9, <1>10 DEF HostInv

(* The board fails and says so.                                              *)
LEMMA BoardFailsKeeps == ASSUME HostInv, BoardFails PROVE HostInv'
<1>1. /\ board \in Boards
      /\ wire \in Seq(Frames)
      /\ watchdog \in Watchdogs
      /\ started \in Nat
      /\ spent \in [Budgets -> Nat]
  BY DEF HostInv, HostTypes
<1>2. UNCHANGED <<vm, svc, tx, resets, watchdog, auto, round, rx, poll, compare, skip, workers,
                  started, concluded, ending>>
  BY DEF BoardFails, BoardRests, Emits, envVars, sendVars, threadVars, history
<1>3. board'.at = "ERROR" /\ board'.of = 0 /\ board'.out = <<>> /\ board' \in Boards
  BY <1>1 DEF BoardFails, Boards, BoardStates
<1>4. Status("ERROR") \in Frames /\ Status("ERROR").kind = "ERROR"
  BY <1>1, FramesTyped DEF FrameKinds, AnyKind, StatusKind, LogKind
<1>5. /\ wire' \in Seq(Frames)
      /\ \A i \in DOMAIN wire : i \in DOMAIN wire' /\ wire'[i] = wire[i]
      /\ \A i \in DOMAIN wire' : i \in DOMAIN wire \/ wire'[i].kind = "ERROR"
      /\ \A i, j \in DOMAIN wire' : i < j => i \in DOMAIN wire
  BY <1>1, <1>4, WireSent DEF BoardFails, Emits
<1>6. Faulted'
  BY <1>1 DEF BoardFails, Spend, Faulted, Budgets
<1>7. board.at \notin {"RESET", "ERROR"}
  BY DEF BoardFails, BoardRests, Emits
<1>8. spent' \in [Budgets -> Nat]
  BY <1>1 DEF BoardFails, BoardRests, Emits, Spend, Budgets
<1>9. HostTypes'
  BY <1>8, <1>3, <1>4, <1>5, <1>6, <1>7, <1>2 DEF HostInv, HostTypes
<1>10. RxKinds' /\ Numbered' /\ JobFits' /\ CompareHolds'
  BY <1>2 DEF HostInv, RxKinds, StatusKind, LogKind, Numbered, JobFits, NoJob, CompareHolds
<1>11. Caused'
  BY <1>3, <1>4, <1>5, <1>6, <1>7, <1>2 DEF HostInv, Caused, Waiting, Faulted
<1>12. Enabled'
  <2> SUFFICES ASSUME auto'.enabled
               PROVE  PreinitLast' /\ ResetPath' /\ Discarding' /\ Announced' /\ Checking'
    BY DEF Enabled
  <2>1. auto.enabled
    BY <1>3, <1>4, <1>5, <1>6, <1>7, <1>2
  <2>2. Discarding'
    BY <2>1, <1>2 DEF HostInv, Enabled, Discarding, FreshRound
  <2>3. PreinitLast'
    BY <2>1, <1>3, <1>4, <1>5, <1>6, <1>7, <1>2 DEF HostInv, Enabled, PreinitLast, LastBut
  <2>4. ResetPath'
    BY <2>1, <1>3, <1>4, <1>5, <1>6, <1>7, <1>2 DEF HostInv, Enabled, ResetPath, Resetting,
       Released, NotBegun, Waiting
  <2>5. Announced'
    BY <2>1, <1>3, <1>4, <1>5, <1>6, <1>7, <1>2 DEF HostInv, Enabled, Announced, Waiting,
       OnlyErrors, Settled, Released, NotBegun, Resetting, ResetPath
  <2>6. Checking'
    BY <2>1, <1>3, <1>4, <1>5, <1>6, <1>7, <1>2 DEF HostInv, Enabled, Checking, OnlyErrors,
       Waiting, Faulted
  <2> QED
    BY <2>2, <2>3, <2>4, <2>5, <2>6
<1>13. Epoch'
  <2> SUFFICES ASSUME auto'.enabled, ~auto'.skipping
               PROVE  WireOrder' /\ NotYet' /\ AtGrant' /\ OwnLog' /\ Captured' /\ Reported' /\
                  Ending'
    BY DEF Epoch
  <2>1. auto.enabled /\ ~auto.skipping
    BY <1>3, <1>4, <1>5, <1>6, <1>7, <1>2
  <2>2. Captured' /\ Reported'
    BY <2>1, <1>2 DEF HostInv, Epoch, Captured, LogKind, Reported, Reached, Far
  <2>3. WireOrder'
    BY <2>1, <1>3, <1>4, <1>5, <1>6, <1>7, <1>2 DEF HostInv, Epoch, WireOrder, LastBut
  <2>4. NotYet'
    BY <2>1, <1>3, <1>4, <1>5, <1>6, <1>7, <1>2 DEF HostInv, Epoch, NotYet, Waiting
  <2>5. AtGrant'
    BY <2>1, <1>3, <1>4, <1>5, <1>6, <1>7, <1>2 DEF HostInv, Epoch, AtGrant, Granted, OnlyErrors,
       Waiting, Faulted
  <2>6. OwnLog'
    BY <2>1, <1>3, <1>4, <1>5, <1>6, <1>7, <1>2 DEF HostInv, Epoch, OwnLog, LogAbout, Waiting,
       OnlyErrors, LogKinds, LogKind
  <2>7. Ending'
    BY <2>1, <1>3, <1>4, <1>5, <1>6, <1>7, <1>2 DEF HostInv, Epoch, Ending, OnlyErrors, Waiting
  <2> QED
    BY <2>2, <2>3, <2>4, <2>5, <2>6, <2>7
<1> QED
  BY <1>9, <1>10, <1>11, <1>12, <1>13 DEF HostInv

(* The VM goes on with the job.                                              *)
LEMMA VmGoesOnKeeps == ASSUME HostInv, VmGoesOn PROVE HostInv'
<1>1. vm \in Jobs
  BY DEF HostInv, HostTypes
<1>2. UNCHANGED <<board, wire, svc, tx, resets, watchdog, auto, round, rx, poll, compare, skip,
                  workers, started, concluded, ending, spent>>
  BY DEF VmGoesOn, envVars, sendVars, threadVars, history
<1>3. /\ vm'.at = IF vm.at = "generating" THEN "program" ELSE "spike"
      /\ vm'.failed = vm.failed
  BY <1>1 DEF VmGoesOn, Jobs, VmNext, VmStates, HostInv, JobFits
<1>4. vm # NoJob /\ ~vm.failed /\ vm.at # "spike" /\ workers.starters = 0 /\ vm.at # "none"
  BY DEF VmGoesOn, HostInv, JobFits
<1>5. vm' \in Jobs
  BY <1>1, <1>3, <1>4 DEF VmGoesOn, Jobs, VmStates, VmNext
<1>6. HostTypes'
  BY <1>5, <1>2 DEF HostInv, HostTypes
<1>7. RxKinds' /\ Numbered' /\ Caused' /\ CompareHolds'
  BY <1>2 DEF HostInv, RxKinds, StatusKind, LogKind, Numbered, Caused, Waiting, Faulted,
     CompareHolds
<1>8. JobFits'
  BY <1>3, <1>4, <1>2 DEF HostInv, JobFits, NoJob, VmNext
<1>9. Enabled'
  <2> SUFFICES ASSUME auto'.enabled
               PROVE  PreinitLast' /\ ResetPath' /\ Discarding' /\ Announced' /\ Checking'
    BY DEF Enabled
  <2>1. auto.enabled
    BY <1>3, <1>4, <1>2
  <2>2. PreinitLast' /\ ResetPath' /\ Discarding' /\ Announced' /\ Checking'
    BY <2>1, <1>2 DEF HostInv, Enabled, PreinitLast, LastBut, ResetPath, Resetting, Released,
       NotBegun, Waiting, Discarding, FreshRound, Announced, OnlyErrors, Settled, Checking,
       Faulted
  <2> QED
    BY <2>2
<1>10. Epoch'
  <2> SUFFICES ASSUME auto'.enabled, ~auto'.skipping
               PROVE  WireOrder' /\ NotYet' /\ AtGrant' /\ OwnLog' /\ Captured' /\ Reported' /\
                  Ending'
    BY DEF Epoch
  <2>1. auto.enabled /\ ~auto.skipping
    BY <1>3, <1>4, <1>2
  <2>2. WireOrder' /\ NotYet' /\ AtGrant'
    BY SMTT(30), <2>1, <1>2 DEF HostInv, Epoch, WireOrder, LastBut, NotYet, Waiting, AtGrant, Granted,
       OnlyErrors, Faulted
  <2>4. OwnLog' /\ Captured'
    BY SMTT(30), <2>1, <1>2 DEF HostInv, Epoch, OwnLog, LogAbout, LogKinds, LogKind, Waiting,
       OnlyErrors, Captured
  <2>5. Ending'
    BY SMTT(30), <2>1, <1>2 DEF HostInv, Epoch, Ending, OnlyErrors
  <2>3. Reported'
    BY <2>1, <1>3, <1>4, <1>2 DEF HostInv, Epoch, Reported, Reached, Far, VmNext, VmStates,
       JobFits
  <2> QED
    BY <2>2, <2>3, <2>4, <2>5
<1> QED
  BY <1>6, <1>7, <1>8, <1>9, <1>10 DEF HostInv

(* The job fails on the VM.                                                  *)
LEMMA VmFailsKeeps == ASSUME HostInv, VmFails PROVE HostInv'
<1>1. /\ vm \in Jobs
      /\ spent \in [Budgets -> Nat]
  BY DEF HostInv, HostTypes
<1>2. UNCHANGED <<board, wire, svc, tx, resets, watchdog, auto, round, rx, poll, compare, skip,
                  workers, started, concluded, ending>>
  BY DEF VmFails, envVars, sendVars, threadVars, history
<1>3. /\ vm'.at = vm.at
      /\ vm'.failed = TRUE
  BY <1>1 DEF VmFails, Jobs
<1>4. Faulted' = Faulted
  BY <1>1 DEF VmFails, Spend, Faulted, Budgets
<1>5. /\ vm # NoJob /\ ~vm.failed /\ vm.at # "spike"
      /\ vm.at # "none"
  BY DEF VmFails, HostInv, JobFits
<1>6. vm' \in Jobs
  BY <1>1 DEF VmFails, Jobs, VmStates
<1>7. spent' \in [Budgets -> Nat]
  BY <1>1 DEF VmFails, Spend, Budgets
<1>8. HostTypes'
  BY <1>6, <1>7, <1>2 DEF HostInv, HostTypes
<1>9. RxKinds' /\ Numbered' /\ CompareHolds'
  BY <1>2 DEF HostInv, RxKinds, StatusKind, LogKind, Numbered, CompareHolds
<1>10. JobFits'
  BY <1>3, <1>4, <1>5, <1>2 DEF HostInv, JobFits, NoJob
<1>11. Caused'
  BY <1>3, <1>4, <1>5, <1>2 DEF HostInv, Caused, Waiting, Faulted
<1>12. Enabled'
  <2> SUFFICES ASSUME auto'.enabled
               PROVE  PreinitLast' /\ ResetPath' /\ Discarding' /\ Announced' /\ Checking'
    BY DEF Enabled
  <2>1. auto.enabled
    BY <1>3, <1>4, <1>5, <1>2
  <2>2. PreinitLast' /\ ResetPath' /\ Discarding' /\ Announced'
    BY <2>1, <1>2 DEF HostInv, Enabled, PreinitLast, LastBut, ResetPath, Resetting, Released,
       NotBegun, Waiting, Discarding, FreshRound, Announced, OnlyErrors, Settled
  <2>3. Checking'
    BY <2>1, <1>3, <1>4, <1>5, <1>2 DEF HostInv, Enabled, Checking, OnlyErrors, Waiting, Faulted
  <2> QED
    BY <2>2, <2>3
<1>13. Epoch'
  <2> SUFFICES ASSUME auto'.enabled, ~auto'.skipping
               PROVE  WireOrder' /\ NotYet' /\ AtGrant' /\ OwnLog' /\ Captured' /\ Reported' /\
                  Ending'
    BY DEF Epoch
  <2>1. auto.enabled /\ ~auto.skipping
    BY <1>3, <1>4, <1>5, <1>2
  <2>2. WireOrder' /\ NotYet' /\ OwnLog' /\ Captured' /\ Ending'
    BY <2>1, <1>2 DEF HostInv, Epoch, WireOrder, LastBut, NotYet, Waiting, OwnLog, LogAbout,
       OnlyErrors, LogKinds, LogKind, Captured, Ending
  <2>3. AtGrant'
    BY <2>1, <1>3, <1>4, <1>5, <1>2 DEF HostInv, Epoch, AtGrant, Granted, OnlyErrors, Waiting,
       Faulted
  <2>4. Reported'
    BY <2>1, <1>3, <1>4, <1>5, <1>2 DEF HostInv, Epoch, Reported, Reached, Far
  <2> QED
    BY <2>2, <2>3, <2>4
<1> QED
  BY <1>8, <1>9, <1>10, <1>11, <1>12, <1>13 DEF HostInv

-----------------------------------------------------------------------------
(* A discarding thread either finds its round or not; so does a start worker. *)
LEMMA SkipReleasesKeeps == ASSUME HostInv, NEW t \in Threads, SkipReleases(t) PROVE HostInv'
<1>1. CASE auto.round = skip[t].of
  BY <1>1, SkipReleasesRoundKeeps
<1>2. CASE auto.round # skip[t].of
  BY <1>2, SkipReleasesNoneKeeps
<1> QED BY <1>1, <1>2

LEMMA InstallsKeeps == ASSUME HostInv, Installs PROVE HostInv'
<1> DEFINE may == auto.enabled /\ ~auto.skipping /\ auto.round = 0 /\ started < MaxRounds
<1>1. CASE may
  BY <1>1, InstallsRoundKeeps
<1>2. CASE ~may
  BY <1>2, InstallsNoneKeeps
<1> QED BY <1>1, <1>2

(* No step of any thread, of the board or of the VM breaks the invariant.    *)
LEMMA HostNext == ASSUME HostInv, [Next]_vars PROVE HostInv'
<1>1. CASE RxStep
  BY <1>1, RxServiceKeeps, RxSnapshotKeeps, RxGateKeeps, RxPreinitKeeps,
     RxSchedulesPreconfigKeeps, RxGrantKeeps, RxSchedulesStartKeeps, RxMaybeSendsKeeps,
     RxExeEndKeeps, RxErrorKeeps, RxCapturesKeeps, RxChecksKeeps, RxHartDoneKeeps,
     RxMaybeComparesKeeps, RxLossKeeps, RxDiscardedKeeps, RxManualKeeps, RxStopsKeeps,
     RxResetsKeeps DEF RxStep
<1>2. CASE PollStep
  BY <1>2, PollReadsKeeps, PollStoresKeeps, PollSkipsKeeps, PollDiscardedKeeps,
     PollMaybeSendsKeeps, PollMaybeComparesKeeps DEF PollStep
<1>3. CASE CompareStep \/ ComparesFail
  BY <1>3, ComparesKeeps, CompareFailsKeeps, CompareReleasesKeeps, CompareResetsKeeps,
     ComparesFailKeeps DEF CompareStep
<1>4. CASE \E t \in Threads : SkipStep(t) \/ SkipSaveFails(t)
  BY <1>4, SkipSavesKeeps, SkipSaveFailsKeeps, SkipReleasesKeeps, SkipResetsKeeps DEF SkipStep
<1>5. CASE WorkerStep \/ LaunchFails
  BY <1>5, PreSendsKeeps, PreSentKeeps, PreFailsKeeps, PreEndsKeeps, InstallsKeeps, LaunchesKeeps,
     SenderBeginsKeeps, SenderFailsKeeps, LaunchFailsKeeps DEF WorkerStep
<1>6. CASE BulkEnds \/ ResetArrives \/ ResetLost \/ WatchdogWakes \/ WatchdogCalls
  BY <1>6, BulkEndsKeeps, ResetArrivesKeeps, ResetLostKeeps, WatchdogWakesKeeps,
     WatchdogCallsKeeps
<1>7. CASE BoardSpeaks
  BY <1>7, BoardBootsKeeps, BoardPassesKeeps, BoardGrantsKeeps, BoardRunsKeeps, BoardDumpsKeeps,
     BoardFinishesKeeps DEF BoardSpeaks
<1>8. CASE OperatorStops \/ LogFrameLost \/ BoardFails \/ VmGoesOn \/ VmFails
  BY <1>8, OperatorStopsKeeps, LogFrameLostKeeps, BoardFailsKeeps, VmGoesOnKeeps, VmFailsKeeps
<1>9. CASE UNCHANGED vars
  <2>1. UNCHANGED <<board, wire, vm, svc, tx, resets, watchdog, auto, round, rx, poll, compare,
                    skip, workers, started, concluded, ending, spent>>
    BY <1>9 DEF vars, envVars, sendVars, threadVars, history
  <2>2. HostTypes' /\ RxKinds' /\ JobFits'
    BY <2>1 DEF HostInv, HostTypes, RxKinds, StatusKind, LogKind, JobFits, NoJob
  <2>3. Numbered' /\ Caused' /\ CompareHolds'
    BY <2>1 DEF HostInv, Numbered, Caused, Waiting, Faulted, CompareHolds
  <2>4. Enabled'
    <3> SUFFICES ASSUME Enabled  PROVE Enabled'
      BY DEF HostInv
    <3>1. PreinitLast => PreinitLast'
      BY <2>1 DEF PreinitLast, LastBut
    <3>2. ResetPath => ResetPath'
      BY <2>1 DEF ResetPath, Resetting, Released, NotBegun, Waiting
    <3>3. Discarding => Discarding'
      BY <2>1 DEF Discarding, FreshRound
    <3>4. Announced => Announced'
      BY <2>1 DEF Announced, Waiting, OnlyErrors, Settled, Released, NotBegun
    <3>5. Checking => Checking'
      BY <2>1 DEF Checking, OnlyErrors, Waiting, Faulted
    <3> QED
      BY <2>1, <3>1, <3>2, <3>3, <3>4, <3>5 DEF Enabled
  <2>5. Epoch'
    <3> SUFFICES ASSUME Epoch  PROVE Epoch'
      BY DEF HostInv
    <3>1. WireOrder => WireOrder'
      BY <2>1 DEF WireOrder, LastBut
    <3>2. NotYet => NotYet'
      BY <2>1 DEF NotYet, Waiting
    <3>3. AtGrant => AtGrant'
      BY <2>1 DEF AtGrant, Granted, OnlyErrors, Waiting, Faulted
    <3>4. OwnLog => OwnLog'
      BY <2>1 DEF OwnLog, LogAbout, Waiting, OnlyErrors, LogKinds, LogKind
    <3>5. Captured => Captured'
      BY <2>1 DEF Captured, LogKind
    <3>6. Reported => Reported'
      BY <2>1 DEF Reported, Reached, Far
    <3>7. Ending => Ending'
      BY <2>1 DEF Ending, OnlyErrors, Waiting
    <3> QED
      BY <2>1, <3>1, <3>2, <3>3, <3>4, <3>5, <3>6, <3>7 DEF Epoch
  <2> QED BY <2>2, <2>3, <2>4, <2>5 DEF HostInv
<1> QED
  BY <1>1, <1>2, <1>3, <1>4, <1>5, <1>6, <1>7, <1>8, <1>9 DEF Next

(* The invariant of the automated session, for any harts, wire, number of    *)
(* rounds and of faults.                                                     *)
THEOREM HostInvariant == Spec => []HostInv
<1>1. Init => HostInv
  BY HostStarts
<1>2. HostInv /\ [Next]_vars => HostInv'
  BY HostNext
<1> QED BY <1>1, <1>2, PTL DEF Spec

(* A comparison reads the whole log of its own round and nothing else.       *)
THEOREM ComparesWholeLogs == Spec => []ComparesOwnLog
<1>1. HostInv => ComparesOwnLog
  BY DEF HostInv, CompareHolds, ComparesOwnLog
<1> QED BY <1>1, HostInvariant, PTL

-----------------------------------------------------------------------------
(* A frame of the log is not missed while none is lost: the log on its way   *)
(* to the RX thread, what is in its hand, on the wire and at the board.      *)
Current == auto.enabled /\ ~auto.skipping

Ahead(a, b) == a.hart # b.hart \/ (a.kind = "DATA" /\ b.kind = "HART_DONE")
InHand(kind, h) == rx.pc = "check" /\ rx.frame.kind = kind /\ rx.frame.hart = h
OnWire(kind, h) == \E i \in DOMAIN wire : wire[i].kind = kind /\ wire[i].hart = h
AtBoard(kind, h) == \E i \in DOMAIN board.out : board.out[i].kind = kind /\ board.out[i].hart = h
ToCome(kind, h) == InHand(kind, h) \/ OnWire(kind, h) \/ AtBoard(kind, h)

(* A hart's data frame comes before its completion frame, and each once.     *)
WireSorted == \A i, j \in DOMAIN wire :
    i < j /\ wire[i].kind \in LogKind /\ wire[j].kind \in LogKind => Ahead(wire[i], wire[j])
BoardSorted == \A i, j \in DOMAIN board.out : i < j => Ahead(board.out[i], board.out[j])
WireFirst == \A i \in DOMAIN wire, j \in DOMAIN board.out :
    wire[i].kind \in LogKind => Ahead(wire[i], board.out[j])
HandFirst == rx.pc = "check" =>
    /\ \A i \in DOMAIN wire : wire[i].kind \in LogKind => Ahead(rx.frame, wire[i])
    /\ \A i \in DOMAIN board.out : Ahead(rx.frame, board.out[i])
NotDumped == board.at = "EXEC" =>
    svc.seen = {} /\ rx.pc # "check" /\ \A i \in DOMAIN wire : wire[i].kind \notin LogKind
LogOrder == WireSorted /\ BoardSorted /\ WireFirst /\ HandFirst /\ NotDumped

Conclusive == board.at = "DUMP" \/ Waiting({"EXE_END"})
              \/ (rx.frame.kind = "EXE_END" /\ rx.pc \in {"snapshot", "act"})
Lossless ==
    /\ \A h \in Harts : ToCome("HART_DONE", h) => h \in svc.seen \/ ToCome("DATA", h)
    /\ \A h \in Harts : ToCome("DATA", h) => h \notin svc.seen
    /\ Conclusive => \A h \in Harts : \/ h \in round.dones \/ ToCome("HART_DONE", h)
                                      \/ rx.pc = "done" /\ rx.frame.hart = h
    /\ round.dones \subseteq Harts
    /\ rx.pc # "loss"

Flows == Current => LogOrder /\ (spent["frame"] = 0 => Lossless)

(* What only a failed VM job, and what only a lost frame brings about. *)
Spoiled ==
    /\ vm.failed \/ poll.status.failed \/ round.status.failed \/ removed # {} => spent["vm"] > 0
    /\ skip["rx"].pc = "save" => spent["frame"] > 0
    /\ ending = "missing" => spent["vm"] > 0 /\ spent["frame"] > 0

LossInv == Flows /\ Spoiled

-----------------------------------------------------------------------------
(* Without a round there is no log on its way.                               *)
LEMMA NoRoundNoLog == ASSUME HostInv', auto'.round = 0 PROVE Flows'
<1> SUFFICES ASSUME Current' PROVE LogOrder' /\ Lossless'
  BY DEF Flows
<1>1. ~LogAbout' /\ round'.dones = {} /\ (board'.out # <<>> => board'.at = "DUMP")
  BY FreshTyped DEF HostInv, Enabled, Epoch, Discarding, OwnLog, Current
<1>2. /\ board'.at \notin {"EXEC", "DUMP"} /\ board'.out = <<>>
      /\ \A i \in DOMAIN wire' : wire'[i].kind \notin LogKinds
      /\ rx'.frame.kind \in LogKinds => rx'.frame.kind = "EXE_END" /\ rx'.pc = "compare"
  BY <1>1 DEF LogAbout, Waiting
<1>3. rx'.pc \notin {"check", "done", "loss"}
  BY <1>2 DEF HostInv, RxKinds, LogKinds, LogKind
<1>4. LogOrder'
  BY <1>2, <1>3 DEF LogOrder, WireSorted, BoardSorted, WireFirst, HandFirst, NotDumped, LogKinds
<1>5. ~Conclusive'
  BY <1>2 DEF Conclusive, Waiting, LogKinds
<1>6. \A h \in Harts, kind \in LogKind : ~ToCome(kind, h)'
  BY <1>2, <1>3 DEF ToCome, InHand, OnWire, AtBoard, LogKinds, LogKind
<1>7. Lossless'
  BY <1>1, <1>3, <1>5, <1>6 DEF Lossless, LogKind
<1> QED BY <1>4, <1>7

(* A step of which the log on its way sees nothing.                          *)
Undisturbed ==
    /\ Current' => Current
    /\ board' = board /\ wire' = wire
    /\ svc'.seen = svc.seen /\ round'.dones = round.dones
    /\ spent'["frame"] = 0 => spent["frame"] = 0
    /\ \/ rx' = rx
       \/ /\ rx.pc \notin {"check", "done"} /\ rx'.pc \notin {"check", "done", "loss"}
          /\ rx'.pc \in {"snapshot", "act"} => rx.pc \in {"snapshot", "act"} /\ rx'.frame = rx.frame

LEMMA UndisturbedFlows == ASSUME Flows, Undisturbed PROVE Flows'
<1> SUFFICES ASSUME Current'
             PROVE  LogOrder' /\ (spent'["frame"] = 0 => Lossless')
  BY DEF Flows
<1>1. LogOrder /\ (spent'["frame"] = 0 => Lossless)
  BY DEF Undisturbed, Flows
<1>2. board' = board /\ wire' = wire /\ svc'.seen = svc.seen /\ round'.dones = round.dones
  BY DEF Undisturbed
<1>3. CASE rx' = rx
  BY <1>1, <1>2, <1>3 DEF LogOrder, WireSorted, BoardSorted, WireFirst, HandFirst, NotDumped,
     Lossless, Conclusive, Waiting, ToCome, InHand, OnWire, AtBoard
<1>4. CASE rx' # rx
  <2>1. /\ rx.pc \notin {"check", "done"} /\ rx'.pc \notin {"check", "done", "loss"}
        /\ rx'.pc \in {"snapshot", "act"} => rx.pc \in {"snapshot", "act"} /\ rx'.frame = rx.frame
    BY <1>4 DEF Undisturbed
  <2>2. LogOrder'
    BY <1>1, <1>2, <2>1 DEF LogOrder, WireSorted, BoardSorted, WireFirst, HandFirst, NotDumped
  <2>3. \A h \in Harts, kind \in LogKind : ToCome(kind, h)' <=> ToCome(kind, h)
    BY <1>2, <2>1 DEF ToCome, InHand, OnWire, AtBoard
  <2>4. Conclusive' => Conclusive
    BY <1>2, <2>1 DEF Conclusive, Waiting
  <2>5. spent'["frame"] = 0 => Lossless'
    BY <1>1, <1>2, <2>1, <2>3, <2>4 DEF Lossless, LogKind
  <2> QED BY <2>2, <2>5
<1> QED BY <1>3, <1>4

(* The board says what is no frame of the log.                               *)
LEMMA StatusFlows ==
    ASSUME HostInv, Flows, NEW f \in Frames, f.kind \notin LogKind, wire' = Append(wire, f),
           board'.out = board.out, board'.at # "EXEC",
           board'.at = "DUMP" \/ f.kind = "EXE_END" => board.at = "DUMP",
           UNCHANGED <<auto, svc, round, rx, spent>>
    PROVE  Flows'
<1> SUFFICES ASSUME Current  PROVE LogOrder' /\ (spent["frame"] = 0 => Lossless')
  BY DEF Flows, Current
<1>1. LogOrder /\ (spent["frame"] = 0 => Lossless)
  BY DEF Flows
<1>2. /\ \A i \in DOMAIN wire : i \in DOMAIN wire' /\ wire'[i] = wire[i]
      /\ \A i \in DOMAIN wire' : i \in DOMAIN wire \/ wire'[i] = f
      /\ \A i, j \in DOMAIN wire' : i < j => i \in DOMAIN wire
  BY WireSent DEF HostInv, HostTypes
<1>3. \A i \in DOMAIN wire' : wire'[i].kind \in LogKind => i \in DOMAIN wire /\ wire'[i] = wire[i]
  BY <1>2
<1>4. LogOrder'
  BY <1>1, <1>3 DEF LogOrder, WireSorted, BoardSorted, WireFirst, HandFirst, NotDumped
<1>5. \A h \in Harts, kind \in LogKind : ToCome(kind, h)' <=> ToCome(kind, h)
  BY <1>2, <1>3 DEF ToCome, InHand, OnWire, AtBoard
<1>6. Conclusive' => Conclusive
  BY <1>2 DEF Conclusive, Waiting
<1>7. Lossless => Lossless'
  BY <1>5, <1>6 DEF Lossless, LogKind
<1> QED BY <1>1, <1>4, <1>7

(* A frame of the log goes from the board to the wire.                       *)
LEMMA DumpsFlows == ASSUME HostInv, Flows, spent' = spent, BoardRests, BoardDumps PROVE Flows'
<1> SUFFICES ASSUME Current  PROVE LogOrder' /\ (spent["frame"] = 0 => Lossless')
  BY DEF Flows, Current, BoardRests
<1>1. LogOrder /\ (spent["frame"] = 0 => Lossless)
  BY DEF Flows
<1>2. UNCHANGED <<auto, svc, round, rx>>
  BY DEF BoardRests, sendVars, threadVars
<1>3. /\ board'.at = board.at
      /\ \A i \in DOMAIN board'.out : i + 1 \in DOMAIN board.out /\ board'.out[i] = board.out[i + 1]
      /\ \A i \in DOMAIN board.out : i = 1 \/ (i - 1 \in DOMAIN board'.out /\ i = (i - 1) + 1)
      /\ \A i \in DOMAIN board'.out : i \in Nat /\ 1 <= i
      /\ 1 \in DOMAIN board.out /\ Head(board.out) = board.out[1]
      /\ Head(board.out) \in Frames /\ Head(board.out).kind \in LogKind
  <2>1. board \in Boards /\ board.out # <<>> /\ board.out \in Seq(LogFrames)
    BY DEF HostInv, HostTypes, BoardDumps, Boards
  <2>2. board'.at = board.at /\ board'.out = Tail(board.out)
    BY <2>1 DEF BoardDumps, Boards
  <2>3. Head(board.out) \in LogFrames
    BY <2>1, DumpTaken
  <2> QED
    BY <2>1, <2>2, <2>3, FramesTyped DEF LogFrames
<1>4. /\ \A i \in DOMAIN wire : i \in DOMAIN wire' /\ wire'[i] = wire[i]
      /\ \A i \in DOMAIN wire' : i \in DOMAIN wire \/ wire'[i] = Head(board.out)
      /\ \A i, j \in DOMAIN wire' : i < j => i \in DOMAIN wire
      /\ \E i \in DOMAIN wire' : wire'[i] = Head(board.out)
  <2>1. wire \in Seq(Frames) /\ wire' = Append(wire, Head(board.out))
    BY DEF HostInv, HostTypes, BoardDumps, Emits
  <2> QED
    BY <1>3, <2>1, WireSent
<1>5. board.at = "DUMP"
  BY DEF BoardDumps
<1>6. WireSorted' /\ WireFirst'
  <2>1. \A i \in DOMAIN wire : wire[i].kind \in LogKind => Ahead(wire[i], Head(board.out))
    BY <1>1, <1>3 DEF LogOrder, WireFirst
  <2>2. WireSorted'
    BY <1>1, <1>4, <2>1 DEF LogOrder, WireSorted
  <2>3. \A j \in DOMAIN board'.out : Ahead(Head(board.out), board'.out[j])
    BY <1>1, <1>3 DEF LogOrder, BoardSorted
  <2>4. \A i \in DOMAIN wire, j \in DOMAIN board'.out :
           wire[i].kind \in LogKind => Ahead(wire[i], board'.out[j])
    BY <1>1, <1>3 DEF LogOrder, WireFirst
  <2>5. WireFirst'
    BY <1>4, <2>3, <2>4 DEF WireFirst
  <2> QED BY <2>2, <2>5
<1>7. BoardSorted'
  BY <1>1, <1>3 DEF LogOrder, BoardSorted
<1>8. HandFirst'
  BY <1>1, <1>2, <1>3, <1>4 DEF LogOrder, HandFirst
<1>9. NotDumped'
  BY <1>3, <1>5 DEF NotDumped
<1>10. \A h \in Harts, kind \in LogKind : ToCome(kind, h)' <=> ToCome(kind, h)
  <2> SUFFICES ASSUME NEW h \in Harts, NEW kind \in LogKind
               PROVE  ToCome(kind, h)' <=> ToCome(kind, h)
    OBVIOUS
  <2>1. AtBoard(kind, h) => AtBoard(kind, h)' \/ OnWire(kind, h)'
    BY <1>3, <1>4 DEF AtBoard, OnWire
  <2>2. AtBoard(kind, h)' => AtBoard(kind, h)
    BY <1>3 DEF AtBoard
  <2>3. OnWire(kind, h) => OnWire(kind, h)'
    BY <1>4 DEF OnWire
  <2>4. OnWire(kind, h)' => OnWire(kind, h) \/ AtBoard(kind, h)
    BY <1>3, <1>4 DEF AtBoard, OnWire
  <2> QED
    BY <1>2, <2>1, <2>2, <2>3, <2>4 DEF ToCome, InHand
<1>11. Lossless => Lossless'
  BY <1>2, <1>5, <1>10 DEF Lossless, LogKind, Conclusive
<1> QED
  BY <1>1, <1>6, <1>7, <1>8, <1>9, <1>11 DEF LogOrder

(* The dump has each hart's two frames, in their order.                      *)
LEMMA DumpSorted ==
    ASSUME NEW r \in Nat
    PROVE  /\ \A i, j \in DOMAIN Dump(r) : i < j => Ahead(Dump(r)[i], Dump(r)[j])
           /\ \A h \in Harts, kind \in LogKind :
                 \E i \in DOMAIN Dump(r) : Dump(r)[i].kind = kind /\ Dump(r)[i].hart = h
<1> DEFINE c == Cardinality(Harts)
           s == SetToSeq(Harts)
<1>1. c \in Nat /\ s \in [1..c -> Harts] /\ ExistsBijection(1..c, Harts)
  BY HartsListed, FS_CardinalityType, HostAssumption
<1>2. IsInjective(s)
  <2>1. \E f \in [1..c -> Harts] : IsInjective(f)
    BY <1>1 DEF ExistsBijection, Bijection, Injection, IsInjective
  <2> QED BY <2>1 DEF SetToSeq
<1>3. \A h \in Harts : \E k \in 1..c : s[k] = h
  <2>1. s \in Injection(1..c, Harts)
    BY <1>1, <1>2 DEF Injection, IsInjective
  <2>2. Cardinality(1..c) = c
    BY <1>1, FS_Interval
  <2>3. s \in Surjection(1..c, Harts)
    BY <2>1, <2>2, FS_Injection, HostAssumption
  <2> QED BY <2>3 DEF Surjection
<1>4. DOMAIN Dump(r) = 1 .. 2 * c
  BY DEF Dump
<1>5. \A i \in 1 .. 2 * c :
         /\ (i + 1) \div 2 \in 1..c
         /\ Dump(r)[i].kind = IF i % 2 = 1 THEN "DATA" ELSE "HART_DONE"
         /\ Dump(r)[i].hart = s[(i + 1) \div 2]
  BY <1>1 DEF Dump, Frame
<1> HIDE DEF s, c
<1>6. ASSUME NEW i \in 1 .. 2 * c, NEW j \in 1 .. 2 * c, i < j
      PROVE  Ahead(Dump(r)[i], Dump(r)[j])
  <2>1. CASE (i + 1) \div 2 = (j + 1) \div 2
    <3>1. i % 2 = 1 /\ j % 2 = 0
      BY <1>1, <1>6, <2>1
    <3> QED BY <1>5, <3>1 DEF Ahead
  <2>2. CASE (i + 1) \div 2 # (j + 1) \div 2
    <3>1. s[(i + 1) \div 2] # s[(j + 1) \div 2]
      BY <1>1, <1>2, <1>5, <2>2 DEF IsInjective
    <3> QED BY <1>5, <3>1 DEF Ahead
  <2> QED BY <2>1, <2>2
<1>7. ASSUME NEW h \in Harts, NEW kind \in LogKind
      PROVE  \E i \in 1 .. 2 * c : Dump(r)[i].kind = kind /\ Dump(r)[i].hart = h
  <2>1. PICK k \in 1..c : s[k] = h
    BY <1>3
  <2>2. /\ 2 * k - 1 \in 1 .. 2 * c /\ (2 * k - 1) % 2 = 1 /\ ((2 * k - 1) + 1) \div 2 = k
        /\ 2 * k \in 1 .. 2 * c /\ (2 * k) % 2 = 0 /\ (2 * k + 1) \div 2 = k
    BY <1>1
  <2>3. CASE kind = "DATA"
    BY <1>5, <2>1, <2>2, <2>3
  <2>4. CASE kind = "HART_DONE"
    BY <1>5, <2>1, <2>2, <2>4
  <2> QED BY <2>3, <2>4 DEF LogKind
<1> QED BY <1>4, <1>6, <1>7

(* The program has run: the board gets its log ready.                        *)
LEMMA RunsFlows == ASSUME HostInv, Flows, spent' = spent, BoardRests, BoardRuns PROVE Flows'
<1> SUFFICES ASSUME Current  PROVE LogOrder' /\ (spent["frame"] = 0 => Lossless')
  BY DEF Flows, Current, BoardRests
<1>1. LogOrder /\ (spent["frame"] = 0 => Lossless)
  BY DEF Flows
<1>2. UNCHANGED <<auto, svc, round, rx>>
  BY DEF BoardRests, sendVars, threadVars
<1>3. board.at = "EXEC" /\ board.of \in Nat /\ board'.at = "DUMP" /\ board'.out = Dump(board.of)
  BY DEF BoardRuns, HostInv, HostTypes, Boards
<1>4. svc.seen = {} /\ rx.pc # "check" /\ \A i \in DOMAIN wire : wire[i].kind \notin LogKind
  BY <1>1, <1>3 DEF LogOrder, NotDumped
<1>5. \A i \in DOMAIN wire' : wire'[i].kind \notin LogKind
  <2>1. wire \in Seq(Frames) /\ wire' = Append(wire, Status("DONE")) /\ Status("DONE") \in Frames
    BY FramesTyped DEF HostInv, HostTypes, BoardRuns, Emits, FrameKinds, AnyKind, StatusKind
  <2>2. Status("DONE").kind \notin LogKind
    BY DEF Status, Frame, LogKind
  <2> QED BY <1>4, <2>1, <2>2, WireSent
<1>6. LogOrder'
  BY <1>2, <1>3, <1>4, <1>5, DumpSorted DEF LogOrder, WireSorted, BoardSorted, WireFirst,
     HandFirst, NotDumped
<1>7. \A h \in Harts, kind \in LogKind : ToCome(kind, h)'
  BY <1>3, DumpSorted DEF ToCome, AtBoard
<1>8. Lossless => Lossless'
  BY <1>2, <1>4, <1>7 DEF Lossless, LogKind
<1> QED BY <1>1, <1>6, <1>8

(* A frame of the log is lost, or the board fails and sends no more of it.   *)
LEMMA LogFrameLostFlows == ASSUME HostInv, Flows, LogFrameLost PROVE Flows'
<1> SUFFICES ASSUME Current  PROVE LogOrder' /\ (spent'["frame"] = 0 => Lossless')
  BY DEF Flows, Current, LogFrameLost, BoardRests
<1>1. LogOrder
  BY DEF Flows
<1>2. UNCHANGED <<wire, svc, rx>>
  BY DEF LogFrameLost, BoardRests, sendVars, threadVars
<1>3. /\ board'.at = board.at
      /\ \A i \in DOMAIN board'.out : i + 1 \in DOMAIN board.out /\ board'.out[i] = board.out[i + 1]
      /\ \A i \in DOMAIN board'.out : i \in Nat
  <2>1. board \in Boards /\ board.out \in Seq(LogFrames) /\ board.out # <<>>
    BY DEF HostInv, HostTypes, LogFrameLost, Boards
  <2>2. board'.at = board.at /\ board'.out = Tail(board.out)
    BY <2>1 DEF LogFrameLost, Boards
  <2> QED BY <2>1, <2>2
<1>4. LogOrder'
  BY <1>1, <1>2, <1>3 DEF LogOrder, WireSorted, BoardSorted, WireFirst, HandFirst, NotDumped
<1>5. spent'["frame"] > 0
  BY DEF LogFrameLost, Spend, HostInv, HostTypes, Budgets
<1> QED BY <1>4, <1>5

LEMMA BoardFailsFlows == ASSUME HostInv, Flows, BoardFails PROVE Flows'
<1> SUFFICES ASSUME Current  PROVE LogOrder' /\ (spent'["frame"] = 0 => Lossless')
  BY DEF Flows, Current, BoardFails, BoardRests
<1>1. spent'["frame"] = spent["frame"]
  BY DEF BoardFails, Spend, HostInv, HostTypes, Budgets
<1>2. LogOrder /\ (spent["frame"] = 0 => Lossless)
  BY DEF Flows
<1>3. UNCHANGED <<svc, rx, round>>
  BY DEF BoardFails, BoardRests, sendVars, threadVars
<1>4. board'.at = "ERROR" /\ board'.out = <<>>
  BY DEF BoardFails
<1>5. /\ \A i \in DOMAIN wire : i \in DOMAIN wire' /\ wire'[i] = wire[i]
      /\ \A i \in DOMAIN wire' : i \in DOMAIN wire \/ wire'[i] = Status("ERROR")
  <2>1. wire \in Seq(Frames) /\ wire' = Append(wire, Status("ERROR")) /\ Status("ERROR") \in Frames
    BY FramesTyped DEF HostInv, HostTypes, BoardFails, Emits, FrameKinds, AnyKind, StatusKind
  <2> QED BY <2>1, WireSent
<1>6. \A i \in DOMAIN wire' : wire'[i].kind # "ERROR" => i \in DOMAIN wire /\ wire'[i] = wire[i]
  BY <1>5 DEF Status, Frame
<1>7. LogOrder'
  BY <1>2, <1>3, <1>4, <1>6 DEF LogOrder, WireSorted, BoardSorted, WireFirst, HandFirst, NotDumped,
     LogKind
<1>8. ASSUME Lossless  PROVE Lossless'
  <2>1. \A h \in Harts, kind \in LogKind : ToCome(kind, h)' <=> InHand(kind, h) \/ OnWire(kind, h)
    BY <1>3, <1>4, <1>5, <1>6 DEF ToCome, InHand, OnWire, AtBoard, LogKind
  <2>2. \A h \in Harts : InHand("HART_DONE", h) \/ OnWire("HART_DONE", h) => ~AtBoard("DATA", h)
    BY <1>2 DEF LogOrder, WireFirst, HandFirst, InHand, OnWire, AtBoard, Ahead, LogKind
  <2>3. \A h \in Harts : ToCome("HART_DONE", h)' => h \in svc.seen \/ ToCome("DATA", h)'
    BY <1>8, <2>1, <2>2 DEF Lossless, ToCome, LogKind
  <2>4. \A h \in Harts : ToCome("DATA", h)' => h \notin svc.seen
    BY <1>8, <2>1 DEF Lossless, ToCome, LogKind
  <2>5. Conclusive' => Conclusive /\ board.out = <<>>
    <3> SUFFICES ASSUME Conclusive'  PROVE Conclusive /\ board.out = <<>>
      OBVIOUS
    <3>1. Waiting({"EXE_END"}) \/ (rx.frame.kind = "EXE_END" /\ rx.pc \in {"snapshot", "act"})
      BY <1>3, <1>4, <1>6 DEF Conclusive, Waiting
    <3>2. board.at # "DUMP" /\ (board.out # <<>> => board.at = "DUMP")
      BY <3>1 DEF HostInv, Epoch, OwnLog, Current
    <3> QED BY <3>1, <3>2 DEF Conclusive
  <2>6. board.out = <<>> => \A h \in Harts : ToCome("HART_DONE", h)' <=> ToCome("HART_DONE", h)
    BY <2>1 DEF ToCome, AtBoard, LogKind
  <2> QED
    BY <1>3, <1>8, <2>3, <2>4, <2>5, <2>6 DEF Lossless
<1> QED BY <1>1, <1>2, <1>7, <1>8

(* The program has gone out whole; before the grant there is no log.         *)
LEMMA BulkEndsFlows == ASSUME HostInv, HostInv', Flows, BulkEnds PROVE Flows'
<1> SUFFICES ASSUME Current, auto.round # 0
             PROVE  LogOrder' /\ (spent["frame"] = 0 => Lossless')
  BY NoRoundNoLog DEF Flows, Current, BulkEnds
<1>1. UNCHANGED <<wire, svc, rx, round, auto, spent>>
  BY DEF BulkEnds, threadVars
<1>2. tx.by = "PROGRAM"
  BY DEF BulkEnds, HostInv, HostTypes, Transfers, Enabled, Checking, Current
<1>3. /\ board.at \in {"WRITE", "ERROR"} /\ board.out = <<>> /\ OnlyErrors /\ svc.seen = {}
      /\ rx.frame.kind \in {"NONE", "GRANT", "ERROR"}
  BY <1>2 DEF HostInv, Epoch, AtGrant, Current
<1>4. board'.at \in {"EXEC", "WRITE", "ERROR"} /\ board'.out = <<>>
  BY <1>2, <1>3 DEF BulkEnds, HostInv, HostTypes, Boards
<1>5. rx.pc \notin {"check", "done", "loss"} /\ \A i \in DOMAIN wire : wire[i].kind \notin LogKinds
  BY <1>3 DEF HostInv, RxKinds, LogKind, LogKinds, OnlyErrors
<1>6. LogOrder'
  BY <1>1, <1>3, <1>4, <1>5 DEF LogOrder, WireSorted, BoardSorted, WireFirst, HandFirst, NotDumped,
     LogKinds
<1>7. \A h \in Harts, kind \in LogKind : ~ToCome(kind, h)'
  BY <1>1, <1>4, <1>5 DEF ToCome, InHand, OnWire, AtBoard, LogKinds
<1>8. ~Conclusive'
  BY <1>1, <1>3, <1>4, <1>5 DEF Conclusive, Waiting, LogKinds
<1>9. Lossless => Lossless'
  BY <1>1, <1>5, <1>7, <1>8 DEF Lossless, LogKind
<1> QED BY <1>6, <1>9 DEF Flows

(* The service takes a status frame; behind a grant there is no log.         *)
LEMMA ServiceFlows == ASSUME HostInv, Flows, RxService PROVE Flows'
<1> SUFFICES ASSUME Current  PROVE LogOrder' /\ (spent["frame"] = 0 => Lossless')
  BY DEF Flows, Current, RxService
<1>1. LogOrder /\ (spent["frame"] = 0 => Lossless)
  BY DEF Flows
<1>2. UNCHANGED <<board, auto, round>>
  BY DEF RxService
<1>3. /\ \A i \in DOMAIN wire' : i + 1 \in DOMAIN wire /\ wire'[i] = wire[i + 1]
      /\ \A i \in DOMAIN wire' : i \in Nat /\ 1 <= i
      /\ \A i \in DOMAIN wire : i = 1 \/ (i - 1 \in DOMAIN wire' /\ i = (i - 1) + 1)
      /\ 1 \in DOMAIN wire /\ wire[1].kind \in StatusKind
      /\ rx'.frame = wire[1] /\ rx'.pc = "snapshot" /\ rx.pc = "idle"
  <2>1. wire \in Seq(Frames) /\ wire # <<>> /\ wire' = Tail(wire)
        /\ Head(wire).kind \in StatusKind /\ rx' = [frame |-> Head(wire), pc |-> "snapshot"]
        /\ rx.pc = "idle"
    BY DEF HostInv, HostTypes, RxService, Takes
  <2> QED BY <2>1
<1>4. svc'.seen = IF wire[1].kind = "GRANT" THEN {} ELSE svc.seen
  BY <1>3 DEF RxService, Takes, HostInv, HostTypes
<1>5. wire[1].kind \notin LogKind
  BY <1>3 DEF StatusKind, LogKind
<1>6. LogOrder'
  <2>1. WireSorted' /\ BoardSorted' /\ WireFirst' /\ HandFirst'
    BY <1>1, <1>2, <1>3 DEF LogOrder, WireSorted, BoardSorted, WireFirst, HandFirst
  <2>2. NotDumped'
    BY <1>1, <1>2, <1>3, <1>4 DEF LogOrder, NotDumped
  <2> QED BY <2>1, <2>2 DEF LogOrder
<1>7. \A h \in Harts, kind \in LogKind : ToCome(kind, h)' <=> ToCome(kind, h)
  <2> SUFFICES ASSUME NEW h \in Harts, NEW kind \in LogKind
               PROVE  ToCome(kind, h)' <=> ToCome(kind, h)
    OBVIOUS
  <2>1. OnWire(kind, h)' <=> OnWire(kind, h)
    BY <1>3, <1>5 DEF OnWire
  <2> QED BY <1>2, <1>3, <2>1 DEF ToCome, InHand, AtBoard
<1>8. Conclusive' => Conclusive
  BY <1>2, <1>3 DEF Conclusive, Waiting
<1>9. wire[1].kind = "GRANT" => \A h \in Harts, kind \in LogKind : ~ToCome(kind, h)
  <2> SUFFICES ASSUME wire[1].kind = "GRANT"
               PROVE  \A h \in Harts, kind \in LogKind : ~ToCome(kind, h)
    OBVIOUS
  <2>1. \A j \in DOMAIN wire : wire[j].kind \notin LogKind
    <3>1. \A j \in DOMAIN wire : 1 < j => wire[j].kind \in {"PREINIT", "ERROR"}
      BY <1>3 DEF HostInv, Epoch, WireOrder, LastBut, Current
    <3>2. \A j \in DOMAIN wire : j = 1 \/ 1 < j
      BY <1>3
    <3> QED BY <1>5, <3>1, <3>2 DEF LogKind
  <2>2. board.out = <<>>
    <3>1. board.at \in {"WRITE", "ERROR"}
      BY <1>3 DEF HostInv, Epoch, AtGrant, Current, Waiting
    <3> QED BY <3>1 DEF HostInv, Epoch, OwnLog, Current
  <2> QED BY <1>3, <2>1, <2>2 DEF ToCome, InHand, OnWire, AtBoard
<1>10. Lossless => Lossless'
  <2> SUFFICES ASSUME Lossless  PROVE Lossless'
    OBVIOUS
  <2>1. \A h \in Harts : ToCome("DATA", h)' => h \notin svc'.seen
    BY <1>4, <1>7 DEF Lossless, LogKind
  <2>2. \A h \in Harts : ToCome("HART_DONE", h)' => h \in svc'.seen \/ ToCome("DATA", h)'
    BY <1>4, <1>7, <1>9 DEF Lossless, LogKind
  <2>3. Conclusive' => \A h \in Harts : h \in round.dones \/ ToCome("HART_DONE", h)'
    BY <1>3, <1>7, <1>8 DEF Lossless, LogKind
  <2> QED BY <1>2, <1>3, <2>1, <2>2, <2>3 DEF Lossless
<1> QED BY <1>1, <1>6, <1>10

(* A frame of the log is taken from the wire.                                *)
LEMMA CapturesFlows == ASSUME HostInv, Flows, RxCaptures PROVE Flows'
<1> SUFFICES ASSUME Current  PROVE LogOrder' /\ (spent["frame"] = 0 => Lossless')
  BY DEF Flows, Current, RxCaptures
<1>1. LogOrder /\ (spent["frame"] = 0 => Lossless)
  BY DEF Flows
<1>2. UNCHANGED <<board, auto, svc>> /\ round'.dones = round.dones
  BY DEF RxCaptures, sendVars, HostInv, HostTypes, Rounds
<1>3. /\ \A i \in DOMAIN wire' : i + 1 \in DOMAIN wire /\ wire'[i] = wire[i + 1]
      /\ \A i \in DOMAIN wire' : i \in Nat /\ 1 <= i
      /\ \A i \in DOMAIN wire : i = 1 \/ (i - 1 \in DOMAIN wire' /\ i = (i - 1) + 1)
      /\ 1 \in DOMAIN wire /\ wire[1].kind \in LogKind
      /\ rx'.frame = wire[1] /\ rx'.pc = "check" /\ rx.pc = "idle"
  <2>1. wire \in Seq(Frames) /\ wire # <<>> /\ wire' = Tail(wire)
        /\ Head(wire).kind \in LogKind /\ rx' = [frame |-> Head(wire), pc |-> "check"]
        /\ rx.pc = "idle"
    BY DEF HostInv, HostTypes, RxCaptures, Takes
  <2> QED BY <2>1
<1>4. LogOrder'
  <2>1. WireSorted' /\ BoardSorted' /\ WireFirst'
    BY <1>1, <1>2, <1>3 DEF LogOrder, WireSorted, BoardSorted, WireFirst
  <2>2. HandFirst'
    BY <1>1, <1>2, <1>3 DEF LogOrder, WireSorted, WireFirst, HandFirst
  <2>3. NotDumped'
    BY <1>1, <1>2, <1>3 DEF LogOrder, NotDumped
  <2> QED BY <2>1, <2>2, <2>3 DEF LogOrder
<1>5. \A h \in Harts, kind \in LogKind : ToCome(kind, h)' <=> ToCome(kind, h)
  <2> SUFFICES ASSUME NEW h \in Harts, NEW kind \in LogKind
               PROVE  ToCome(kind, h)' <=> ToCome(kind, h)
    OBVIOUS
  <2>1. OnWire(kind, h) <=> InHand(kind, h)' \/ OnWire(kind, h)'
    BY <1>3 DEF OnWire, InHand
  <2> QED BY <1>2, <1>3, <2>1 DEF ToCome, InHand, AtBoard
<1>6. Conclusive' => Conclusive
  BY <1>2, <1>3 DEF Conclusive, Waiting, LogKind
<1>7. Lossless => Lossless'
  BY <1>2, <1>3, <1>5, <1>6 DEF Lossless, LogKind
<1> QED BY <1>1, <1>4, <1>7

(* The frame's number is looked at: the next one, if none was lost.          *)
LEMMA ChecksFlows == ASSUME HostInv, Flows, RxChecks PROVE Flows'
<1> SUFFICES ASSUME Current  PROVE LogOrder' /\ (spent["frame"] = 0 => Lossless')
  BY DEF Flows, Current, RxChecks, envVars
<1>1. LogOrder /\ (spent["frame"] = 0 => Lossless)
  BY DEF Flows
<1>2. UNCHANGED <<board, wire, auto, round>>
  BY DEF RxChecks, envVars
<1> DEFINE f == rx.frame
<1>3. /\ rx.pc = "check" /\ f.kind \in LogKind
      /\ LogAbout /\ f \in LogOf(auto.round)
  <2>1. rx.pc = "check" /\ f.kind \in LogKind
    BY DEF RxChecks, RxAt, HostInv, RxKinds
  <2> QED
    BY <2>1 DEF LogAbout, LogKinds, HostInv, Epoch, OwnLog, Current, LogKind
<1>4. f.hart \in Harts
  BY <1>3 DEF LogOf, Frame
<1>5. svc'.seen = IF f.kind = "DATA" THEN svc.seen \cup {f.hart} ELSE svc.seen
  BY DEF RxChecks, HostInv, HostTypes, Services
<1>6. /\ rx'.pc = IF ~Continuous THEN "loss" ELSE IF f.kind = "DATA" THEN "idle" ELSE "done"
      /\ rx'.pc # "idle" => rx'.frame = f
  BY DEF RxChecks, RxGoes, Resting, HostInv, HostTypes, Receptions
<1>7. board.at # "EXEC"
  BY <1>1, <1>3 DEF LogOrder, NotDumped
<1>8. LogOrder'
  BY <1>1, <1>2, <1>6, <1>7 DEF LogOrder, WireSorted, BoardSorted, WireFirst, HandFirst, NotDumped
<1>9. \A h \in Harts, kind \in LogKind : ToCome(kind, h) <=> ToCome(kind, h)' \/ InHand(kind, h)
  BY <1>2, <1>6 DEF ToCome, InHand, OnWire, AtBoard
<1>10. \A h \in Harts : InHand("HART_DONE", h) => ~ToCome("DATA", h)
  BY <1>1 DEF LogOrder, HandFirst, ToCome, InHand, OnWire, AtBoard, Ahead, LogKind
<1>11. \A h \in Harts : InHand("DATA", h) => ~ToCome("DATA", h)'
  BY <1>1, <1>2, <1>6 DEF LogOrder, HandFirst, ToCome, InHand, OnWire, AtBoard, Ahead, LogKind
<1>12. ASSUME Lossless  PROVE Lossless'
  <2>1. InHand(f.kind, f.hart)
    BY <1>3 DEF InHand
  <2>2. Continuous
    <3>1. CASE f.kind = "DATA"
      BY <1>4, <1>12, <2>1, <3>1 DEF Lossless, ToCome, Continuous
    <3>2. CASE f.kind = "HART_DONE"
      BY <1>4, <1>10, <1>12, <2>1, <3>2 DEF Lossless, ToCome, Continuous
    <3> QED BY <1>3, <3>1, <3>2 DEF LogKind
  <2>3. rx'.pc # "loss"
    BY <1>6, <2>2
  <2>4. \A h \in Harts : ToCome("DATA", h)' => h \notin svc'.seen
    <3> SUFFICES ASSUME NEW h \in Harts, ToCome("DATA", h)'  PROVE h \notin svc'.seen
      OBVIOUS
    <3>1. h \notin svc.seen
      BY <1>9, <1>12 DEF Lossless, LogKind
    <3>2. ~(f.kind = "DATA" /\ h = f.hart)
      BY <1>11, <2>1
    <3> QED BY <1>5, <3>1, <3>2
  <2>5. \A h \in Harts : ToCome("HART_DONE", h)' => h \in svc'.seen \/ ToCome("DATA", h)'
    <3> SUFFICES ASSUME NEW h \in Harts, ToCome("HART_DONE", h)'
                 PROVE  h \in svc'.seen \/ ToCome("DATA", h)'
      OBVIOUS
    <3>1. h \in svc.seen \/ ToCome("DATA", h)
      BY <1>9, <1>12 DEF Lossless, LogKind
    <3>2. ToCome("DATA", h) => ToCome("DATA", h)' \/ InHand("DATA", h)
      BY <1>9 DEF LogKind
    <3>3. InHand("DATA", h) => h \in svc'.seen
      BY <1>5 DEF InHand
    <3> QED BY <1>5, <3>1, <3>2, <3>3
  <2>6. Conclusive' => \A h \in Harts : \/ h \in round.dones \/ ToCome("HART_DONE", h)'
                                        \/ rx'.pc = "done" /\ rx'.frame.hart = h
    <3> SUFFICES ASSUME Conclusive', NEW h \in Harts
                 PROVE  \/ h \in round.dones \/ ToCome("HART_DONE", h)'
                        \/ rx'.pc = "done" /\ rx'.frame.hart = h
      OBVIOUS
    <3>1. Conclusive
      BY <1>2, <1>6 DEF Conclusive, Waiting
    <3>2. h \in round.dones \/ ToCome("HART_DONE", h)
      BY <1>3, <1>12, <3>1 DEF Lossless
    <3>3. InHand("HART_DONE", h) => rx'.pc = "done" /\ rx'.frame.hart = h
      BY <1>6, <2>2 DEF InHand
    <3> QED BY <1>9, <3>2, <3>3 DEF LogKind
  <2> QED BY <1>2, <1>12, <2>3, <2>4, <2>5, <2>6 DEF Lossless
<1> QED BY <1>1, <1>8, <1>12

(* A hart's completion is noted.                                             *)
LEMMA HartDoneFlows == ASSUME HostInv, Flows, RxHartDone PROVE Flows'
<1> SUFFICES ASSUME Current  PROVE LogOrder' /\ (spent["frame"] = 0 => Lossless')
  BY DEF Flows, Current, RxHartDone, envVars
<1>1. LogOrder /\ (spent["frame"] = 0 => Lossless)
  BY DEF Flows
<1>2. UNCHANGED <<board, wire, auto, svc>>
  BY DEF RxHartDone, envVars, sendVars
<1>3. rx.pc = "done" /\ rx'.pc = "compare"
  BY DEF RxHartDone, RxAt, RxGoes, HostInv, HostTypes, Receptions
<1>4. auto.round # 0 /\ rx.frame.hart \in Harts
  <2>1. rx.frame.kind = "HART_DONE"
    BY <1>3 DEF HostInv, RxKinds
  <2>2. auto.round # 0 /\ rx.frame \in LogOf(auto.round)
    BY <1>3, <2>1 DEF HostInv, Epoch, OwnLog, LogAbout, LogKinds, LogKind, Current
  <2> QED BY <2>2 DEF LogOf, Frame
<1>5. round'.dones = round.dones \cup {rx.frame.hart}
  BY <1>4 DEF RxHartDone, HostInv, HostTypes, Rounds
<1>6. LogOrder'
  BY <1>1, <1>2, <1>3 DEF LogOrder, WireSorted, BoardSorted, WireFirst, HandFirst, NotDumped
<1>7. \A h \in Harts, kind \in LogKind : ToCome(kind, h)' <=> ToCome(kind, h)
  BY <1>2, <1>3 DEF ToCome, InHand, OnWire, AtBoard
<1>8. Conclusive' => Conclusive
  BY <1>2, <1>3 DEF Conclusive, Waiting
<1>9. Lossless => Lossless'
  BY <1>2, <1>3, <1>4, <1>5, <1>7, <1>8 DEF Lossless, LogKind
<1> QED BY <1>1, <1>6, <1>9

(* At the end of the log every hart's completion has been noted.             *)
LEMMA ExeEndFlows == ASSUME HostInv, Flows, RxExeEnd PROVE Flows'
<1> SUFFICES ASSUME Current  PROVE LogOrder' /\ (spent["frame"] = 0 => Lossless')
  BY DEF Flows, Current, RxExeEnd, envVars
<1>1. LogOrder /\ (spent["frame"] = 0 => Lossless)
  BY DEF Flows
<1>2. UNCHANGED <<board, wire, auto, svc>> /\ round'.dones = round.dones
  BY DEF RxExeEnd, envVars, sendVars, HostInv, HostTypes, Rounds
<1>3. /\ rx.pc = "act" /\ rx.frame.kind = "EXE_END" /\ rx'.pc \in {"loss", "compare"}
      /\ rx'.pc = "loss" => round.dones # Harts
  BY DEF RxExeEnd, RxAt, RxGoes, HostInv, HostTypes, Receptions
<1>4. LogOrder'
  BY <1>1, <1>2, <1>3 DEF LogOrder, WireSorted, BoardSorted, WireFirst, HandFirst, NotDumped
<1>5. \A h \in Harts, kind \in LogKind : ToCome(kind, h)' <=> ToCome(kind, h)
  BY <1>2, <1>3 DEF ToCome, InHand, OnWire, AtBoard
<1>6. \A h \in Harts, kind \in LogKind : ~ToCome(kind, h)
  <2>1. OnlyErrors /\ board.at \in {"END", "ERROR"} /\ board.out = <<>>
    BY <1>3 DEF HostInv, Epoch, OwnLog, Current
  <2> QED BY <1>3, <2>1 DEF ToCome, InHand, OnWire, AtBoard, OnlyErrors, LogKind
<1>7. ASSUME Lossless  PROVE Lossless'
  <2>1. Conclusive
    BY <1>3 DEF Conclusive
  <2>2. round.dones = Harts
    BY <1>3, <1>6, <1>7, <2>1 DEF Lossless, LogKind
  <2> QED BY <1>2, <1>3, <1>5, <1>6, <2>2 DEF Lossless, LogKind
<1> QED BY <1>1, <1>4, <1>7

-----------------------------------------------------------------------------
(* A step that spoils nothing: no job fails unless it is the VM's, nothing   *)
(* is removed but for a failed job, and what is missing was removed.         *)
Unspoiled ==
    /\ spent["vm"] > 0 => spent'["vm"] > 0
    /\ spent["frame"] > 0 => spent'["frame"] > 0
    /\ vm'.failed => vm.failed \/ spent'["vm"] > 0
    /\ poll'.status.failed => poll.status.failed \/ vm.failed
    /\ round'.status.failed => round.status.failed \/ poll.status.failed
    /\ removed' # {} => removed # {} \/ round.status.failed
    /\ skip'["rx"].pc = "save" => skip["rx"].pc = "save" \/ spent["frame"] > 0
    /\ ending' = "missing" => ending = "missing" \/ (skip["rx"].pc = "save" /\ removed # {})

LEMMA UnspoiledKeeps == ASSUME Spoiled, Unspoiled PROVE Spoiled'
  BY DEF Spoiled, Unspoiled

(* What is spent stays spent.                                                *)
LEMMA SpentGrows ==
    ASSUME HostTypes, NEW b \in Budgets, Spend(b)
    PROVE  /\ spent' \in [Budgets -> Nat] /\ spent'[b] > 0
           /\ \A c \in Budgets : spent[c] > 0 => spent'[c] > 0
           /\ \A c \in Budgets : c # b => spent'[c] = spent[c]
<1>1. spent \in [Budgets -> Nat] /\ spent' = [spent EXCEPT ![b] = spent[b] + 1]
  BY DEF HostTypes, Spend
<1> QED BY <1>1

(* The workers, the comparison and the watchdog send and end, no more.       *)
Serving ==
    \/ PreSends \/ PreSent \/ PreFails \/ PreEnds \/ Launches \/ SenderBegins \/ SenderFails
    \/ Compares \/ CompareFails \/ CompareResets \/ WatchdogWakes \/ WatchdogCalls
    \/ (\E t \in Threads : SkipResets(t)) \/ VmGoesOn

LEMMA ServingQuiet == ASSUME HostInv, Serving PROVE Undisturbed /\ Unspoiled
<1>1. HostTypes
  BY DEF HostInv
<1>2. UNCHANGED <<board, wire, removed, spent, round, rx, poll>>
  BY DEF Serving, PreSends, PreSent, PreFails, PreEnds, Launches, SenderBegins, SenderFails,
     Compares, CompareFails, CompareResets, WatchdogWakes, WatchdogCalls, SkipResets, VmGoesOn,
     envVars, sendVars, threadVars, history
<1>3. svc'.seen = svc.seen
  BY <1>1 DEF HostTypes, Services, Serving, PreSends, PreSent, PreFails, PreEnds, Launches,
     SenderBegins, SenderFails, Compares, CompareFails, CompareResets, WatchdogWakes,
     WatchdogCalls, SkipResets, VmGoesOn, SendBoardReset, sendVars
<1>4. Current' => Current
  BY <1>1 DEF HostTypes, Controllers, Serving, PreSends, PreSent, PreFails, PreEnds, Launches,
     SenderBegins, SenderFails, Compares, CompareFails, CompareResets, WatchdogWakes,
     WatchdogCalls, SkipResets, VmGoesOn, Fail, Ended, Current
<1>5. vm'.failed = vm.failed
  BY <1>1 DEF HostTypes, Jobs, Serving, PreSends, PreSent, PreFails, PreEnds, Launches,
     SenderBegins, SenderFails, Compares, CompareFails, CompareResets, WatchdogWakes,
     WatchdogCalls, SkipResets, VmGoesOn, envVars
<1>6. skip'["rx"].pc = "save" => skip["rx"].pc = "save"
  <2>1. CASE \E t \in Threads : SkipResets(t)
    <3>1. PICK t \in Threads : SkipResets(t)
      BY <2>1
    <3>2. SkipGoes(t, "idle") /\ skip \in [Threads -> Discards]
      BY <1>1, <3>1 DEF SkipResets, HostTypes
    <3> QED BY <3>2, SkipMoves DEF Threads
  <2>2. CASE Compares
    BY <1>1, <2>2 DEF Compares, HostTypes, Threads
  <2>3. CASE ~Compares /\ ~\E t \in Threads : SkipResets(t)
    BY <2>3 DEF Serving, PreSends, PreSent, PreFails, PreEnds, Launches, SenderBegins, SenderFails,
       CompareFails, CompareResets, WatchdogWakes, WatchdogCalls, VmGoesOn, threadVars
  <2> QED BY <2>1, <2>2, <2>3
<1>7. ending' \in {ending, "failed"}
  BY DEF Serving, PreSends, PreSent, PreFails, PreEnds, Launches, SenderBegins, SenderFails,
     Compares, CompareFails, CompareResets, WatchdogWakes, WatchdogCalls, SkipResets, VmGoesOn,
     Fail, Ended, history
<1>8. Undisturbed
  BY <1>2, <1>3, <1>4 DEF Undisturbed
<1>9. Unspoiled
  BY <1>2, <1>5, <1>6, <1>7 DEF Unspoiled
<1> QED BY <1>8, <1>9

(* What is spent on a fault, a reset or a failed job is no frame.            *)
Failing == \/ LaunchFails \/ ComparesFail \/ ResetLost \/ OperatorStops \/ VmFails
           \/ \E t \in Threads : SkipSaveFails(t)

LEMMA FailingQuiet == ASSUME HostInv, Failing PROVE Undisturbed /\ Unspoiled
<1>1. HostTypes
  BY DEF HostInv
<1>2. \E b \in Budgets \ {"frame"} : Spend(b) /\ (b = "vm" \/ vm' = vm)
  BY DEF Failing, LaunchFails, ComparesFail, ResetLost, ResetGoesOut, OperatorStops, VmFails,
     SkipSaveFails, Budgets
<1>3. /\ \A c \in Budgets : spent[c] > 0 => spent'[c] > 0
      /\ spent'["frame"] = spent["frame"]
      /\ vm' = vm \/ spent'["vm"] > 0
  <2>1. PICK b \in Budgets \ {"frame"} : Spend(b) /\ (b = "vm" \/ vm' = vm)
    BY <1>2
  <2> QED BY <1>1, <2>1, SpentGrows DEF Budgets
<1>4. UNCHANGED <<board, wire, removed, rx, poll>>
  BY DEF Failing, LaunchFails, ComparesFail, ResetLost, ResetGoesOut, OperatorStops, VmFails,
     SkipSaveFails, threadVars
<1>5. svc' = svc
  BY DEF Failing, LaunchFails, ComparesFail, ResetLost, ResetGoesOut, OperatorStops, VmFails,
     SkipSaveFails, sendVars
<1>6. Current' => Current
  BY <1>1 DEF HostTypes, Controllers, Failing, LaunchFails, ComparesFail, ResetLost, ResetGoesOut,
     OperatorStops, VmFails, SkipSaveFails, Fail, Ended, Current
<1>7. round'.dones = round.dones /\ round'.status = round.status
  BY <1>1 DEF HostTypes, Rounds, Failing, LaunchFails, ComparesFail, ResetLost, ResetGoesOut,
     OperatorStops, VmFails, SkipSaveFails
<1>8. skip'["rx"].pc = "save" => skip["rx"].pc = "save"
  <2>1. CASE \E t \in Threads : SkipSaveFails(t)
    <3>1. PICK t \in Threads : SkipSaveFails(t)
      BY <2>1
    <3>2. SkipGoes(t, "idle") /\ skip \in [Threads -> Discards]
      BY <1>1, <3>1 DEF SkipSaveFails, HostTypes
    <3> QED BY <3>2, SkipMoves DEF Threads
  <2>2. CASE ~\E t \in Threads : SkipSaveFails(t)
    BY <2>2 DEF Failing, LaunchFails, ComparesFail, ResetLost, ResetGoesOut, OperatorStops,
       VmFails, threadVars
  <2> QED BY <2>1, <2>2
<1>9. ending' \in {ending, "failed", "operator"}
  BY DEF Failing, LaunchFails, ComparesFail, ResetLost, ResetGoesOut, OperatorStops, VmFails,
     SkipSaveFails, Fail, Ended, history
<1>10. Undisturbed
  BY <1>3, <1>4, <1>5, <1>6, <1>7 DEF Undisturbed
<1>11. Unspoiled
  BY <1>3, <1>4, <1>7, <1>8, <1>9 DEF Unspoiled, Budgets
<1> QED BY <1>10, <1>11

(* The RX thread goes on with a frame that is not of the log.                *)
Receiving ==
    \/ RxSnapshot \/ RxPreinit \/ RxSchedulesPreconfig \/ RxGrant \/ RxSchedulesStart
    \/ RxMaybeSends \/ RxError \/ RxMaybeCompares \/ RxDiscarded \/ RxManual \/ RxStops \/ RxResets

LEMMA ReceivingQuiet == ASSUME HostInv, Receiving PROVE Undisturbed /\ Unspoiled
<1>1. HostTypes
  BY DEF HostInv
<1>2. UNCHANGED <<envVars, poll, skip>>
  BY DEF Receiving, RxSnapshot, RxPreinit, RxSchedulesPreconfig, RxGrant, RxSchedulesStart,
     RxMaybeSends, RxError, RxMaybeCompares, RxDiscarded, RxManual, RxStops, RxResets
<1>3. svc'.seen = svc.seen
  BY <1>1 DEF HostTypes, Services, Receiving, RxSnapshot, RxPreinit, RxSchedulesPreconfig, RxGrant,
     RxSchedulesStart, RxMaybeSends, RxError, RxMaybeCompares, RxDiscarded, RxManual, RxStops,
     RxResets, SendBoardReset, sendVars
<1>4. Current' => Current
  BY <1>1 DEF HostTypes, Controllers, Receiving, RxSnapshot, RxPreinit, RxSchedulesPreconfig,
     RxGrant, RxSchedulesStart, RxMaybeSends, RxError, RxMaybeCompares, RxDiscarded, RxManual,
     RxStops, RxResets, Latched, Fail, Ended, Current
<1>5. round'.dones = round.dones /\ round'.status = round.status
  BY <1>1 DEF HostTypes, Rounds, Receiving, RxSnapshot, RxPreinit, RxSchedulesPreconfig, RxGrant,
     RxSchedulesStart, RxMaybeSends, RxError, RxMaybeCompares, RxDiscarded, RxManual, RxStops,
     RxResets, MaybeSendProgram, MaybeCompare
<1>6. ending' \in {ending, "failed", "discard"}
  BY DEF Receiving, RxSnapshot, RxPreinit, RxSchedulesPreconfig, RxGrant, RxSchedulesStart,
     RxMaybeSends, RxError, RxMaybeCompares, RxDiscarded, RxManual, RxStops, RxResets, Fail, Ended,
     history
<1>7. /\ rx.pc \notin {"check", "done"}
      /\ rx'.pc \notin {"check", "done", "loss", "snapshot"}
      /\ rx'.pc = "act" => rx.pc = "snapshot" /\ rx'.frame = rx.frame
  BY <1>1, RestingTyped DEF HostTypes, Receptions, Receiving, RxSnapshot, RxPreinit,
     RxSchedulesPreconfig, RxGrant, RxSchedulesStart, RxMaybeSends, RxError, RxMaybeCompares,
     RxDiscarded, RxManual, RxStops, RxResets, RxAt, RxGoes
<1>8. Undisturbed
  BY <1>2, <1>3, <1>4, <1>5, <1>7 DEF Undisturbed, envVars
<1>9. Unspoiled
  BY <1>2, <1>5, <1>6 DEF Unspoiled, envVars
<1> QED BY <1>8, <1>9

(* A loss is reported only if a frame was lost.                              *)
LEMMA LossQuiet == ASSUME HostInv, Flows, RxLoss PROVE Undisturbed /\ Unspoiled
<1>1. HostTypes
  BY DEF HostInv
<1>2. UNCHANGED <<envVars, svc, auto, poll, ending>>
  BY DEF RxLoss, sendVars, history
<1>3. round'.dones = round.dones /\ round'.status = round.status
  BY <1>1 DEF HostTypes, Rounds, RxLoss
<1>4. rx.pc = "loss" /\ rx'.pc \in {"idle", "manual", "discard"}
  BY <1>1, RestingTyped DEF HostTypes, Receptions, RxLoss, RxAt, RxGoes
<1>5. skip'["rx"].pc = "save" => skip["rx"].pc = "save" \/ spent["frame"] > 0
  <2>1. CASE Current
    <3>1. spent["frame"] # 0
      BY <1>4, <2>1 DEF Flows, Lossless
    <3> QED BY <1>1, <3>1 DEF HostTypes, Budgets
  <2>2. CASE ~Current
    BY <2>2 DEF RxLoss, Current
  <2> QED BY <2>1, <2>2
<1>6. Undisturbed
  BY <1>2, <1>3, <1>4 DEF Undisturbed, envVars, Current
<1>7. Unspoiled
  BY <1>2, <1>3, <1>5 DEF Unspoiled, envVars
<1> QED BY <1>6, <1>7

(* The poll thread brings a failed job to the round; then it may remove the  *)
(* capture file.                                                             *)
LEMMA PollQuiet == ASSUME HostInv, PollStep PROVE Undisturbed /\ Unspoiled
<1>1. HostTypes
  BY DEF HostInv
<1>2. UNCHANGED <<board, wire, vm, spent, svc, auto, rx, ending>>
  BY DEF PollStep, PollReads, PollStores, PollSkips, PollDiscarded, PollMaybeSends,
     PollMaybeCompares, envVars, sendVars, history
<1>3. round'.dones = round.dones
  BY <1>1 DEF HostTypes, Rounds, PollStep, PollReads, PollStores, PollSkips, PollDiscarded,
     PollMaybeSends, PollMaybeCompares, MaybeSendProgram, MaybeCompare
<1>4. round'.status \in {round.status, poll.status}
  BY <1>1 DEF HostTypes, Rounds, PollStep, PollReads, PollStores, PollSkips, PollDiscarded,
     PollMaybeSends, PollMaybeCompares, MaybeSendProgram, MaybeCompare
<1>5. poll'.status \in {poll.status, vm, NoJob}
  BY <1>1 DEF HostTypes, Polls, PollStep, PollReads, PollStores, PollSkips, PollDiscarded,
     PollMaybeSends, PollMaybeCompares, PollGoes
<1>6. removed' # removed => round.status.failed
  BY DEF PollStep, PollReads, PollStores, PollSkips, PollDiscarded, PollMaybeSends,
     PollMaybeCompares, envVars, HostInv, Epoch, Reported
<1>7. skip'["rx"] = skip["rx"]
  BY <1>1 DEF HostTypes, Threads, PollStep, PollReads, PollStores, PollSkips, PollDiscarded,
     PollMaybeSends, PollMaybeCompares
<1>8. Undisturbed
  BY <1>2, <1>3 DEF Undisturbed, Current
<1>9. Unspoiled
  BY <1>2, <1>4, <1>5, <1>6, <1>7 DEF Unspoiled, NoJob
<1> QED BY <1>8, <1>9

(* Only the RX thread saves what may be missing.                             *)
LEMMA SavesQuiet ==
    ASSUME HostInv, NEW t \in Threads, SkipSaves(t) PROVE Undisturbed /\ Unspoiled
<1>1. HostTypes
  BY DEF HostInv
<1>2. UNCHANGED <<envVars, svc, rx, poll>>
  BY DEF SkipSaves, sendVars
<1>3. round'.dones = round.dones /\ round'.status = round.status
  BY <1>1 DEF HostTypes, Rounds, SkipSaves
<1>4. Current' => Current
  BY <1>1 DEF HostTypes, Controllers, SkipSaves, Ended, Current
<1>5. skip'["rx"].pc = "save" => skip["rx"].pc = "save"
  <2>1. \E pc \in {"release", "idle"} : SkipGoes(t, pc)
    BY DEF SkipSaves
  <2>2. PICK pc \in {"release", "idle"} : SkipGoes(t, pc)
    BY <2>1
  <2> QED BY <1>1, <2>2, SkipMoves DEF HostTypes, Threads
<1>6. ending' = "missing" => ending = "missing" \/ (skip["rx"].pc = "save" /\ removed # {})
  <2> SUFFICES ASSUME ending' = "missing", ending # "missing"
               PROVE  skip["rx"].pc = "save" /\ removed # {}
    OBVIOUS
  <2>1. skip[t].pc = "save" /\ t # "poll" /\ skip[t].of \in removed
    BY DEF SkipSaves
  <2>2. t # "compare"
    BY <2>1 DEF HostInv, Numbered
  <2> QED BY <2>1, <2>2 DEF Threads
<1>7. Undisturbed
  BY <1>2, <1>3, <1>4 DEF Undisturbed, envVars
<1>8. Unspoiled
  BY <1>2, <1>3, <1>5, <1>6 DEF Unspoiled, envVars
<1> QED BY <1>7, <1>8

(* A round that is released takes nothing that is spoiled with it.           *)
LEMMA ReleasesKeep ==
    ASSUME HostInv, HostInv', Flows,
           CompareReleases \/ (\E t \in Threads : SkipReleases(t)) \/ Installs
    PROVE  Flows' /\ Unspoiled
<1>1. HostTypes /\ HostTypes'
  BY DEF HostInv
<1>2. UNCHANGED <<board, wire, removed, spent, svc, rx, poll, ending>>
  BY DEF CompareReleases, SkipReleases, Installs, envVars, sendVars, history
<1>3. /\ vm' = vm \/ vm' = NoJob
      /\ round' = round \/ round' = FreshRound(FALSE) \/ round' = FreshRound(auto.grant)
  BY DEF CompareReleases, SkipReleases, Installs, Release, envVars
<1>4. round'.status \in {round.status, NoJob} /\ round'.dones \in {round.dones, {}}
  BY <1>1, <1>3, FreshTyped DEF HostTypes, Controllers
<1>5. skip'["rx"].pc = "save" => skip["rx"].pc = "save"
  <2>1. CASE \E t \in Threads : SkipReleases(t)
    <3>1. PICK t \in Threads : SkipReleases(t)
      BY <2>1
    <3>2. PICK pc \in {"reset", "idle"} : SkipGoes(t, pc)
      BY <3>1 DEF SkipReleases
    <3> QED BY <1>1, <3>2, SkipMoves DEF HostTypes, Threads
  <2>2. CASE CompareReleases \/ Installs
    BY <2>2 DEF CompareReleases, Installs, threadVars
  <2> QED BY <2>1, <2>2
<1>6. Unspoiled
  BY <1>2, <1>3, <1>4, <1>5 DEF Unspoiled, NoJob
<1>7. CASE auto'.round = 0
  BY <1>6, <1>7, NoRoundNoLog
<1>8. CASE auto'.round # 0
  <2>1. auto' = auto \/ (Installs /\ auto.round = 0 /\ Current)
    BY <1>1, <1>8 DEF CompareReleases, SkipReleases, Release, Installs, HostTypes, Controllers,
       Current
  <2>2. Current' => Current
    BY <2>1 DEF Current
  <2>3. Current' => round'.dones = round.dones
    <3>1. auto' = auto => round' = round
      BY <1>1, <1>8 DEF CompareReleases, SkipReleases, Release, Installs, HostTypes, Controllers
    <3>2. auto.round = 0 /\ Current => round.dones = {}
      BY FreshTyped DEF HostInv, Enabled, Discarding, Current
    <3> QED BY <1>4, <2>1, <2>2, <3>1, <3>2
  <2>4. Current' => Undisturbed
    BY <1>2, <2>2, <2>3 DEF Undisturbed
  <2>5. Flows'
    BY <2>4, UndisturbedFlows DEF Flows
  <2> QED BY <1>6, <2>5
<1> QED BY <1>7, <1>8

(* Steps of the log itself spoil nothing.                                    *)
Moving == \/ RxService \/ RxGate \/ RxExeEnd \/ RxCaptures \/ RxChecks \/ RxHartDone
          \/ BulkEnds \/ ResetArrives \/ BoardSpeaks \/ LogFrameLost \/ BoardFails

LEMMA MovingQuiet == ASSUME HostInv, Moving PROVE Unspoiled
<1>1. HostTypes
  BY DEF HostInv
<1>2. UNCHANGED <<vm, removed, poll, skip, ending>>
  BY DEF Moving, RxService, RxGate, RxExeEnd, RxCaptures, RxChecks, RxHartDone, BulkEnds,
     ResetArrives, ResetGoesOut, BoardSpeaks, LogFrameLost, BoardFails, BoardRests, envVars,
     threadVars, history
<1>3. round'.status = round.status
  BY <1>1 DEF HostTypes, Rounds, Moving, RxService, RxGate, RxExeEnd, RxCaptures, RxChecks,
     RxHartDone, BulkEnds, ResetArrives, ResetGoesOut, BoardSpeaks, LogFrameLost, BoardFails,
     BoardRests
<1>4. spent' = spent \/ \E b \in Budgets : Spend(b)
  BY DEF Moving, RxService, RxGate, RxExeEnd, RxCaptures, RxChecks, RxHartDone, BulkEnds,
     ResetArrives, BoardSpeaks, LogFrameLost, BoardFails, envVars, Budgets
<1>5. \A c \in Budgets : spent[c] > 0 => spent'[c] > 0
  <2>1. CASE spent' = spent
    BY <2>1
  <2>2. CASE \E b \in Budgets : Spend(b)
    BY <1>1, <2>2, SpentGrows
  <2> QED BY <1>4, <2>1, <2>2
<1> QED
  BY <1>2, <1>3, <1>5 DEF Unspoiled, Budgets

LEMMA MovingFlows == ASSUME HostInv, HostInv', Flows, Moving PROVE Flows'
<1>1. HostTypes /\ HostTypes'
  BY DEF HostInv
<1>2. CASE RxService \/ RxExeEnd \/ RxCaptures \/ RxChecks \/ RxHartDone
  BY <1>2, ServiceFlows, ExeEndFlows, CapturesFlows, ChecksFlows, HartDoneFlows
<1>3. CASE RxGate
  <2>1. auto'.round = auto.round
    BY <1>1, <1>3 DEF RxGate, Reopened, HostTypes, Controllers
  <2>2. auto.enabled => auto.round = 0
    BY <1>3 DEF RxGate, RxAt, HostInv, Enabled, Announced, RxKinds
  <2>3. Current' => auto.enabled
    BY <1>1, <1>3 DEF RxGate, Reopened, HostTypes, Controllers, Current
  <2> QED BY <2>1, <2>2, <2>3, NoRoundNoLog DEF Flows
<1>4. CASE BulkEnds
  BY <1>4, BulkEndsFlows
<1>5. CASE ResetArrives
  <2>1. auto' = auto /\ (auto.enabled => auto.round = 0)
    BY <1>5 DEF ResetArrives, ResetGoesOut, HostInv, Enabled, ResetPath, Resetting
  <2> QED BY <2>1, NoRoundNoLog DEF Flows, Current
<1>6. CASE BoardSpeaks
  <2>1. spent' = spent /\ BoardRests /\ UNCHANGED <<auto, svc, round, rx, spent>>
    BY <1>6 DEF BoardSpeaks, BoardRests, sendVars, threadVars
  <2>2. CASE BoardRuns \/ BoardDumps
    BY <2>1, <2>2, RunsFlows, DumpsFlows
  <2>3. CASE BoardBoots \/ BoardPasses \/ BoardGrants \/ BoardFinishes
    <3>1. PICK k \in {"PREINIT", "PASS", "GRANT", "EXE_END"} :
             /\ wire' = Append(wire, Status(k)) /\ board'.out = board.out
             /\ board'.at \notin {"EXEC", "DUMP"} /\ (k = "EXE_END" => board.at = "DUMP")
      BY <1>1, <2>3 DEF BoardBoots, BoardPasses, BoardGrants, BoardFinishes, Emits, HostTypes, Boards
    <3>2. Status(k) \in Frames /\ Status(k).kind = k /\ k \notin LogKind
      BY FramesTyped DEF FrameKinds, AnyKind, StatusKind, LogKind
    <3> QED BY <2>1, <3>1, <3>2, StatusFlows
  <2> QED BY <1>6, <2>2, <2>3 DEF BoardSpeaks
<1>7. CASE LogFrameLost \/ BoardFails
  BY <1>7, LogFrameLostFlows, BoardFailsFlows
<1> QED BY <1>2, <1>3, <1>4, <1>5, <1>6, <1>7 DEF Moving

(* Wherever the session is taken over, no frame of a log is on its way.      *)
LEMMA LossStarts == ASSUME Init PROVE LossInv
<1>1. /\ wire = <<>> /\ board.out = <<>> /\ board.at \notin {"EXEC", "DUMP"}
      /\ rx = Resting /\ round = FreshRound(FALSE)
  BY DEF Init
<1>2. LogOrder
  BY <1>1, RestingTyped DEF LogOrder, WireSorted, BoardSorted, WireFirst, HandFirst, NotDumped
<1>3. Lossless
  <2>1. DOMAIN wire = {} /\ DOMAIN board.out = {} /\ rx.pc = "idle" /\ rx.frame.kind = "NONE"
    BY <1>1, RestingTyped
  <2>2. ~Conclusive /\ \A h \in Harts, kind \in LogKind : ~ToCome(kind, h)
    BY <1>1, <2>1 DEF Conclusive, Waiting, ToCome, InHand, OnWire, AtBoard
  <2> QED BY <1>1, <2>1, <2>2, FreshTyped DEF Lossless, LogKind
<1>4. Spoiled
  <2>1. vm = NoJob /\ poll.status = NoJob /\ round.status = NoJob /\ removed = {} /\ ending = "none"
    BY <1>1, FreshTyped DEF Init
  <2>2. skip["rx"].pc = "idle"
    BY DEF Init, Threads, RestingWorker
  <2> QED BY <2>1, <2>2 DEF Spoiled, NoJob
<1> QED BY <1>2, <1>3, <1>4 DEF LossInv, Flows

LEMMA LossNext == ASSUME HostInv, HostInv', LossInv, [Next]_vars PROVE LossInv'
<1>1. Flows /\ Spoiled
  BY DEF LossInv
<1>2. CASE Moving
  BY <1>1, <1>2, MovingFlows, MovingQuiet, UnspoiledKeeps DEF LossInv
<1>3. CASE CompareReleases \/ (\E t \in Threads : SkipReleases(t)) \/ Installs
  BY <1>1, <1>3, ReleasesKeep, UnspoiledKeeps DEF LossInv
<1>4. CASE Serving \/ Failing \/ Receiving \/ RxLoss \/ PollStep \/ \E t \in Threads : SkipSaves(t)
  <2>1. Undisturbed /\ Unspoiled
    BY <1>1, <1>4, ServingQuiet, FailingQuiet, ReceivingQuiet, LossQuiet, PollQuiet, SavesQuiet
  <2> QED BY <1>1, <2>1, UndisturbedFlows, UnspoiledKeeps DEF LossInv
<1>5. CASE UNCHANGED vars
  <2>1. UNCHANGED <<board, wire, vm, removed, spent, svc, auto, round, rx, poll, skip, ending>>
    BY <1>5 DEF vars, envVars, sendVars, threadVars, history
  <2>2. Undisturbed /\ Unspoiled
    BY <2>1 DEF Undisturbed, Unspoiled, Current
  <2> QED BY <1>1, <2>2, UndisturbedFlows, UnspoiledKeeps DEF LossInv
<1> QED
  BY <1>2, <1>3, <1>4, <1>5 DEF Next, RxStep, CompareStep, SkipStep, WorkerStep, Moving, Serving,
     Failing, Receiving

(* A session fails only after a failure of board, cores, disk or launch; it  *)
(* misses a capture file only after a VM job failed and a frame was lost.    *)
THEOREM FailsOnlyForCause == Spec => []FailsForCause
<1>1. Init => HostInv /\ LossInv
  BY HostStarts, LossStarts
<1>2. HostInv /\ LossInv /\ [Next]_vars => HostInv' /\ LossInv'
  BY HostNext, LossNext
<1>3. HostInv /\ LossInv => FailsForCause
  BY DEF HostInv, Caused, Faulted, LossInv, Spoiled, FailsForCause
<1> QED BY <1>1, <1>2, <1>3, PTL DEF Spec
=============================================================================
