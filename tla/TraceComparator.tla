--------------------------- MODULE TraceComparator ---------------------------
(* The judgement of a round: the log the board sent against the stream of    *)
(* each hart that the reference simulator retired (compare_fpga in           *)
(* webui/eh2web/comparator.py).  The records of a hart come in any order,    *)
(* for a late result leaves the board after younger ones; the comparator     *)
(* reads the log once, frame by frame and slot by slot, and keeps a byte per *)
(* sequence number.  PC, instruction and privilege are one value, "what";    *)
(* frames that cannot be read at all are one kind of frame.  How the text    *)
(* of both files becomes streams and frames is left out.                     *)
EXTENDS Integers, Sequences, FiniteSets

CONSTANTS GoldenStreams,   \* per hart, what may have been retired: a set of functions
          LogRecords,      \* bounds: the records a log may hold,
          FrameSlots,      \* INFO_RECORDS_PER_FRAME: 60
          MaxDataFrames,   \* data frames of a hart
          MaxOff           \* and how far a wrong count is above the right one

TraceHarts == 0..1
Instructions == [what : STRING, event : 0..2, target : Nat, data : Nat]
LogEntries == [seq : Nat, what : STRING, event : 0..2, target : Nat,
            kind : 0..3, data : Nat, cancel : Nat]

ASSUME TraceAssumption ==
    /\ \A g \in GoldenStreams : g \in [TraceHarts -> Seq(Instructions)]
    /\ LogRecords \subseteq LogEntries
    /\ FrameSlots \in Nat \ {0} /\ MaxDataFrames \in Nat /\ MaxOff \in Nat

VARIABLES
    golden,      \* the normalised streams: maps
    verdict,     \* "none", or what the report will say
    place,       \* the frame being read: its hart, slot (0: between frames), padding_seen
    lastHart,    \* last_hart
    frameNo,     \* expected_frame, and data_frames, which is counted with it
    seen,        \* seen_sequence: the numbers whose byte is set
    received,    \* received_records
    finished,    \* harts whose completion frame has been read
    trace        \* history: frames, slots and the end of the log, as they were read

traceVars == <<golden, verdict, place, lastHart, frameNo, seen, received, finished, trace>>

BetweenFrames == [hart |-> 0, slot |-> 0, padded |-> FALSE]

TraceInit ==
    /\ golden \in GoldenStreams /\ verdict = "none"
    /\ place = BetweenFrames /\ lastHart = 0
    /\ frameNo = [h \in TraceHarts |-> 0] /\ received = [h \in TraceHarts |-> 0]
    /\ seen = [h \in TraceHarts |-> {}] /\ finished = {} /\ trace = <<>>

Count(h) == Len(golden[h])
GoldenAt(h, seq) == golden[h][seq + 1]

-----------------------------------------------------------------------------
(* What is read next.                                                        *)
AtFrame == verdict = "none" /\ place.slot = 0
Reads(entry) == trace' = Append(trace, entry)
Rejects == /\ verdict' = "FAIL"
           /\ UNCHANGED <<golden, place, lastHart, frameNo, seen, received, finished>>

(* A frame of another length, address, source or type.                       *)
ReadsForeign ==
    AtFrame /\ Reads([kind |-> "FOREIGN", hart |-> lastHart]) /\ Rejects

InHartOrder(h) == h >= lastHart

ReadsHeader(h, number) ==
    /\ AtFrame /\ frameNo[h] < MaxDataFrames
    /\ Reads([kind |-> "DATA", hart |-> h, number |-> number])
    /\ IF InHartOrder(h) /\ number = frameNo[h]
       THEN /\ lastHart' = h
            /\ frameNo' = [frameNo EXCEPT ![h] = @ + 1]
            /\ place' = [hart |-> h, slot |-> 1, padded |-> FALSE]
            /\ UNCHANGED <<golden, verdict, seen, received, finished>>
       ELSE Rejects

AfterSlot(padded) ==
    IF place.slot = FrameSlots THEN BetweenFrames
    ELSE [place EXCEPT !.slot = @ + 1, !.padded = padded]

ReadsPadding ==
    /\ verdict = "none" /\ place.slot # 0
    /\ Reads([kind |-> "PAD", hart |-> place.hart])
    /\ place' = AfterSlot(TRUE)
    /\ UNCHANGED <<golden, verdict, lastHart, frameNo, seen, received, finished>>

(* A result that a younger instruction made superfluous is not compared; its *)
(* record names that instruction, which must write the same register.        *)
Overwritten(h, r) ==
    /\ r.data = 0 /\ r.seq < r.cancel /\ r.cancel < Count(h)
    /\ GoldenAt(h, r.seq).event = 1 /\ GoldenAt(h, r.cancel).event = 1
    /\ GoldenAt(h, r.seq).target = GoldenAt(h, r.cancel).target

SameInstruction(h, r) ==
    /\ r.what = GoldenAt(h, r.seq).what
    /\ r.event = GoldenAt(h, r.seq).event /\ r.target = GoldenAt(h, r.seq).target

Agrees(h, r) ==
    /\ SameInstruction(h, r)
    /\ IF r.kind = 0 THEN r.cancel = 0 /\ r.data = GoldenAt(h, r.seq).data
                     ELSE Overwritten(h, r)

(* Slip: the byte is set but never looked at.                                *)
InRange(h, r) == r.seq < Count(h)
Expected(h, r) == r.seq < Count(h) /\ r.seq \notin seen[h]

ReadsRecord(r) ==
    /\ verdict = "none" /\ place.slot # 0
    /\ LET h == place.hart
       IN  /\ Reads([kind |-> "RECORD", hart |-> h, rec |-> r])
           /\ IF ~place.padded /\ Expected(h, r) /\ Agrees(h, r)
              THEN /\ seen' = [seen EXCEPT ![h] = @ \cup {r.seq}]
                   /\ received' = [received EXCEPT ![h] = @ + 1]
                   /\ place' = AfterSlot(FALSE)
                   /\ UNCHANGED <<golden, verdict, lastHart, frameNo, finished>>
              ELSE Rejects

(* The completion frame: 0xFFFFFFFF, the number before the first, is -1.     *)
Declared(h, records, frames, last) ==
    /\ records = received[h] /\ frames = frameNo[h] /\ last = records - 1
NoneMissing(h) == \A q \in 0 .. Count(h) - 1 : q \in seen[h]

ReadsDone(h, records, frames, last) ==
    /\ AtFrame
    /\ Reads([kind |-> "DONE", hart |-> h,
              records |-> records, frames |-> frames, last |-> last])
    /\ IF InHartOrder(h) /\ h \notin finished /\ Declared(h, records, frames, last) /\ NoneMissing(h)
       THEN /\ lastHart' = h /\ finished' = finished \cup {h}
            /\ UNCHANGED <<golden, verdict, place, frameNo, seen, received>>
       ELSE Rejects

ReadsEnd ==
    /\ AtFrame /\ Reads([kind |-> "END", hart |-> lastHart])
    /\ IF finished = TraceHarts /\ \A h \in TraceHarts : received[h] = Count(h)
       THEN /\ verdict' = "PASS"
            /\ UNCHANGED <<golden, place, lastHart, frameNo, seen, received, finished>>
       ELSE Rejects

ReadsAFrame ==
    \/ ReadsForeign \/ ReadsEnd
    \/ \E h \in TraceHarts :
          \/ \E n \in 0 .. frameNo[h] + MaxOff : ReadsHeader(h, n)
          \/ \E n, f, l \in 0 .. MaxOff :
                ReadsDone(h, received[h] + n, frameNo[h] + f, received[h] + n - 1 + l)

TraceStep == ReadsAFrame \/ ReadsPadding \/ \E r \in LogRecords : ReadsRecord(r)

TraceSpec == TraceInit /\ [][TraceStep]_traceVars

-----------------------------------------------------------------------------
(* What the log itself says, without the comparator's counters.              *)
Entries(i, kind, h) == {j \in 1 .. i : trace[j].kind = kind /\ trace[j].hart = h}

BadHeader(i) == trace[i].number # Cardinality(Entries(i - 1, "DATA", trace[i].hart))

BadRecord(i) ==
    LET h == trace[i].hart
        r == trace[i].rec
    IN  \/ i > 1 /\ trace[i - 1].kind = "PAD"
        \/ r.seq >= Count(h)
        \/ \E j \in Entries(i - 1, "RECORD", h) : trace[j].rec.seq = r.seq
        \/ ~Agrees(h, r)

BadDone(i) ==
    LET h == trace[i].hart
        recorded == Entries(i - 1, "RECORD", h)
    IN  \/ Entries(i - 1, "DONE", h) # {}
        \/ trace[i].records # Cardinality(recorded)
        \/ trace[i].frames # Cardinality(Entries(i - 1, "DATA", h))
        \/ trace[i].last # Cardinality(recorded) - 1
        \/ \E q \in 0 .. Count(h) - 1 : \A j \in recorded : trace[j].rec.seq # q

OutOfHartOrder(i) == \E j \in 1 .. i - 1 : trace[j].hart > trace[i].hart

Faulty(i) ==
    \/ trace[i].kind = "FOREIGN"
    \/ trace[i].kind \in {"DATA", "DONE"} /\ OutOfHartOrder(i)
    \/ trace[i].kind = "DATA" /\ BadHeader(i)
    \/ trace[i].kind = "RECORD" /\ BadRecord(i)
    \/ trace[i].kind = "DONE" /\ BadDone(i)
    \/ trace[i].kind = "END" /\ \E h \in TraceHarts : Entries(i - 1, "DONE", h) = {}

(* The record carries the result, or a younger instruction overwrote it.     *)
Truthful(h, r) ==
    /\ SameInstruction(h, r)
    /\ \/ r.data = GoldenAt(h, r.seq).data
       \/ \E n \in r.seq + 1 .. Count(h) - 1 :
             GoldenAt(h, n).event = 1 /\ GoldenAt(h, n).target = r.target

OncePerInstruction(h) ==
    LET recorded == Entries(Len(trace), "RECORD", h)
    IN  /\ \A q \in 0 .. Count(h) - 1 : \E i \in recorded : trace[i].rec.seq = q
        /\ \A i, j \in recorded : trace[i].rec.seq = trace[j].rec.seq => i = j
        /\ \A i \in recorded : trace[i].rec.seq < Count(h) /\ Truthful(h, trace[i].rec)

(* The report is right about a log whose records come in any order (363-417, *)
(* 430-461): it says FAIL exactly when the log has a fault, and PASS only of *)
(* a log with one true record of every instruction the simulator retired.    *)
VerdictIsTrue ==
    /\ verdict = "FAIL" <=> \E i \in DOMAIN trace : Faulty(i)
    /\ verdict = "PASS" => \A h \in TraceHarts : OncePerInstruction(h)
=============================================================================
