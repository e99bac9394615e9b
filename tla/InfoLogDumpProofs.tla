-------------------------- MODULE InfoLogDumpProofs --------------------------
(* What is proved of the dump for any frame and page size, any record counts *)
(* and any spacing of the two clocks: it drives the frame FIFO as that       *)
(* expects, its bursts read written records inside a page, its error latches *)
(* stay clear, a completion frame is built only over an empty FIFO, and the  *)
(* frames leave in order with the right records.  With at most two UI edges  *)
(* to a transmit period it implements its service, completion frames too.    *)
EXTENDS InfoLogDumpProperties, SequenceTheorems, FiniteSetTheorems, TLAPS

(* What a beat can hold: records, or the zeros of the padding.               *)
Padded == (Harts \X Nat) \cup {<<>>}
Frame == INSTANCE FrameFifoProofs WITH Records <- Padded, FrameNumbers <- Nat

SeqStates == {"IDLE", "DATA", "DRAIN", "DONE_START", "DONE_WAIT", "DONE"}
Entries == [index : Nat, last : BOOLEAN, beat : Padded \X Padded]

DumpTypes ==
    /\ seqState \in SeqStates /\ hart \in Harts /\ written \in [Harts -> Nat]
    /\ frameNumber \in Nat /\ recordsRemaining \in Nat
    /\ activeRecords \in Nat /\ buildNumber \in Nat
    /\ readStart \in BOOLEAN /\ buildStart \in BOOLEAN
    /\ dmaState \in Dma!DmaStates /\ dmaHart \in Harts
    /\ address \in Nat /\ beatsRemaining \in Nat /\ burstBeats \in Nat
    /\ burstIndex \in Nat /\ dataIndex \in Nat
    /\ dmaBusy \in BOOLEAN /\ dmaDone \in BOOLEAN
    /\ elastic \in Seq(Entries) /\ Len(elastic) <= 2
    /\ buildActive \in BOOLEAN /\ expectedIndex \in Nat /\ writeSlot \in Bit

(* A frame is requested, read, or has just been read.                        *)
Reading == readStart \/ dmaDone \/ dmaState # "IDLE"
FrameRecords == IF recordsRemaining >= RecordsPerFrame THEN RecordsPerFrame
                ELSE recordsRemaining

(* The sequencer's counts add up to what the hart has written, and a frame   *)
(* is asked for only when both the DMA and the FIFO are free for it.         *)
Sequencing ==
    /\ seqState = "DATA" =>
          /\ recordsRemaining # 0
          /\ RecordsPerFrame * frameNumber + recordsRemaining = written[hart]
    /\ Reading => /\ seqState = "DATA"
                  /\ activeRecords = FrameRecords /\ buildNumber = frameNumber
    /\ buildStart = readStart
    /\ readStart => dmaState = "IDLE" /\ ~dmaDone /\ Fifo!BuildReady
    /\ dmaBusy <=> dmaState # "IDLE"
    /\ dmaDone => dmaState = "IDLE"

(* The beats of the frame: those stored, those in the elastic queue and those*)
(* still to come follow one another without a gap.                           *)
Consecutive(queue, from) ==
    \A i \in 1 .. Len(queue) : /\ queue[i].index = from + (i - 1)
                               /\ queue[i].last = (queue[i].index = Beats - 1)
Streaming ==
    /\ buildActive => expectedIndex < Beats
    /\ dmaState # "IDLE" => /\ buildActive /\ dmaHart = hart /\ dataIndex < Beats
                            /\ expectedIndex + Len(elastic) = dataIndex
    /\ dmaState = "IDLE" /\ buildActive => expectedIndex + Len(elastic) = Beats
    /\ ~buildActive => elastic = <<>> /\ expectedIndex = 0
    /\ Consecutive(elastic, expectedIndex)

(* Where the burst stands in the frame, in its page and in the region.       *)
Behind == IF dmaState = "R" THEN burstIndex ELSE 0
Bursting ==
    /\ dmaState \in {"PLAN", "AR", "R"} =>
          /\ beatsRemaining # 0
          /\ dataIndex + beatsRemaining = Dma!BeatsFor(activeRecords)
          /\ address = Beats * frameNumber + dataIndex
    /\ dmaState \in {"AR", "R"} =>
          /\ Behind < burstBeats /\ Behind <= address
          /\ burstBeats <= Behind + beatsRemaining
          /\ ((address - Behind) % PageBeats) + burstBeats <= PageBeats

ReadInv == DumpTypes /\ Sequencing /\ Streaming /\ Bursting

(* What is counted: reserved slots and the release being reported; the two   *)
(* slots are never released by one edge.                                     *)
Taken(s) == IF occupied[s] THEN 1 ELSE 0
Apart(f, g) == f[0] = g[0] \/ f[1] = g[1]
Counting ==
    /\ framesOutstanding = Taken(0) + Taken(1) + ReleasePending
    /\ uiEdges \in Nat /\ releaseError = FALSE
    /\ Apart(release, releaseSync[1]) /\ (uiEdges # 0 => release = releaseSync[1])
    /\ Apart(releaseSync[1], releaseSync[2])
    /\ Apart(releaseSync[2], releaseSync[3])
    /\ Apart(releaseSync[3], releaseSeen)
    /\ seqState \notin {"DATA", "DRAIN"} => framesOutstanding = 0

(* The request for a completion frame goes out and its end comes back as one *)
(* token: a toggle on its way to the formatter, the formatter at work, its   *)
(* end, a toggle on its way back.                                            *)
Rests(source, chain) == \A i \in Stages : chain[i] = source.toggle
Moves(source, chain) ==
    /\ source.toggle # chain[3]
    /\ chain[1] = chain[3] => chain[2] = chain[3]
StartRests == ~doneStart /\ Rests(startSource, startSync)
EndRests == ~fmtDone /\ Rests(doneSource, doneSync)
FormatterRests == fmtState = "IDLE" /\ ~fmtBusy
AllRest == StartRests /\ FormatterRests /\ EndRests

Completing ==
    /\ doneStart \in BOOLEAN /\ fmtBusy \in BOOLEAN /\ fmtDone \in BOOLEAN
    /\ fmtState \in {"IDLE", "HEADER", "PAYLOAD"}
    /\ startSource \in EventSource /\ doneSource \in EventSource
    /\ startSync \in Chain(Bit) /\ doneSync \in Chain(Bit)
    /\ startSource.last => ~doneStart
    /\ doneSource.last => ~fmtDone
    /\ seqState # "DONE_WAIT" => AllRest
    /\ seqState = "DONE_WAIT" =>
          \/ /\ doneStart /\ Rests(startSource, startSync)
             /\ FormatterRests /\ EndRests
          \/ /\ ~doneStart /\ Moves(startSource, startSync)
             /\ FormatterRests /\ EndRests
          \/ /\ StartRests /\ fmtState # "IDLE" /\ fmtBusy /\ EndRests
          \/ /\ StartRests /\ FormatterRests
             /\ fmtDone /\ Rests(doneSource, doneSync)
          \/ /\ StartRests /\ FormatterRests
             /\ ~fmtDone /\ Moves(doneSource, doneSync)

DrainInv == Counting /\ Completing

-----------------------------------------------------------------------------
LEMMA DumpSizes ==
    /\ Beats \in Nat /\ Beats >= 1 /\ PageBeats \in Nat /\ PageBeats >= 1
    /\ RecordsPerFrame = 2 * Beats /\ Totals \subseteq Nat
BY DumpAssumption DEF DumpAssumption, RecordsPerFrame

LEMMA BeatsForFits ==
    ASSUME NEW r \in Nat
    PROVE  /\ Dma!BeatsFor(r) \in Nat
           /\ r # 0 => Dma!BeatsFor(r) >= 1
           /\ 2 * Dma!BeatsFor(r) <= r + 1
           /\ r <= RecordsPerFrame => Dma!BeatsFor(r) <= Beats
BY DumpSizes DEF Dma!BeatsFor

(* How many records a frame has while one is read.                           *)
LEMMA FrameHasBeats ==
    ASSUME DumpTypes, Sequencing, Reading
    PROVE  /\ activeRecords # 0 /\ activeRecords <= RecordsPerFrame
           /\ Dma!BeatsFor(activeRecords) \in Nat
           /\ Dma!BeatsFor(activeRecords) >= 1 /\ Dma!BeatsFor(activeRecords) <= Beats
<1>1. activeRecords # 0 /\ activeRecords <= RecordsPerFrame /\ activeRecords \in Nat
  BY DumpSizes DEF DumpTypes, Sequencing, FrameRecords
<1> QED
  BY <1>1, BeatsForFits

(* What an edge of the UI clock does to the building of a frame.             *)
Stored == buildActive /\ elastic # <<>>
StoresLast == Stored /\ expectedIndex = Beats - 1
LEMMA FifoMoves ==
    ASSUME DumpTypes, Sequencing, Streaming, Fifo!UiStep(BuildRequest, DataOffer)
    PROVE  /\ buildActive' = (readStart \/ (buildActive /\ ~StoresLast))
           /\ expectedIndex' = IF readStart \/ StoresLast THEN 0
                               ELSE IF Stored THEN expectedIndex + 1 ELSE expectedIndex
           /\ Fifo!BuildReady /\ ~readStart => Fifo!BuildReady'
           /\ writeSlot' \in Bit
<1>1. BuildRequest.start = readStart
  BY DEF BuildRequest, Sequencing
<1>2. readStart => Fifo!BuildReady
  BY DEF Sequencing
<1>3. /\ DataOffer.valid <=> elastic # <<>>
      /\ elastic # <<>> => DataOffer.index = expectedIndex
  <2>1. CASE elastic = <<>>
    BY <2>1 DEF DataOffer
  <2>2. CASE elastic # <<>>
    <3>1. 1 \in 1 .. Len(elastic) /\ Head(elastic) = elastic[1]
      BY <2>2 DEF DumpTypes
    <3>2. elastic[1].index = expectedIndex
      BY <3>1 DEF Streaming, DumpTypes, Consecutive
    <3> QED
      BY <2>2, <3>1, <3>2 DEF DataOffer, Dma!Offer
  <2> QED
    BY <2>1, <2>2
<1> DEFINE stored == DataOffer.valid /\ buildActive
           last == stored /\ DataOffer.index = Beats - 1
           accepted == BuildRequest.start /\ Fifo!BuildReady
<1>4. /\ accepted <=> readStart
      /\ stored <=> Stored
      /\ last <=> StoresLast
  BY <1>1, <1>2, <1>3 DEF Stored, StoresLast
<1>5. /\ buildActive' = (accepted \/ (buildActive /\ ~last))
      /\ expectedIndex' = IF accepted \/ last THEN 0
                          ELSE IF stored THEN expectedIndex + 1 ELSE expectedIndex
      /\ writeSlot' = IF last THEN Flip(writeSlot) ELSE writeSlot
      /\ occupied' = [s \in Fifo!Slots |->
               (accepted /\ s = writeSlot) \/ (occupied[s] /\ ~Fifo!Released(s))]
  BY DEF Fifo!UiStep, Fifo!Flip, Flip
<1> HIDE DEF stored, last, accepted
<1>7. writeSlot \in Fifo!Slots /\ writeSlot' \in Bit
  BY <1>5 DEF DumpTypes, Fifo!Slots, Fifo!Bit, Bit, Flip
<1>6. ASSUME Fifo!BuildReady, ~readStart PROVE Fifo!BuildReady'
  <2>1. ~buildActive /\ ~occupied[writeSlot] /\ ~accepted /\ ~last
    BY <1>4, <1>6 DEF Fifo!BuildReady, Stored, StoresLast
  <2>2. ~buildActive' /\ writeSlot' = writeSlot
    BY <1>5, <2>1
  <2>3. ~occupied'[writeSlot]
    BY <1>5, <1>7, <1>6, <2>1
  <2> QED
    BY <2>2, <2>3 DEF Fifo!BuildReady
<1> QED
  BY <1>4, <1>5, <1>6, <1>7

(* What it does to the read DMA: its place in the frame.                     *)
Pushed(axi) == dmaState # "IDLE" /\ Dma!Pushes(axi)
DmaMoved(axi) ==
    /\ dmaState' \in Dma!DmaStates
    /\ dmaState' = "IDLE" <=> IF dmaState = "IDLE" THEN ~readStart
                              ELSE Pushed(axi) /\ dataIndex = Beats - 1
    /\ dmaDone' = (Pushed(axi) /\ dataIndex = Beats - 1)
    /\ dmaBusy' = (dmaState' # "IDLE")
    /\ dataIndex' = IF dmaState = "IDLE" THEN IF readStart THEN 0 ELSE dataIndex
                    ELSE IF Pushed(axi) /\ dataIndex # Beats - 1 THEN dataIndex + 1
                    ELSE dataIndex
    /\ dmaHart' = IF dmaState = "IDLE" /\ readStart THEN hart ELSE dmaHart

LEMMA DmaMoves ==
    ASSUME DumpTypes, Sequencing, Streaming, Bursting,
           NEW axi, Dma!DmaStep(ReadRequest, axi, buildActive)
    PROVE  DmaMoved(axi)
<1> DEFINE request == ReadRequest
<1>0. request.valid = readStart /\ request.hart = hart
  BY DEF ReadRequest
<1>t. /\ dmaState \in Dma!DmaStates /\ dataIndex \in Nat /\ beatsRemaining \in Nat
      /\ dmaBusy \in BOOLEAN /\ dmaDone \in BOOLEAN
      /\ burstIndex \in Nat /\ burstBeats \in Nat
  BY DEF DumpTypes
<1>b. dmaBusy <=> dmaState # "IDLE"
  BY DEF Sequencing
<1>d. dmaState = "IDLE" => ~Pushed(axi)
  BY DEF Pushed
<1> HIDE DEF request
<1>1. CASE Dma!DmaIdle(request)
  BY <1>0, <1>1, <1>d DEF Dma!DmaIdle, DmaMoved, Dma!DmaStates
<1>2. CASE Dma!DmaStart(request)
  BY <1>0, <1>2, <1>d DEF Dma!DmaStart, DmaMoved, Dma!DmaStates
<1>3. CASE Dma!DmaPlan
  BY <1>b, <1>3 DEF Dma!DmaPlan, DmaMoved, Dma!DmaStates, Pushed, Dma!Pushes
<1>4. CASE Dma!DmaAddress(axi)
  BY <1>b, <1>4 DEF Dma!DmaAddress, DmaMoved, Dma!DmaStates, Pushed, Dma!Pushes
<1>5. CASE Dma!DmaWait(axi)
  BY <1>b, <1>5, <1>t DEF Dma!DmaWait, DmaMoved, Pushed, Dma!Pushes
<1>6. CASE Dma!DmaData(axi)
  <2>1. Pushed(axi) /\ dmaState = "R"
    BY <1>6 DEF Dma!DmaData, Pushed, Dma!Pushes
  <2>2. dataIndex = Beats - 1 => beatsRemaining = 1 /\ burstIndex = burstBeats - 1
    <3>1. Reading
      BY <2>1 DEF Reading
    <3>2. /\ beatsRemaining # 0 /\ dataIndex + beatsRemaining <= Beats
          /\ burstIndex < burstBeats /\ burstBeats <= burstIndex + beatsRemaining
      BY <1>t, <2>1, <3>1, FrameHasBeats DEF Bursting, Behind
    <3> QED
      BY <1>t, <3>2, DumpSizes
  <2> QED
    BY <1>6, <2>1, <2>2 DEF Dma!DmaData, DmaMoved, Dma!DmaStates, Dma!LastIndex, Dma!LastOfBurst
<1>7. CASE Dma!DmaPad
  <2>1. Pushed(axi)
    BY <1>7 DEF Dma!DmaPad, Pushed, Dma!Pushes
  <2> QED
    BY <1>7, <2>1 DEF Dma!DmaPad, DmaMoved, Dma!DmaStates, Dma!LastIndex
<1> QED
  BY <1>1, <1>2, <1>3, <1>4, <1>5, <1>6, <1>7 DEF Dma!DmaStep, request

(* What it does to the sequencer: a frame that is read is waited for, a      *)
(* frame just read is counted, a new one is asked for when nothing is read.  *)
SeqMoved ==
    /\ Reading /\ ~dmaDone =>
          /\ ~readStart' /\ ~buildStart'
          /\ UNCHANGED <<seqState, hart, frameNumber, recordsRemaining,
                         activeRecords, buildNumber>>
    /\ dmaDone => SeqReadDone
    /\ ~Reading =>
          \/ /\ seqState = "DATA" /\ recordsRemaining # 0 /\ Fifo!BuildReady
             /\ readStart' /\ buildStart'
             /\ activeRecords' = FrameRecords /\ buildNumber' = frameNumber
             /\ UNCHANGED <<seqState, hart, frameNumber, recordsRemaining>>
          \/ /\ ~readStart' /\ ~buildStart'
             /\ UNCHANGED <<seqState, hart, frameNumber, recordsRemaining>>
             /\ activeRecords' = activeRecords /\ buildNumber' = buildNumber
          \/ /\ ~readStart' /\ ~buildStart'
             /\ hart' \in Harts /\ frameNumber' = 0 /\ buildNumber' = 0
             /\ recordsRemaining' = written[hart']
             /\ activeRecords' \in {0, activeRecords}
             /\ seqState' = IF written[hart'] = 0 THEN "DRAIN" ELSE "DATA"
          \/ /\ ~readStart' /\ ~buildStart'
             /\ seqState' \in SeqStates \ {"DATA"}
             /\ UNCHANGED <<hart, frameNumber, recordsRemaining>>
             /\ activeRecords' = activeRecords /\ buildNumber' = buildNumber

LEMMA SeqMoves ==
    ASSUME DumpTypes, Sequencing, NEW start, SeqStep(start)
    PROVE  SeqMoved
<1>1. CASE SeqBegin(start)
  BY <1>1 DEF SeqBegin, SeqMoved, NoRequest, Sequencing, Reading, Harts, Bit
<1>2. CASE SeqRest(start)
  BY <1>2 DEF SeqRest, SeqMoved, NoRequest, Sequencing, Reading
<1>3. CASE SeqPlan
  <2>1. ~Reading /\ recordsRemaining # 0 /\ Fifo!BuildReady
    BY <1>3 DEF SeqPlan, CanPlan, Reading, Sequencing
  <2> QED
    BY <1>3, <2>1 DEF SeqPlan, SeqMoved, FrameRecords, Reading
<1>4. CASE SeqReadDone
  BY <1>4 DEF SeqReadDone, SeqMoved, Reading
<1>5. CASE SeqHold
  BY <1>5 DEF SeqHold, SeqMoved, NoRequest, Sequencing, Reading
<1>6. CASE SeqDrained
  BY <1>6 DEF SeqDrained, SeqMoved, NoRequest, Sequencing, Reading, SeqStates
<1>7. CASE SeqDoneStart
  BY <1>7 DEF SeqDoneStart, SeqMoved, NoRequest, Sequencing, Reading, SeqStates
<1>8. CASE SeqHart0Done
  BY <1>8 DEF SeqHart0Done, SeqMoved, NoRequest, Sequencing, Reading, Harts, Bit
<1>9. CASE SeqHart1Done
  BY <1>9 DEF SeqHart1Done, SeqMoved, NoRequest, Sequencing, Reading, SeqStates
<1> QED
  BY <1>1, <1>2, <1>3, <1>4, <1>5, <1>6, <1>7, <1>8, <1>9 DEF SeqStep

-----------------------------------------------------------------------------
LEMMA TailConsecutive ==
    ASSUME NEW queue \in Seq(Entries), queue # <<>>, NEW from \in Nat,
           Consecutive(queue, from)
    PROVE  /\ Tail(queue) \in Seq(Entries) /\ Len(Tail(queue)) = Len(queue) - 1
           /\ Consecutive(Tail(queue), from + 1)
<1>1. /\ Tail(queue) \in Seq(Entries) /\ Len(Tail(queue)) = Len(queue) - 1
      /\ Len(queue) \in Nat /\ Len(queue) >= 1
      /\ \A i \in 1 .. Len(queue) - 1 : Tail(queue)[i] = queue[i + 1]
  OBVIOUS
<1>2. ASSUME NEW i \in 1 .. Len(Tail(queue))
      PROVE  /\ Tail(queue)[i].index = (from + 1) + (i - 1)
             /\ Tail(queue)[i].last = (Tail(queue)[i].index = Beats - 1)
  <2>1. i \in 1 .. Len(queue) - 1 /\ i + 1 \in 1 .. Len(queue) /\ i \in Int
    BY <1>1
  <2>2. /\ queue[i + 1].index = from + ((i + 1) - 1)
        /\ queue[i + 1].last = (queue[i + 1].index = Beats - 1)
    BY <2>1 DEF Consecutive
  <2>3. from + ((i + 1) - 1) = (from + 1) + (i - 1)
    BY <2>1
  <2> QED
    BY <1>1, <2>1, <2>2, <2>3
<1> QED
  BY <1>1, <1>2 DEF Consecutive

LEMMA AppendConsecutive ==
    ASSUME NEW queue \in Seq(Entries), NEW from \in Nat, Consecutive(queue, from),
           NEW entry \in Entries, entry.index = from + Len(queue),
           entry.last = (entry.index = Beats - 1)
    PROVE  /\ Append(queue, entry) \in Seq(Entries)
           /\ Len(Append(queue, entry)) = Len(queue) + 1
           /\ Consecutive(Append(queue, entry), from)
<1> DEFINE n == Len(queue)
<1>1. /\ Append(queue, entry) \in Seq(Entries) /\ Len(Append(queue, entry)) = n + 1
      /\ n \in Nat /\ Append(queue, entry)[n + 1] = entry
      /\ \A i \in 1 .. n : Append(queue, entry)[i] = queue[i]
  OBVIOUS
<1> HIDE DEF n
<1>2. ASSUME NEW i \in 1 .. n + 1
      PROVE  /\ Append(queue, entry)[i].index = from + (i - 1)
             /\ Append(queue, entry)[i].last = (Append(queue, entry)[i].index = Beats - 1)
  <2>1. CASE i = n + 1
    <3>1. from + n = from + (i - 1)
      BY <1>1, <2>1
    <3> QED
      BY <1>1, <2>1, <3>1 DEF n
  <2>2. CASE i # n + 1
    <3>1. i \in 1 .. n
      BY <1>1, <2>2
    <3> QED
      BY <1>1, <3>1 DEF Consecutive, n
  <2> QED
    BY <2>1, <2>2
<1> QED
  BY <1>1, <1>2 DEF Consecutive

One(b) == IF b THEN 1 ELSE 0

(* The elastic queue after an edge, and the index the next beat is for.      *)
ElasticMoved(axi) ==
    /\ elastic' \in Seq(Entries) /\ Len(elastic') <= 2
    /\ Len(elastic') = (Len(elastic) + One(Pushed(axi))) - One(Stored)
    /\ Consecutive(elastic', expectedIndex + One(Stored))

LEMMA ElasticMoves ==
    ASSUME DumpTypes, Streaming, NEW axi, Dma!DmaStep(ReadRequest, axi, buildActive)
    PROVE  ElasticMoved(axi)
<1> DEFINE left == IF Stored THEN Tail(elastic) ELSE elastic
           entry == Dma!Entry(IF dmaState = "PAD" THEN Dma!ZeroBeat ELSE Dma!MemoryBeat)
<1>1. /\ Dma!Pushes(axi) <=> Pushed(axi)
      /\ Pushed(axi) => dmaState # "IDLE" /\ Len(elastic) # 2
  BY DEF Pushed, Dma!Pushes, Dma!ElasticReady
<1>2. elastic' = IF Pushed(axi) THEN Append(left, entry) ELSE left
  BY <1>1 DEF Dma!DmaStep, Dma!ElasticStep, Stored
<1>3. elastic \in Seq(Entries) /\ Len(elastic) \in Nat /\ Len(elastic) <= 2
  BY DEF DumpTypes
<1>4. expectedIndex \in Nat /\ Consecutive(elastic, expectedIndex)
  BY DEF DumpTypes, Streaming
<1>5. /\ left \in Seq(Entries) /\ Len(left) = Len(elastic) - One(Stored)
      /\ Consecutive(left, expectedIndex + One(Stored))
  <2>1. CASE Stored
    <3>1. elastic # <<>>
      BY <2>1 DEF Stored
    <3> QED
      BY <1>3, <1>4, <2>1, <3>1, TailConsecutive DEF One
  <2>2. CASE ~Stored
    BY <1>3, <1>4, <2>2 DEF One
  <2> QED
    BY <2>1, <2>2
<1>6. ASSUME Pushed(axi)
      PROVE  entry \in Entries /\ entry.index = expectedIndex + Len(elastic)
             /\ entry.last = (entry.index = Beats - 1)
  <2>1. Dma!ZeroBeat \in Padded \X Padded /\ Dma!MemoryBeat \in Padded \X Padded
    BY DEF Dma!ZeroBeat, Dma!MemoryBeat, Padded, DumpTypes
  <2>2. /\ entry.index = dataIndex /\ entry.last = (dataIndex = Beats - 1)
        /\ entry \in Entries
    BY <2>1 DEF Dma!Entry, Dma!LastIndex, Entries, DumpTypes
  <2>3. dataIndex = expectedIndex + Len(elastic)
    BY <1>1, <1>6 DEF Streaming
  <2> QED
    BY <2>2, <2>3
<1> DEFINE from == expectedIndex + One(Stored)
<1>7. from \in Nat /\ One(Stored) \in Nat /\ One(Stored) <= Len(elastic)
  BY <1>3, <1>4 DEF One, Stored
<1> HIDE DEF left, entry, from
<1>8. CASE Pushed(axi)
  <2>1. from + Len(left) = expectedIndex + Len(elastic)
    BY <1>3, <1>4, <1>5, <1>7 DEF from
  <2>2. /\ Append(left, entry) \in Seq(Entries) /\ Len(Append(left, entry)) = Len(left) + 1
        /\ Consecutive(Append(left, entry), from)
    BY <1>5, <1>6, <1>7, <1>8, <2>1, AppendConsecutive DEF from
  <2>3. /\ Len(left) + 1 = (Len(elastic) + One(Pushed(axi))) - One(Stored)
        /\ Len(left) + 1 <= 2
    <3> DEFINE out == One(Stored)
               len == Len(elastic)
               rest == Len(left)
    <3>1. One(Pushed(axi)) = 1
      BY <1>8 DEF One
    <3>2. /\ out \in Nat /\ len \in Nat /\ len <= 2 /\ len # 2 /\ rest = len - out
      BY <1>1, <1>3, <1>5, <1>7, <1>8
    <3> HIDE DEF out, len, rest
    <3>3. rest + 1 = (len + 1) - out /\ rest + 1 <= 2
      BY <3>2
    <3> QED
      BY <3>1, <3>3 DEF out, len, rest
  <2> QED
    BY <1>2, <1>8, <2>2, <2>3 DEF ElasticMoved, from
<1>9. CASE ~Pushed(axi)
  <2>1. /\ Len(left) = (Len(elastic) + One(Pushed(axi))) - One(Stored)
        /\ Len(left) <= 2
    BY <1>3, <1>5, <1>7, <1>9 DEF One
  <2> QED
    BY <1>2, <1>5, <1>9, <2>1 DEF ElasticMoved, from
<1> QED
  BY <1>8, <1>9

-----------------------------------------------------------------------------
(* One edge of the UI clock, part by part.                                   *)
UiMoved(axi) ==
    /\ SeqMoved /\ DmaMoved(axi) /\ ElasticMoved(axi)
    /\ buildActive' = (readStart \/ (buildActive /\ ~StoresLast))
    /\ expectedIndex' = IF readStart \/ StoresLast THEN 0
                        ELSE IF Stored THEN expectedIndex + 1 ELSE expectedIndex
    /\ Fifo!BuildReady /\ ~readStart => Fifo!BuildReady'
    /\ writeSlot' \in Bit /\ written' = written
    /\ readStart' \in BOOLEAN /\ buildStart' \in BOOLEAN

(* The frame's last beat is stored only when nothing more is to come.        *)
LEMMA LastIsLast ==
    ASSUME DumpTypes, Streaming, StoresLast
    PROVE  dmaState = "IDLE" /\ Len(elastic) = 1
<1> DEFINE n == Len(elastic)
<1>1. n \in Nat /\ n # 0 /\ buildActive /\ expectedIndex = Beats - 1
  BY DEF StoresLast, Stored, DumpTypes
<1>2. /\ dmaState # "IDLE" => dataIndex < Beats /\ expectedIndex + n = dataIndex
      /\ dmaState = "IDLE" => expectedIndex + n = Beats
      /\ dataIndex \in Nat
  BY <1>1 DEF Streaming, DumpTypes
<1> HIDE DEF n
<1>3. dmaState = "IDLE" /\ n = 1
  BY <1>1, <1>2, DumpSizes
<1> QED
  BY <1>3 DEF n

LEMMA StreamingKept ==
    ASSUME ReadInv, NEW axi, UiMoved(axi)
    PROVE  Streaming'
<1>t. DumpTypes /\ Sequencing /\ Streaming
  BY DEF ReadInv
<1> DEFINE n == Len(elastic)
           m == Len(elastic')
           k == expectedIndex
           d == dataIndex
<1>1. n \in Nat /\ n <= 2 /\ k \in Nat /\ d \in Nat /\ m \in Nat
  BY <1>t DEF DumpTypes, UiMoved, ElasticMoved
<1>2. /\ elastic' \in Seq(Entries) /\ m = (n + One(Pushed(axi))) - One(Stored)
      /\ Consecutive(elastic', k + One(Stored))
  BY DEF UiMoved, ElasticMoved
<1>3. elastic' = <<>> <=> m = 0
  BY <1>2
<1>4. elastic = <<>> <=> n = 0
  BY <1>t DEF DumpTypes
<1> SUFFICES /\ buildActive' => expectedIndex' < Beats
             /\ dmaState' # "IDLE" => /\ buildActive' /\ dmaHart' = hart' /\ dataIndex' < Beats
                                      /\ expectedIndex' + m = dataIndex'
             /\ dmaState' = "IDLE" /\ buildActive' => expectedIndex' + m = Beats
             /\ ~buildActive' => m = 0 /\ expectedIndex' = 0
             /\ Consecutive(elastic', expectedIndex')
  BY <1>3 DEF Streaming
<1>5. DmaMoved(axi) /\ SeqMoved
  BY DEF UiMoved
<1>6. CASE readStart
  <2>1. /\ dmaState = "IDLE" /\ ~buildActive /\ n = 0 /\ ~Stored /\ ~Pushed(axi)
        /\ Reading /\ ~dmaDone
    BY <1>t, <1>4, <1>6 DEF Sequencing, Streaming, Fifo!BuildReady, Stored, Pushed, Reading
  <2>2. m = 0 /\ elastic' = <<>>
    BY <1>1, <1>2, <1>3, <2>1 DEF One
  <2>3. /\ dmaState' # "IDLE" /\ dataIndex' = 0 /\ dmaHart' = hart /\ hart' = hart
        /\ buildActive' /\ expectedIndex' = 0
    BY <1>5, <1>6, <2>1 DEF DmaMoved, SeqMoved, UiMoved
  <2> QED
    BY <2>2, <2>3, DumpSizes DEF Consecutive
<1>7. CASE StoresLast /\ ~readStart
  <2>1. dmaState = "IDLE" /\ n = 1 /\ Stored /\ ~Pushed(axi)
    BY <1>t, <1>7, LastIsLast DEF StoresLast, Pushed
  <2>2. m = 0 /\ elastic' = <<>>
    BY <1>1, <1>2, <1>3, <2>1 DEF One
  <2>3. dmaState' = "IDLE" /\ ~buildActive' /\ expectedIndex' = 0
    BY <1>5, <1>7, <2>1 DEF DmaMoved, UiMoved
  <2> QED
    BY <2>2, <2>3 DEF Consecutive
<1>8. CASE ~StoresLast /\ ~readStart
  <2>1. buildActive' = buildActive /\ expectedIndex' = k + One(Stored)
    BY <1>1, <1>8, <1>t DEF UiMoved, One, DumpTypes
  <2>2. CASE ~buildActive
    <3>1. dmaState = "IDLE" /\ n = 0 /\ k = 0 /\ ~Stored /\ ~Pushed(axi)
      BY <1>t, <1>4, <2>2 DEF Streaming, Stored, Pushed
    <3>2. m = 0 /\ dmaState' = "IDLE" /\ expectedIndex' = 0
      BY <1>1, <1>2, <1>5, <1>8, <2>1, <3>1 DEF One, DmaMoved
    <3> QED
      BY <1>2, <2>1, <2>2, <3>2
  <2>3. CASE buildActive
    <3>1. /\ k < Beats
          /\ dmaState # "IDLE" => dmaHart = hart /\ d < Beats /\ k + n = d
          /\ dmaState = "IDLE" => k + n = Beats
      BY <1>t, <2>3 DEF Streaming
    <3>2. expectedIndex' < Beats
      BY <1>1, <1>8, <2>1, <2>3, <3>1, DumpSizes DEF StoresLast, One
    <3>3. expectedIndex' + m = k + n + One(Pushed(axi))
      <4> DEFINE in == One(Pushed(axi))
                 out == One(Stored)
      <4>1. in \in Nat /\ out \in Nat
        BY DEF One
      <4>2. expectedIndex' = k + out /\ m = (n + in) - out
        BY <1>2, <2>1
      <4> HIDE DEF in, out, k, n, m
      <4>3. expectedIndex' + m = k + n + in
        BY <1>1, <4>1, <4>2
      <4> QED
        BY <4>3 DEF in, k, n, m
    <3>4. CASE dmaState = "IDLE"
      <4>1. ~Pushed(axi) /\ dmaState' = "IDLE"
        BY <1>5, <1>8, <3>4 DEF Pushed, DmaMoved
      <4> QED
        BY <1>1, <1>2, <2>1, <2>3, <3>1, <3>2, <3>3, <3>4, <4>1 DEF One
    <3>5. CASE dmaState # "IDLE" /\ ~Pushed(axi)
      <4>1. dmaState' # "IDLE" /\ dataIndex' = d /\ dmaHart' = dmaHart
        BY <1>5, <3>5 DEF DmaMoved
      <4>2. hart' = hart
        BY <1>5, <1>t, <3>5 DEF SeqMoved, Reading, Sequencing
      <4> QED
        BY <1>1, <1>2, <2>1, <2>3, <3>1, <3>2, <3>3, <3>5, <4>1, <4>2 DEF One
    <3>6. CASE dmaState # "IDLE" /\ Pushed(axi) /\ d # Beats - 1
      <4>1. dmaState' # "IDLE" /\ dataIndex' = d + 1 /\ dmaHart' = dmaHart
        BY <1>5, <3>6 DEF DmaMoved
      <4>2. hart' = hart
        BY <1>5, <1>t, <3>6 DEF SeqMoved, Reading, Sequencing
      <4>3. d + 1 < Beats /\ expectedIndex' + m = d + 1
        BY <1>1, <3>1, <3>3, <3>6, DumpSizes DEF One
      <4> QED
        BY <1>1, <1>2, <2>1, <2>3, <3>1, <3>2, <3>6, <4>1, <4>2, <4>3
    <3>7. CASE dmaState # "IDLE" /\ Pushed(axi) /\ d = Beats - 1
      <4>1. dmaState' = "IDLE"
        BY <1>5, <3>7 DEF DmaMoved
      <4>2. expectedIndex' + m = Beats
        BY <1>1, <3>1, <3>3, <3>7, DumpSizes DEF One
      <4> QED
        BY <1>2, <2>1, <2>3, <3>2, <4>1, <4>2
    <3> QED
      BY <3>4, <3>5, <3>6, <3>7
  <2> QED
    BY <2>2, <2>3
<1> QED
  BY <1>6, <1>7, <1>8

LEMMA SequencingKept ==
    ASSUME ReadInv, NEW axi, UiMoved(axi), \A h \in Harts : written[h] \in Nat
    PROVE  Sequencing' /\ (Reading' /\ ~Reading => readStart')
<1>t. DumpTypes /\ Sequencing
  BY DEF ReadInv
<1>m. SeqMoved /\ DmaMoved(axi) /\ written' = written
  BY DEF UiMoved
<1> DEFINE P == RecordsPerFrame * frameNumber
<1>p. P \in Nat /\ recordsRemaining \in Nat /\ frameNumber \in Nat
  BY <1>t, DumpSizes DEF DumpTypes
<1>d. (dmaBusy' <=> dmaState' # "IDLE") /\ (dmaDone' => dmaState' = "IDLE" /\ Pushed(axi))
  BY <1>m DEF DmaMoved, Pushed
<1>1. CASE Reading /\ ~dmaDone
  <2>1. /\ ~readStart' /\ ~buildStart' /\ seqState = "DATA"
        /\ UNCHANGED <<seqState, hart, frameNumber, recordsRemaining, activeRecords, buildNumber>>
        /\ activeRecords = FrameRecords /\ buildNumber = frameNumber
    BY <1>1, <1>m, <1>t DEF SeqMoved, Sequencing
  <2>2. FrameRecords' = FrameRecords
    BY <2>1 DEF FrameRecords
  <2>3. buildStart' = readStart'
    BY <2>1 DEF UiMoved
  <2> QED
    BY <1>1, <1>m, <1>t, <1>d, <2>1, <2>2, <2>3 DEF Sequencing
<1>2. CASE dmaDone
  <2>1. /\ SeqReadDone /\ dmaState = "IDLE" /\ ~readStart /\ Reading
    BY <1>2, <1>m, <1>t DEF SeqMoved, Sequencing, Reading
  <2>2. dmaState' = "IDLE" /\ ~dmaDone' /\ ~readStart' /\ buildStart' = readStart'
    BY <1>m, <2>1 DEF DmaMoved, SeqReadDone, NoRequest, Pushed
  <2>3. /\ seqState = "DATA" /\ P + recordsRemaining = written[hart]
        /\ activeRecords = FrameRecords
    BY <1>t, <2>1 DEF Sequencing
  <2>4. seqState' = "DATA" =>
           /\ recordsRemaining > activeRecords /\ recordsRemaining' = recordsRemaining - activeRecords
           /\ frameNumber' = frameNumber + 1 /\ hart' = hart
    BY <1>t, <2>1 DEF SeqReadDone, DumpTypes
  <2>5. RecordsPerFrame * (frameNumber + 1) = P + RecordsPerFrame
    BY <1>p, DumpSizes
  <2>6. RecordsPerFrame \in Nat
    BY DumpSizes
  <2>7. seqState' = "DATA" => recordsRemaining' # 0 /\ recordsRemaining' = recordsRemaining - RecordsPerFrame
    BY <1>p, <2>3, <2>4, <2>6 DEF FrameRecords
  <2> HIDE DEF P
  <2>8. seqState' = "DATA" => P + RecordsPerFrame + recordsRemaining' = written[hart]
    BY <1>p, <2>3, <2>6, <2>7
  <2>9. seqState' = "DATA" => RecordsPerFrame * frameNumber' + recordsRemaining' = written'[hart']
    BY <1>m, <2>4, <2>5, <2>8
  <2> QED
    BY <1>d, <2>2, <2>7, <2>9 DEF Sequencing, Reading
<1>3. CASE ~Reading
  <2>1. dmaState = "IDLE" /\ ~readStart /\ dmaState' = "IDLE" /\ ~dmaDone'
    BY <1>3, <1>m DEF Reading, DmaMoved, Pushed
  <2>2. CASE readStart'
    <3>1. /\ seqState = "DATA" /\ recordsRemaining # 0 /\ Fifo!BuildReady
          /\ readStart' /\ buildStart'
          /\ activeRecords' = FrameRecords /\ buildNumber' = frameNumber
          /\ UNCHANGED <<seqState, hart, frameNumber, recordsRemaining>>
      BY <1>3, <1>m, <2>2 DEF SeqMoved
    <3>2. FrameRecords' = FrameRecords
      BY <3>1 DEF FrameRecords
    <3>3. Fifo!BuildReady'
      BY <2>1, <3>1 DEF UiMoved
    <3>4. readStart' \in BOOLEAN /\ buildStart' \in BOOLEAN
      BY DEF UiMoved
    <3> QED
      BY <1>d, <1>m, <1>t, <2>1, <2>2, <3>1, <3>2, <3>3, <3>4 DEF Sequencing
  <2>3. CASE ~readStart'
    <3>1. ~Reading' /\ ~buildStart'
      BY <1>3, <1>m, <2>1, <2>3 DEF Reading, SeqMoved
    <3>2. readStart' \in BOOLEAN /\ buildStart' \in BOOLEAN
      BY DEF UiMoved
    <3>3. seqState' = "DATA" => /\ recordsRemaining' # 0
                                /\ RecordsPerFrame * frameNumber' + recordsRemaining' = written'[hart']
      <4>1. CASE UNCHANGED <<seqState, hart, frameNumber, recordsRemaining>>
        BY <1>m, <1>t, <4>1 DEF Sequencing
      <4>2. CASE /\ hart' \in Harts /\ frameNumber' = 0 /\ recordsRemaining' = written[hart']
                 /\ seqState' = IF written[hart'] = 0 THEN "DRAIN" ELSE "DATA"
        <5>1. written[hart'] \in Nat /\ RecordsPerFrame * 0 = 0
          BY <4>2, DumpSizes
        <5> QED
          BY <1>m, <4>2, <5>1
      <4>3. CASE seqState' # "DATA"
        BY <4>3
      <4> QED
        BY <1>3, <1>m, <2>3, <4>1, <4>2, <4>3 DEF SeqMoved
    <3> QED
      BY <1>d, <2>1, <2>3, <3>1, <3>2, <3>3 DEF Sequencing
  <2> QED
    BY <2>1, <2>2, <2>3 DEF Reading
<1> QED
  BY <1>1, <1>2, <1>3

(* A burst that stays inside its page is planned.                            *)
LEMMA PlanFits ==
    ASSUME DumpTypes, beatsRemaining # 0
    PROVE  /\ Dma!PlannedBeats \in Nat /\ Dma!PlannedBeats # 0
           /\ Dma!PlannedBeats <= beatsRemaining
           /\ (address % PageBeats) + Dma!PlannedBeats <= PageBeats
<1> DEFINE within == address % PageBeats
<1>1. within \in Nat /\ within < PageBeats
  BY DumpSizes DEF DumpTypes
<1>2. beatsRemaining \in Nat
  BY DEF DumpTypes
<1>3. Dma!PlannedBeats = IF beatsRemaining > PageBeats - within THEN PageBeats - within
                         ELSE beatsRemaining
  BY DEF Dma!PlannedBeats, Dma!BeatsToPageEnd
<1> HIDE DEF within
<1>4. /\ Dma!PlannedBeats \in Nat /\ Dma!PlannedBeats # 0
      /\ Dma!PlannedBeats <= beatsRemaining
      /\ within + Dma!PlannedBeats <= PageBeats
  BY <1>1, <1>2, <1>3, DumpSizes
<1> QED
  BY <1>4 DEF within

LEMMA BurstingKept ==
    ASSUME ReadInv, NEW axi, UiMoved(axi), Dma!DmaStep(ReadRequest, axi, buildActive)
    PROVE  /\ Bursting'
           /\ address' \in Nat /\ beatsRemaining' \in Nat /\ burstBeats' \in Nat
           /\ burstIndex' \in Nat /\ dataIndex' \in Nat
<1>t. DumpTypes /\ Sequencing /\ Bursting
  BY DEF ReadInv
<1>m. SeqMoved /\ DmaMoved(axi)
  BY DEF UiMoved
<1> DEFINE request == ReadRequest
           whole == Dma!BeatsFor(activeRecords)
           first == Beats * frameNumber
<1>0. /\ request.valid = readStart /\ request.hart = hart
      /\ request.number = frameNumber /\ request.records = activeRecords
  BY DEF ReadRequest
<1>n. /\ address \in Nat /\ beatsRemaining \in Nat /\ burstBeats \in Nat
      /\ burstIndex \in Nat /\ dataIndex \in Nat /\ first \in Nat
  BY <1>t, DumpSizes DEF DumpTypes
<1>k. readStart \/ dmaState # "IDLE" =>
          /\ activeRecords' = activeRecords /\ frameNumber' = frameNumber
          /\ whole \in Nat /\ whole >= 1 /\ whole <= Beats
  BY <1>t, <1>m, FrameHasBeats DEF SeqMoved, Reading, Sequencing
<1>g. /\ dmaState \in {"PLAN", "AR", "R"} =>
            /\ beatsRemaining # 0 /\ dataIndex + beatsRemaining = whole
            /\ address = first + dataIndex
      /\ dmaState \in {"AR", "R"} =>
            /\ Behind < burstBeats /\ Behind <= address
            /\ burstBeats <= Behind + beatsRemaining
            /\ ((address - Behind) % PageBeats) + burstBeats <= PageBeats
  BY <1>t DEF Bursting
<1>s. SUFFICES
        /\ dmaState' \in {"PLAN", "AR", "R"} =>
              /\ activeRecords' = activeRecords /\ frameNumber' = frameNumber
              /\ beatsRemaining' # 0
              /\ dataIndex' + beatsRemaining' = whole
              /\ address' = first + dataIndex'
        /\ dmaState' \in {"AR", "R"} =>
              /\ Behind' < burstBeats' /\ Behind' <= address'
              /\ burstBeats' <= Behind' + beatsRemaining'
              /\ ((address' - Behind') % PageBeats) + burstBeats' <= PageBeats
        /\ address' \in Nat /\ beatsRemaining' \in Nat /\ burstBeats' \in Nat
        /\ burstIndex' \in Nat /\ dataIndex' \in Nat
  BY DEF Bursting
<1> HIDE DEF request, whole, first
<1>1. CASE Dma!DmaIdle(request)
  BY <1>1, <1>n DEF Dma!DmaIdle
<1>2. CASE Dma!DmaStart(request)
  <2>1. /\ readStart /\ dmaState' = "PLAN" /\ dataIndex' = 0
        /\ address' = first /\ beatsRemaining' = whole
        /\ UNCHANGED <<burstBeats, burstIndex>>
    BY <1>0, <1>2 DEF Dma!DmaStart, first, whole
  <2> QED
    BY <1>k, <1>n, <2>1
<1>3. CASE Dma!DmaPlan
  <2>1. /\ dmaState = "PLAN" /\ dmaState' = "AR"
        /\ burstBeats' = Dma!PlannedBeats /\ burstIndex' = 0
        /\ UNCHANGED <<address, beatsRemaining, dataIndex>>
    BY <1>3 DEF Dma!DmaPlan
  <2>2. Behind' = 0
    BY <2>1 DEF Behind
  <2>3. address' - Behind' = address
    BY <1>n, <2>1, <2>2
  <2>4. beatsRemaining # 0 /\ dataIndex + beatsRemaining = whole /\ address = first + dataIndex
    BY <1>g, <2>1
  <2>5. /\ Dma!PlannedBeats \in Nat /\ Dma!PlannedBeats # 0
        /\ Dma!PlannedBeats <= beatsRemaining
        /\ (address % PageBeats) + Dma!PlannedBeats <= PageBeats
    BY <1>t, <2>4, PlanFits
  <2> QED
    BY <1>k, <1>n, <2>1, <2>2, <2>3, <2>4, <2>5
<1>4. CASE Dma!DmaAddress(axi)
  <2>1. /\ dmaState = "AR" /\ dmaState' \in {"AR", "R"}
        /\ burstIndex' \in {0, burstIndex}
        /\ dmaState' = "R" => burstIndex' = 0
        /\ UNCHANGED <<address, beatsRemaining, dataIndex, burstBeats>>
    BY <1>4 DEF Dma!DmaAddress
  <2>2. Behind' = 0 /\ Behind = 0
    BY <2>1 DEF Behind
  <2> QED
    BY <1>k, <1>n, <1>g, <2>1, <2>2
<1>5. CASE Dma!DmaWait(axi)
  <2>1. /\ dmaState \in {"R", "PAD"}
        /\ UNCHANGED <<dmaState, address, beatsRemaining, dataIndex, burstBeats, burstIndex>>
    BY <1>5 DEF Dma!DmaWait
  <2>2. Behind' = Behind
    BY <2>1 DEF Behind
  <2> QED
    BY <1>k, <1>n, <1>g, <2>1, <2>2
<1>6. CASE Dma!DmaData(axi)
  <2>1. /\ dmaState = "R" /\ address' = address + 1
        /\ beatsRemaining' = beatsRemaining - 1
        /\ dataIndex' = IF dataIndex = Beats - 1 THEN dataIndex ELSE dataIndex + 1
        /\ burstIndex' = IF burstIndex = burstBeats - 1 THEN burstIndex ELSE burstIndex + 1
        /\ burstBeats' = burstBeats
        /\ dmaState' \in {"PLAN", "AR", "R"} =>
              /\ beatsRemaining # 1 \/ burstIndex # burstBeats - 1
              /\ dmaState' = IF burstIndex = burstBeats - 1 THEN "PLAN" ELSE "R"
    BY <1>6 DEF Dma!DmaData, Dma!LastIndex, Dma!LastOfBurst
  <2>2. /\ beatsRemaining # 0 /\ dataIndex + beatsRemaining = whole /\ address = first + dataIndex
        /\ burstIndex < burstBeats /\ burstIndex <= address
        /\ burstBeats <= burstIndex + beatsRemaining
        /\ ((address - burstIndex) % PageBeats) + burstBeats <= PageBeats
        /\ whole <= Beats
    BY <1>g, <1>k, <2>1 DEF Behind
  <2>3. /\ beatsRemaining' \in Nat /\ address' \in Nat /\ burstBeats' \in Nat
        /\ burstIndex' \in Nat /\ dataIndex' \in Nat
    BY <1>n, <2>1, <2>2
  <2>4. CASE dmaState' \in {"PLAN", "AR", "R"}
    <3>1. beatsRemaining # 1
      BY <1>n, <2>1, <2>2, <2>4
    <3>2. /\ dataIndex # Beats - 1 /\ dataIndex' = dataIndex + 1
          /\ beatsRemaining' # 0 /\ dataIndex' + beatsRemaining' = whole
          /\ address' = first + dataIndex'
      BY <1>n, <1>k, <2>1, <2>2, <3>1, DumpSizes
    <3>3. dmaState' \in {"AR", "R"} =>
             /\ dmaState' = "R" /\ burstIndex' = burstIndex + 1
             /\ burstIndex # burstBeats - 1
      BY <2>1, <2>4
    <3>4. dmaState' \in {"AR", "R"} => Behind' = burstIndex + 1
      BY <3>3 DEF Behind
    <3>5. dmaState' \in {"AR", "R"} => (address' - Behind') = address - burstIndex
      BY <1>n, <2>1, <3>4
    <3>6. dmaState' \in {"AR", "R"} =>
             /\ Behind' < burstBeats' /\ Behind' <= address'
             /\ burstBeats' <= Behind' + beatsRemaining'
      BY <1>n, <2>1, <2>2, <3>3, <3>4
    <3> QED
      BY <1>k, <2>1, <2>2, <2>3, <3>2, <3>5, <3>6
  <2> QED
    BY <2>3, <2>4
<1>7. CASE Dma!DmaPad
  BY <1>n, <1>7 DEF Dma!DmaPad
<1> QED
  BY <1>1, <1>2, <1>3, <1>4, <1>5, <1>6, <1>7 DEF Dma!DmaStep, request

LEMMA DumpTypesKept ==
    ASSUME ReadInv, NEW axi, NEW start, UiMoved(axi), SeqStep(start),
           Dma!DmaStep(ReadRequest, axi, buildActive)
    PROVE  DumpTypes'
<1>t. DumpTypes /\ Sequencing
  BY DEF ReadInv
<1>m. SeqMoved /\ DmaMoved(axi) /\ ElasticMoved(axi) /\ written' = written
  BY DEF UiMoved
<1>1. /\ dmaState' \in Dma!DmaStates /\ dmaBusy' \in BOOLEAN /\ dmaDone' \in BOOLEAN
  BY <1>m, <1>t DEF DmaMoved, Pushed, Dma!Pushes, Dma!ElasticReady, DumpTypes
<1>2. hart' \in Harts /\ dmaHart' \in Harts
  <2>1. hart' \in Harts
    BY <1>t DEF DumpTypes, SeqStep, SeqBegin, SeqRest, SeqPlan, SeqReadDone, SeqHold,
       SeqDrained, SeqDoneStart, SeqHart0Done, SeqHart1Done, Harts, Bit
  <2> QED
    BY <1>m, <1>t, <2>1 DEF DmaMoved, DumpTypes
<1>3. seqState' \in SeqStates
  BY <1>t DEF DumpTypes, SeqStates, SeqStep, SeqBegin, SeqRest, SeqPlan, SeqReadDone, SeqHold,
     SeqDrained, SeqDoneStart, SeqHart0Done, SeqHart1Done
<1>4. /\ frameNumber' \in Nat /\ recordsRemaining' \in Nat
      /\ activeRecords' \in Nat /\ buildNumber' \in Nat
  <2>1. /\ frameNumber \in Nat /\ recordsRemaining \in Nat /\ RecordsPerFrame \in Nat
        /\ activeRecords \in Nat /\ buildNumber \in Nat
        /\ written[0] \in Nat /\ written[1] \in Nat
    BY <1>t, DumpSizes DEF DumpTypes, Harts, Bit
  <2>2. frameNumber + 1 \in Nat
    BY <2>1
  <2>3. ~(recordsRemaining <= activeRecords) => recordsRemaining - activeRecords \in Nat
    BY <2>1
  <2> QED
    BY <2>1, <2>2, <2>3 DEF SeqStep, SeqBegin, SeqRest, SeqPlan, SeqReadDone, SeqHold,
       SeqDrained, SeqDoneStart, SeqHart0Done, SeqHart1Done
<1>5. buildActive' \in BOOLEAN /\ expectedIndex' \in Nat /\ writeSlot' \in Bit
  BY <1>t DEF UiMoved, DumpTypes
<1>6. readStart' \in BOOLEAN /\ buildStart' \in BOOLEAN
  BY DEF UiMoved
<1>7. elastic' \in Seq(Entries) /\ Len(elastic') <= 2
  BY <1>m DEF ElasticMoved
<1>8. /\ address' \in Nat /\ beatsRemaining' \in Nat /\ burstBeats' \in Nat
      /\ burstIndex' \in Nat /\ dataIndex' \in Nat
  BY BurstingKept
<1> QED
  BY <1>t, <1>m, <1>1, <1>2, <1>3, <1>4, <1>5, <1>6, <1>7, <1>8 DEF DumpTypes

(* The parts of an edge follow from its registers.                           *)
LEMMA UiMoves ==
    ASSUME ReadInv, NEW axi, NEW start, UiRegisters(axi, start), written' = written
    PROVE  UiMoved(axi)
<1>t. DumpTypes /\ Sequencing /\ Streaming /\ Bursting
  BY DEF ReadInv
<1>1. /\ SeqStep(start) /\ Dma!DmaStep(ReadRequest, axi, buildActive)
      /\ Fifo!UiStep(BuildRequest, DataOffer)
  BY DEF UiRegisters
<1>2. readStart' \in BOOLEAN /\ buildStart' \in BOOLEAN
  BY <1>1 DEF SeqStep, SeqBegin, SeqRest, SeqPlan, SeqReadDone, SeqHold,
     SeqDrained, SeqDoneStart, SeqHart0Done, SeqHart1Done, NoRequest
<1> QED
  BY <1>t, <1>1, <1>2, SeqMoves, DmaMoves, ElasticMoves, FifoMoves DEF UiMoved

readVars == <<seqVars, dmaVars, fifoUiVars, written>>
LEMMA ReadRests == ReadInv /\ UNCHANGED readVars => ReadInv'
<1> SUFFICES ASSUME ReadInv, UNCHANGED readVars PROVE ReadInv'
  OBVIOUS
<1>1. DumpTypes'
  BY DEF ReadInv, readVars, seqVars, dmaVars, fifoUiVars, DumpTypes
<1>2. Sequencing'
  BY DEF ReadInv, readVars, seqVars, dmaVars, fifoUiVars, Sequencing, Reading, FrameRecords,
     Fifo!BuildReady
<1>3. Streaming'
  BY DEF ReadInv, readVars, seqVars, dmaVars, fifoUiVars, Streaming, Consecutive
<1>4. Bursting'
  BY DEF ReadInv, readVars, seqVars, dmaVars, fifoUiVars, Bursting, Behind
<1> QED
  BY <1>1, <1>2, <1>3, <1>4 DEF ReadInv

LEMMA ReadStarts == Init => ReadInv
<1> SUFFICES ASSUME Init PROVE ReadInv
  OBVIOUS
<1>1. /\ dmaState = "IDLE" /\ elastic = <<>> /\ ~buildActive /\ expectedIndex = 0
      /\ seqState = "IDLE" /\ ~readStart /\ ~buildStart /\ ~dmaBusy /\ ~dmaDone
  BY DEF Init, Dma!DmaInit, Fifo!FifoInit
<1>2. DumpTypes
  <2>1. written \in [Harts -> Nat]
    BY DumpSizes DEF Init
  <2>2. elastic \in Seq(Entries) /\ Len(elastic) <= 2
    BY <1>1
  <2> QED
    BY <2>1, <2>2 DEF Init, Dma!DmaInit, Fifo!FifoInit, DumpTypes, SeqStates, Harts, Bit,
       Dma!DmaStates
<1>3. Sequencing
  BY <1>1 DEF Init, Sequencing, Reading
<1>4. Streaming
  BY <1>1 DEF Streaming, Consecutive
<1>5. Bursting
  BY <1>1 DEF Bursting
<1> QED
  BY <1>2, <1>3, <1>4, <1>5 DEF ReadInv

LEMMA ReadKept == ReadInv /\ [Next]_vars => ReadInv'
<1> SUFFICES ASSUME ReadInv, [Next]_vars PROVE ReadInv'
  OBVIOUS
<1>1. CASE UiEdge
  <2>1. PICK axi, start : UiRegisters(axi, start)
    BY <1>1 DEF UiEdge
  <2>2. written' = written
    BY <1>1 DEF UiEdge
  <2>3. UiMoved(axi)
    BY <2>1, <2>2, UiMoves
  <2>4. SeqStep(start) /\ Dma!DmaStep(ReadRequest, axi, buildActive)
    BY <2>1 DEF UiRegisters
  <2>5. \A h \in Harts : written[h] \in Nat
    BY DEF ReadInv, DumpTypes
  <2>6. DumpTypes' /\ Sequencing' /\ Streaming' /\ Bursting'
    BY <2>3, <2>4, <2>5, DumpTypesKept, SequencingKept, StreamingKept, BurstingKept
  <2> QED
    BY <2>6 DEF ReadInv
<1>2. CASE TxEdge
  BY <1>2, ReadRests DEF TxEdge, readVars
<1>3. CASE UNCHANGED vars
  BY <1>3, ReadRests DEF vars, readVars
<1> QED
  BY <1>1, <1>2, <1>3 DEF Next

(* Sequencer, read DMA, elastic queue and FIFO agree on the frame under way. *)
THEOREM ReadInvariant == Spec => []ReadInv
BY ReadStarts, ReadKept, PTL DEF Spec

(* Numbers that differ by less than what is left of a page are in one page.  *)
LEMMA SamePage ==
    ASSUME NEW first \in Nat, NEW beats \in Nat, beats # 0,
           (first % PageBeats) + beats <= PageBeats
    PROVE  first \div PageBeats = (first + beats - 1) \div PageBeats
<1> DEFINE d == PageBeats
           q == first \div d
           r == first % d
           y == first + (beats - 1)
           p == y \div d
           t == y % d
<1>1. d \in Nat /\ d >= 1
  BY DumpSizes
<1>2. /\ q \in Int /\ r \in Nat /\ r < d /\ first = d * q + r
  BY <1>1
<1>3. y \in Nat
  OBVIOUS
<1>4. /\ p \in Int /\ t \in Nat /\ t < d /\ y = d * p + t
  <2> HIDE DEF y, d
  <2> QED
    BY <1>1, <1>3
<1>5. r + beats <= d /\ y = first + (beats - 1) /\ beats \in Nat /\ beats # 0
  OBVIOUS
<1> HIDE DEF d, q, r, y, p, t
<1>6. d * (p - q) = (r + (beats - 1)) - t
  <2>1. d * (p - q) = d * p - d * q
    BY ONLY <1>1, <1>2, <1>4
  <2>2. d * p \in Int /\ d * q \in Int
    BY <1>1, <1>2, <1>4
  <2> DEFINE u == d * p
             v == d * q
  <2> HIDE DEF u, v
  <2>3. u \in Int /\ v \in Int /\ first = v + r /\ y = u + t
    BY <2>2, <1>2, <1>4 DEF u, v
  <2>4. u - v = (r + (beats - 1)) - t
    BY ONLY <2>3, <1>2, <1>4, <1>5, first \in Nat
  <2> QED
    BY <2>1, <2>4 DEF u, v
<1>7. (r + (beats - 1)) - t < d /\ (r + (beats - 1)) - t > -d
  BY ONLY <1>1, <1>2, <1>4, <1>5
<1> DEFINE e == p - q
<1>8. e \in Int /\ d * e < d /\ d * e > -d
  BY <1>2, <1>4, <1>6, <1>7
<1> HIDE DEF e
<1>9. e = 0
  <2>1. CASE e >= 1
    <3>1. d * e >= d
      BY ONLY <1>1, <1>8, <2>1
    <3> QED
      BY <1>1, <1>8, <3>1
  <2>2. CASE e <= -1
    <3>1. d * e <= -d
      BY ONLY <1>1, <1>8, <2>2
    <3> QED
      BY <1>1, <1>8, <3>1
  <2> QED
    BY <1>8, <2>1, <2>2
<1>10. p = q
  BY <1>2, <1>4, <1>9 DEF e
<1> QED
  BY <1>10 DEF p, q, y, d

(* Every burst of the read DMA stays in one page and reads only beats that   *)
(* hold a record of the hart that is dumped.                                 *)
THEOREM ReadsStayLegal == Spec => []BurstsLegal
<1>1. ReadInv => BurstsLegal
  <2> SUFFICES ASSUME ReadInv, dmaState \in {"AR", "R"}
               PROVE  /\ burstBeats # 0
                      /\ (address - Behind) \div PageBeats
                             = ((address - Behind) + burstBeats - 1) \div PageBeats
                      /\ 2 * ((address - Behind) + burstBeats - 1) < written[dmaHart]
    BY DEF BurstsLegal, Behind
  <2> DEFINE first == address - Behind
             whole == Dma!BeatsFor(activeRecords)
             P == Beats * frameNumber
  <2>t. DumpTypes /\ Sequencing /\ Streaming /\ Bursting /\ Reading
    BY DEF ReadInv, Reading
  <2>1. /\ burstBeats \in Nat /\ address \in Nat /\ Behind \in Nat /\ beatsRemaining \in Nat
        /\ dataIndex \in Nat /\ P \in Nat /\ frameNumber \in Nat
        /\ activeRecords \in Nat /\ recordsRemaining \in Nat
    BY <2>t, DumpSizes DEF DumpTypes, Behind
  <2>2. /\ Behind < burstBeats /\ Behind <= address /\ burstBeats <= Behind + beatsRemaining
        /\ (first % PageBeats) + burstBeats <= PageBeats
        /\ dataIndex + beatsRemaining = whole /\ address = P + dataIndex
    BY <2>t DEF Bursting
  <2>3. /\ RecordsPerFrame * frameNumber + recordsRemaining = written[hart]
        /\ activeRecords = FrameRecords /\ dmaHart = hart
    BY <2>t DEF Sequencing, Streaming
  <2>4. whole \in Nat /\ 2 * whole <= activeRecords + 1
    BY <2>1, BeatsForFits
  <2>5. activeRecords <= recordsRemaining
    BY <2>1, <2>3, DumpSizes DEF FrameRecords
  <2>6. RecordsPerFrame * frameNumber = 2 * P
    BY <2>1, DumpSizes
  <2> HIDE DEF P, whole
  <2>7. first \in Nat /\ burstBeats # 0
    BY <2>1, <2>2
  <2>8. first \div PageBeats = (first + burstBeats - 1) \div PageBeats
    BY <2>1, <2>2, <2>7, SamePage
  <2>9. 2 * (first + burstBeats - 1) < written[dmaHart]
    <3>1. (first + burstBeats) <= P + whole
      BY <2>1, <2>2, <2>4
    <3>2. 2 * (P + whole) <= (2 * P + activeRecords) + 1
      BY <2>1, <2>4
    <3>3. written[dmaHart] = 2 * P + recordsRemaining
      BY <2>3, <2>6
    <3> HIDE DEF first
    <3> QED
      BY <3>1, <3>2, <3>3, <2>1, <2>4, <2>5, <2>7
  <2> QED
    BY <2>7, <2>8, <2>9
<1> QED
  BY ReadInvariant, <1>1, PTL

(* -------------------------- the frame FIFO ------------------------------- *)

LEMMA FrameAssumption == Frame!FifoAssumption
BY DumpAssumption DEF DumpAssumption, Frame!FifoAssumption

LEMMA SameUiStep ==
    ASSUME NEW build, NEW data, Fifo!UiStep(build, data)
    PROVE  Frame!UiStep(build, data)
BY DEF Fifo!UiStep, Frame!UiStep, Fifo!BuildReady, Frame!BuildReady, Fifo!ReleaseUi,
   Frame!ReleaseUi, Fifo!Released, Frame!Released, Fifo!Slots, Frame!Slots, Fifo!Bit, Frame!Bit,
   Fifo!Masked, Frame!Masked, Fifo!Zero, Frame!Zero, Fifo!Shift, Frame!Shift,
   Fifo!Stages, Frame!Stages, Fifo!Flip, Frame!Flip, Fifo!SyncOut, Frame!SyncOut

LEMMA SameTxStep ==
    ASSUME NEW ready, Fifo!TxStep(ready)
    PROVE  Frame!TxStep(ready)
BY DEF Fifo!TxStep, Frame!TxStep, Fifo!TxWait, Frame!TxWait, Fifo!TxStall, Frame!TxStall,
   Fifo!TxStart, Frame!TxStart, Fifo!TxHeader, Frame!TxHeader, Fifo!TxFrameNumber,
   Frame!TxFrameNumber, Fifo!TxLoadWord, Frame!TxLoadWord, Fifo!TxNextWord, Frame!TxNextWord,
   Fifo!TxLastWord, Frame!TxLastWord, Fifo!SlotPending, Frame!SlotPending, Fifo!PublishTx,
   Frame!PublishTx, Fifo!TxValid, Frame!TxValid, Fifo!FrameOut, Frame!FrameOut,
   Fifo!Shift, Frame!Shift, Fifo!Stages, Frame!Stages, Fifo!Flip, Frame!Flip,
   Fifo!SyncOut, Frame!SyncOut

LEMMA SameStart == Fifo!FifoInit => Frame!FifoInit
BY DEF Fifo!FifoInit, Frame!FifoInit, Fifo!Slots, Frame!Slots, Fifo!Bit, Frame!Bit,
   Fifo!ChainOf, Frame!ChainOf, Fifo!Stages, Frame!Stages, Fifo!NoHeader, Frame!NoHeader,
   Fifo!Indexes, Frame!Indexes, Fifo!Zero, Frame!Zero, Fifo!NoFrame, Frame!NoFrame

(* What the FIFO does not look at may be anything.                           *)
LEMMA OnlyStrobed ==
    ASSUME NEW build, NEW data, NEW ask, NEW offer, Frame!UiStep(build, data),
           ask.start = build.start, build.start => ask.header = build.header,
           (offer.valid /\ buildActive) <=> (data.valid /\ buildActive),
           data.valid /\ buildActive => /\ offer.index = data.index /\ offer.last = data.last
                                        /\ offer.beat = data.beat
    PROVE  Frame!UiStep(ask, offer)
<1> DEFINE accepted == build.start /\ Frame!BuildReady
           stored == data.valid /\ buildActive
           last == stored /\ data.index = Beats - 1
           accepted2 == ask.start /\ Frame!BuildReady
           stored2 == offer.valid /\ buildActive
           last2 == stored2 /\ offer.index = Beats - 1
<1>1. /\ accepted2 <=> accepted
      /\ stored2 <=> stored
      /\ last2 <=> last
  OBVIOUS
<1>2. /\ releaseSync' = Frame!Shift(releaseSync, release)
      /\ releaseSeen' = Frame!ReleaseUi
      /\ frameReleased' = (\E s \in Frame!Slots : Frame!Released(s))
      /\ occupied' = [s \in Frame!Slots |->
               (accepted2 /\ s = writeSlot) \/ (occupied[s] /\ ~Frame!Released(s))]
      /\ dirty' = [s \in Frame!Slots |->
               IF s = writeSlot THEN (accepted2 \/ dirty[s]) /\ ~last2 ELSE dirty[s]]
      /\ publish' = [s \in Frame!Slots |->
               IF last2 /\ s = writeSlot THEN Frame!Flip(publish[s]) ELSE publish[s]]
  BY <1>1 DEF Frame!UiStep
<1>3. /\ writeSlot' = IF last2 THEN Frame!Flip(writeSlot) ELSE writeSlot
      /\ buildActive' = (accepted2 \/ (buildActive /\ ~last2))
      /\ expectedIndex' = IF accepted2 \/ last2 THEN 0
                          ELSE IF stored2 THEN expectedIndex + 1 ELSE expectedIndex
  BY <1>1 DEF Frame!UiStep
<1>4. protocolError' = \/ protocolError
                       \/ ask.start /\ ~Frame!BuildReady
                       \/ stored2 /\ offer.index # expectedIndex
                       \/ stored2 /\ offer.last # (offer.index = Beats - 1)
  BY <1>1 DEF Frame!UiStep
<1>5. slotHeader' = IF accepted2 THEN [slotHeader EXCEPT ![writeSlot] = ask.header]
                    ELSE slotHeader
  BY <1>1 DEF Frame!UiStep
<1>6. slotPayload' = IF stored2
               THEN [slotPayload EXCEPT ![writeSlot][offer.index] =
                       Frame!Masked(offer.beat, offer.index, slotHeader[writeSlot].valid)]
               ELSE slotPayload
  BY <1>1 DEF Frame!UiStep
<1> QED
  BY <1>2, <1>3, <1>4, <1>5, <1>6 DEF Frame!UiStep

(* A UI edge of the dump is one of the FIFO's: a frame is asked for when a   *)
(* slot is free, the beats of the frame come in order, or nothing comes.     *)
LEMMA UiDrives ==
    ASSUME ReadInv, Fifo!UiStep(BuildRequest, DataOffer), UNCHANGED fifoTxVars
    PROVE  Frame!UiIdle \/ Frame!UiBuild \/ Frame!UiBeat
<1>t. DumpTypes /\ Sequencing /\ Streaming
  BY DEF ReadInv
<1>u. Frame!UiStep(BuildRequest, DataOffer) /\ UNCHANGED Frame!txVars
  BY SameUiStep DEF fifoTxVars, Frame!txVars
<1>b. BuildRequest.start = readStart
  BY <1>t DEF BuildRequest, Sequencing
<1>n. /\ Frame!NoBuild.start = FALSE /\ Frame!NoData.valid = FALSE
      /\ readStart \in BOOLEAN /\ buildActive \in BOOLEAN
  BY <1>t DEF Frame!NoBuild, Frame!NoData, DumpTypes
<1>1. CASE readStart
  <2> DEFINE h == BuildRequest.header
  <2>1. ~buildActive /\ Frame!BuildReady
    BY <1>1, <1>t DEF Sequencing, Fifo!BuildReady, Frame!BuildReady
  <2>2. h \in Frame!Headers
    <3>1. activeRecords \in 1 .. 2 * Beats
      BY <1>1, <1>t, FrameHasBeats, DumpSizes DEF Reading, DumpTypes
    <3> QED
      BY <1>t, <3>1 DEF BuildRequest, DumpTypes, Frame!Headers, Frame!Harts, Frame!ValidCounts,
         Frame!Bit, Harts, Bit
  <2>3. Frame!Build(h).start = TRUE /\ Frame!Build(h).header = h
    BY DEF Frame!Build
  <2>4. Frame!UiStep(Frame!Build(h), Frame!NoData)
    BY <1>1, <1>b, <1>n, <1>u, <2>1, <2>3, OnlyStrobed
  <2> QED
    BY <1>u, <2>1, <2>2, <2>4 DEF Frame!UiBuild
<1>2. CASE ~readStart /\ ~Stored
  <2>1. ~(DataOffer.valid /\ buildActive)
    BY <1>2 DEF DataOffer, Stored
  <2>2. BuildRequest.start = Frame!NoBuild.start
    BY <1>2, <1>b, <1>n
  <2>3. Frame!UiStep(Frame!NoBuild, Frame!NoData)
    BY <1>2, <1>b, <1>n, <1>u, <2>1, <2>2, OnlyStrobed
  <2> QED
    BY <1>u, <2>3 DEF Frame!UiIdle
<1>3. CASE ~readStart /\ Stored
  <2>1. /\ elastic # <<>> /\ buildActive /\ DataOffer.valid = TRUE
        /\ DataOffer.index = elastic[1].index /\ DataOffer.last = elastic[1].last
        /\ DataOffer.beat = elastic[1].beat /\ 1 \in 1 .. Len(elastic)
    BY <1>3, <1>t DEF DataOffer, Stored, Dma!Offer, DumpTypes
  <2>2. /\ DataOffer.index = expectedIndex /\ DataOffer.last = (expectedIndex = Beats - 1)
        /\ DataOffer.beat \in Padded \X Padded
    <3>1. elastic[1] \in Entries /\ expectedIndex \in Nat
      BY <1>t, <2>1 DEF DumpTypes
    <3>2. elastic[1].beat \in Padded \X Padded
      BY <3>1 DEF Entries
    <3>3. /\ elastic[1].index = expectedIndex + (1 - 1)
          /\ elastic[1].last = (elastic[1].index = Beats - 1)
      BY <1>t, <2>1 DEF Streaming, Consecutive
    <3> QED
      BY <2>1, <3>1, <3>2, <3>3
  <2> DEFINE beat == DataOffer.beat
  <2>3. /\ Frame!Data(beat).valid = TRUE /\ Frame!Data(beat).index = expectedIndex
        /\ Frame!Data(beat).last = (expectedIndex = Beats - 1) /\ Frame!Data(beat).beat = beat
    BY DEF Frame!Data
  <2>4. Frame!UiStep(Frame!NoBuild, Frame!Data(beat))
    BY <1>3, <1>b, <1>n, <1>u, <2>1, <2>2, <2>3, OnlyStrobed
  <2> QED
    BY <1>u, <2>1, <2>2, <2>4 DEF Frame!UiBeat
<1> QED
  BY <1>1, <1>2, <1>3

LEMMA DrivesStep == ReadInv /\ [Next]_vars => [Frame!Next]_(Frame!fifoVars)
<1> SUFFICES ASSUME ReadInv, [Next]_vars PROVE Frame!Next \/ UNCHANGED Frame!fifoVars
  OBVIOUS
<1>1. CASE UiEdge
  BY <1>1, UiDrives DEF UiEdge, UiRegisters, Frame!Next
<1>2. CASE TxEdge
  <2>1. PICK ready \in BOOLEAN : Fifo!TxStep(SlotReady(ready))
    BY <1>2 DEF TxEdge, TxRegisters
  <2>2. Frame!TxStep(SlotReady(ready)) /\ SlotReady(ready) \in BOOLEAN
    BY <2>1, SameTxStep DEF SlotReady
  <2>3. UNCHANGED Frame!uiVars
    BY <1>2 DEF TxEdge, fifoUiVars, Frame!uiVars
  <2> QED
    BY <2>2, <2>3 DEF Frame!Next, Frame!TxEdge
<1>3. CASE UNCHANGED vars
  BY <1>3 DEF vars, fifoUiVars, fifoTxVars, Frame!fifoVars, Frame!uiVars, Frame!txVars
<1> QED
  BY <1>1, <1>2, <1>3 DEF Next

(* The dump drives the frame FIFO just as FrameFifoSpec lets it be driven,   *)
(* so whatever is proved there holds here.                                   *)
THEOREM DrivesTheFifo == Spec => Frame!Spec
<1>1. Init => Frame!FifoInit
  BY SameStart DEF Init
<1> QED
  BY <1>1, DrivesStep, ReadInvariant, PTL DEF Spec, Frame!Spec

THEOREM FifoInsideDump == Spec => []Frame!FifoInv
BY DrivesTheFifo, Frame!FifoInvariant, FrameAssumption, PTL

(* -------------------------- its drain and errors ------------------------- *)

(* A release that is seen ends a slot that was reserved and complete.        *)
LEMMA SeenIsTaken ==
    ASSUME Frame!FifoInv, NEW s \in Bit, releaseSync[3][s] # releaseSeen[s]
    PROVE  occupied[s] /\ ~(buildActive /\ s = writeSlot)
<1>1. s \in Frame!Slots
  BY DEF Frame!Slots, Frame!Bit, Bit
<1>2. Frame!Wavefront(s) /\ Frame!Ownership(s)
  BY <1>1 DEF Frame!FifoInv, Frame!Handshake
<1>3. publish[s] # releaseSeen[s]
  BY <1>2 DEF Frame!Wavefront
<1> QED
  BY <1>2, <1>3 DEF Frame!Ownership

(* What a UI edge does to the slots.                                         *)
LEMMA SlotsMove ==
    ASSUME ReadInv, Frame!FifoInv, Fifo!UiStep(BuildRequest, DataOffer)
    PROVE  /\ \A s \in Bit : occupied'[s] = ((readStart /\ s = writeSlot)
                               \/ (occupied[s] /\ releaseSync[3][s] = releaseSeen[s]))
           /\ frameReleased' = (\E s \in Bit : releaseSync[3][s] # releaseSeen[s])
           /\ releaseSync'[1] = release /\ releaseSync'[2] = releaseSync[1]
           /\ releaseSync'[3] = releaseSync[2] /\ releaseSeen' = releaseSync[3]
           /\ readStart => ~occupied[writeSlot] /\ writeSlot \in Bit
<1>1. BuildRequest.start = readStart /\ (readStart => Fifo!BuildReady)
  BY DEF BuildRequest, Sequencing, ReadInv
<1>2. /\ occupied' = [s \in Bit |-> (readStart /\ s = writeSlot)
                               \/ (occupied[s] /\ ~(releaseSync[3][s] # releaseSeen[s]))]
  BY <1>1 DEF Fifo!UiStep, Fifo!Slots, Fifo!Bit, Bit, Fifo!Released, Fifo!ReleaseUi, Fifo!SyncOut
<1>3. /\ releaseSync' = Fifo!Shift(releaseSync, release)
      /\ releaseSeen' = releaseSync[3]
      /\ frameReleased' = (\E s \in Bit : releaseSync[3][s] # releaseSeen[s])
  BY DEF Fifo!UiStep, Fifo!Slots, Fifo!Bit, Bit, Fifo!Released, Fifo!ReleaseUi, Fifo!SyncOut
<1>4. /\ releaseSync'[1] = release /\ releaseSync'[2] = releaseSync[1]
      /\ releaseSync'[3] = releaseSync[2]
  BY <1>3 DEF Fifo!Shift, Fifo!Stages
<1>5. readStart => ~occupied[writeSlot] /\ writeSlot \in Bit
  BY <1>1 DEF Fifo!BuildReady, ReadInv, DumpTypes
<1> QED
  BY <1>2, <1>3, <1>4, <1>5

(* Reservations and releases are counted as they happen.                     *)
LEMMA CountFollows ==
    ASSUME ReadInv, Frame!FifoInv, Counting,
           Fifo!UiStep(BuildRequest, DataOffer), framesOutstanding' = Outstanding
    PROVE  framesOutstanding' = Taken(0)' + Taken(1)' + ReleasePending'
<1> DEFINE r0 == releaseSync[3][0] # releaseSeen[0]
           r1 == releaseSync[3][1] # releaseSeen[1]
           a == occupied[0]
           b == occupied[1]
           fo == framesOutstanding
<1>1. /\ r0 => a
      /\ r1 => b
      /\ ~(r0 /\ r1)
  BY SeenIsTaken DEF Bit, Counting, Apart
<1>2. fo = One(a) + One(b) + One(frameReleased)
  BY DEF Counting, Taken, ReleasePending, One
<1>3. Reserved <=> readStart
  BY DEF Reserved, ReadInv, Sequencing
<1>4. writeSlot \in Bit /\ (readStart => ~occupied[writeSlot])
  BY SlotsMove DEF ReadInv, DumpTypes
<1> DEFINE w0 == readStart /\ 0 = writeSlot
           w1 == readStart /\ 1 = writeSlot
           a2 == w0 \/ (a /\ ~r0)
           b2 == w1 \/ (b /\ ~r1)
<1>5. /\ occupied'[0] = a2
      /\ occupied'[1] = b2
      /\ frameReleased' = (r0 \/ r1)
  BY SlotsMove DEF Bit
<1>6. Taken(0)' + Taken(1)' + ReleasePending' = One(a2) + One(b2) + One(r0 \/ r1)
  BY <1>5 DEF Taken, ReleasePending, One
<1>7. /\ readStart <=> w0 \/ w1
      /\ ~(w0 /\ w1)
      /\ w0 => ~a
      /\ w1 => ~b
  BY <1>4 DEF Bit
<1> HIDE DEF r0, r1, a, b, w0, w1
<1>8. One(a2) + One(b2) + One(r0 \/ r1) = One(a) + One(b) + One(readStart)
  BY <1>1, <1>7 DEF One
<1>9. fo' = One(a) + One(b) + One(readStart)
  <2>1. fo' = IF readStart /\ ~frameReleased THEN fo + 1
              ELSE IF ~readStart /\ frameReleased /\ fo # 0 THEN fo - 1 ELSE fo
    BY <1>3 DEF Outstanding
  <2> HIDE DEF fo
  <2>2. CASE readStart /\ frameReleased
    BY <1>2, <2>1, <2>2 DEF One
  <2>3. CASE readStart /\ ~frameReleased
    BY <1>2, <2>1, <2>3 DEF One
  <2>4. CASE ~readStart /\ frameReleased
    BY <1>2, <2>1, <2>4 DEF One
  <2>5. CASE ~readStart /\ ~frameReleased
    BY <1>2, <2>1, <2>5 DEF One
  <2> QED
    BY <2>2, <2>3, <2>4, <2>5
<1> QED
  BY <1>6, <1>8, <1>9

(* Nothing is left inside once the count has come to zero.                   *)
LEMMA ZeroIsEmpty ==
    ASSUME Counting, framesOutstanding = 0
    PROVE  ~occupied[0] /\ ~occupied[1] /\ ~frameReleased
BY DEF Counting, Taken, ReleasePending

LEMMA ResetsAtEnd ==
    ASSUME ReadInv, Counting, NEW start, SeqStep(start)
    PROVE  /\ framesOutstanding' = Outstanding
           /\ seqState' \notin {"DATA", "DRAIN"} => framesOutstanding' = 0
<1>1. Reserved <=> readStart
  BY DEF Reserved, ReadInv, Sequencing
<1>2. readStart => seqState = "DATA"
  BY DEF ReadInv, Sequencing, Reading
<1>3. framesOutstanding = 0 /\ ~readStart => Outstanding = 0
  BY <1>1, ZeroIsEmpty DEF Outstanding
<1>4. CASE SeqBegin(start)
  BY <1>2, <1>3, <1>4 DEF SeqBegin, Counting
<1>5. CASE ~SeqBegin(start)
  <2>1. framesOutstanding' = Outstanding
    BY <1>5 DEF SeqStep, SeqRest, SeqPlan, SeqReadDone, SeqHold,
       SeqDrained, SeqDoneStart, SeqHart0Done, SeqHart1Done
  <2>2. seqState' \notin {"DATA", "DRAIN"} =>
           \/ seqState \notin {"DATA", "DRAIN"}
           \/ seqState = "DRAIN" /\ framesOutstanding = 0
    BY <1>5 DEF SeqStep, SeqRest, SeqPlan, SeqReadDone, SeqHold,
       SeqDrained, SeqDoneStart, SeqHart0Done, SeqHart1Done
  <2>3. seqState' \notin {"DATA", "DRAIN"} => framesOutstanding = 0 /\ ~readStart
    BY <1>2, <2>2 DEF Counting
  <2> QED
    BY <1>3, <2>1, <2>3
<1> QED
  BY <1>4, <1>5

LEMMA CountingUi ==
    ASSUME ReadInv, Frame!FifoInv, Counting, NEW axi, NEW start, UiRegisters(axi, start),
           uiEdges' = uiEdges + 1, UNCHANGED fifoTxVars
    PROVE  Counting'
<1>1. SeqStep(start) /\ Fifo!UiStep(BuildRequest, DataOffer)
  BY DEF UiRegisters
<1>2. /\ framesOutstanding' = Outstanding
      /\ seqState' \notin {"DATA", "DRAIN"} => framesOutstanding' = 0
  BY <1>1, ResetsAtEnd
<1>3. framesOutstanding' = Taken(0)' + Taken(1)' + ReleasePending'
  BY <1>1, <1>2, CountFollows
<1>4. releaseError' = FALSE
  <2>1. ~CountError
    BY ZeroIsEmpty DEF CountError
  <2> QED
    BY <1>1, <2>1 DEF SeqStep, Counting
<1>5. /\ releaseSync'[1] = release /\ releaseSync'[2] = releaseSync[1]
      /\ releaseSync'[3] = releaseSync[2] /\ releaseSeen' = releaseSync[3]
      /\ release' = release
  BY <1>1, SlotsMove DEF fifoTxVars
<1>6. uiEdges' \in Nat /\ uiEdges \in Nat
  BY DEF Counting
<1> QED
  BY <1>2, <1>3, <1>4, <1>5, <1>6 DEF Counting, Apart

LEMMA CountingTx ==
    ASSUME Frame!FifoInv, Counting, TxEdge
    PROVE  Counting'
<1>1. PICK ready \in BOOLEAN : Fifo!TxStep(ready)
  BY DEF TxEdge, TxRegisters, SlotReady
<1>2. /\ uiEdges' = 0 /\ UNCHANGED <<seqVars, fifoUiVars>> /\ uiEdges >= MinUiEdges
  BY DEF TxEdge
<1>3. release = releaseSync[1]
  BY <1>2, DumpAssumption DEF Counting, DumpAssumption
<1>4. \E s, v : release' \in {release, [release EXCEPT ![s] = v]}
  BY <1>1 DEF Fifo!TxStep, Fifo!TxWait, Fifo!TxStall, Fifo!TxStart, Fifo!TxHeader,
     Fifo!TxFrameNumber, Fifo!TxLoadWord, Fifo!TxNextWord, Fifo!TxLastWord
<1>5. release \in [Bit -> Bit]
  BY DEF Frame!FifoInv, Frame!TypeOK, Frame!Slots, Frame!Bit, Bit
<1>6. Apart(release', releaseSync[1])
  <2>1. PICK s, v : release' \in {release, [release EXCEPT ![s] = v]}
    BY <1>4
  <2> QED
    BY <1>3, <1>5, <2>1 DEF Apart, Bit
<1>7. /\ framesOutstanding' = Taken(0)' + Taken(1)' + ReleasePending'
      /\ releaseError' = FALSE
      /\ seqState' \notin {"DATA", "DRAIN"} => framesOutstanding' = 0
  BY <1>2 DEF Counting, Taken, ReleasePending, seqVars, fifoUiVars
<1>8. releaseSync' = releaseSync /\ releaseSeen' = releaseSeen
  BY <1>2 DEF fifoUiVars
<1> QED
  BY <1>2, <1>6, <1>7, <1>8 DEF Counting, Apart

-----------------------------------------------------------------------------
LEMMA ShiftTakes ==
    ASSUME NEW chain \in Chain(Bit), NEW t \in Bit
    PROVE  /\ Shift(chain, t) \in Chain(Bit) /\ Shift(chain, t)[1] = t
           /\ Shift(chain, t)[2] = chain[1] /\ Shift(chain, t)[3] = chain[2]
           /\ chain[1] \in Bit /\ chain[2] \in Bit /\ chain[3] \in Bit
BY DEF Shift, Chain, Stages

LEMMA RestsOn ==
    ASSUME NEW source \in EventSource, NEW chain \in Chain(Bit), Rests(source, chain)
    PROVE  ~Pulse(chain) /\ Rests(source, Shift(chain, source.toggle))
BY DEF EventSource, Rests, Pulse, Shift, Stages

LEMMA MovesOn ==
    ASSUME NEW source \in EventSource, NEW chain \in Chain(Bit), Moves(source, chain)
    PROVE  /\ Pulse(chain) => Rests(source, Shift(chain, source.toggle))
           /\ ~Pulse(chain) => Moves(source, Shift(chain, source.toggle))
<1> DEFINE t == source.toggle
<1>1. t \in Bit
  BY DEF EventSource
<1>2. /\ Shift(chain, t)[1] = t /\ Shift(chain, t)[2] = chain[1]
      /\ Shift(chain, t)[3] = chain[2]
      /\ chain[1] \in Bit /\ chain[2] \in Bit /\ chain[3] \in Bit
  BY <1>1, ShiftTakes
<1>3. t # chain[3] /\ (chain[1] = chain[3] => chain[2] = chain[3])
  BY DEF Moves
<1>4. CASE Pulse(chain)
  <2>1. chain[2] = t /\ chain[1] = t
    BY <1>1, <1>2, <1>3, <1>4 DEF Pulse, Bit
  <2> QED
    BY <1>2, <1>4, <2>1 DEF Rests, Stages
<1>5. CASE ~Pulse(chain)
  BY <1>1, <1>2, <1>3, <1>5 DEF Pulse, Moves, Bit
<1> QED
  BY <1>4, <1>5

(* The toggle of a source after an edge.                                     *)
LEMMA SourceSteps ==
    ASSUME NEW source \in EventSource, NEW event \in BOOLEAN
    PROVE  /\ SourceStep(source, event) \in EventSource
           /\ SourceStep(source, event).last = event
           /\ ~event => SourceStep(source, event).toggle = source.toggle
           /\ event /\ ~source.last => SourceStep(source, event).toggle # source.toggle
BY DEF SourceStep, EventSource, Flip, Bit

(* A source that flips sets its token out.                                   *)
LEMMA SetsOut ==
    ASSUME NEW source \in EventSource, NEW chain \in Chain(Bit), Rests(source, chain),
           NEW next \in EventSource, next.toggle # source.toggle
    PROVE  Moves(next, chain)
BY DEF Rests, Moves, Stages

LEMMA SameToggle ==
    ASSUME NEW source, NEW next, NEW chain, next.toggle = source.toggle
    PROVE  /\ Rests(source, chain) => Rests(next, chain)
           /\ Moves(source, chain) => Moves(next, chain)
BY DEF Rests, Moves

CompletingTypes ==
    /\ doneStart \in BOOLEAN /\ fmtBusy \in BOOLEAN /\ fmtDone \in BOOLEAN
    /\ fmtState \in {"IDLE", "HEADER", "PAYLOAD"}
    /\ startSource \in EventSource /\ doneSource \in EventSource
    /\ startSync \in Chain(Bit) /\ doneSync \in Chain(Bit)

LEMMA CompletingUi ==
    ASSUME DumpTypes, Completing, NEW start, SeqStep(start), UNCHANGED fmtVars,
           startSource' = SourceStep(startSource, doneStart),
           doneSync' = Shift(doneSync, doneSource.toggle)
    PROVE  Completing'
<1>t. CompletingTypes
  BY DEF Completing, CompletingTypes
<1>u. UNCHANGED <<startSync, doneSource, fmtState, fmtBusy, fmtDone>>
  BY DEF fmtVars
<1>s. /\ startSource' \in EventSource /\ startSource'.last = doneStart
      /\ ~doneStart => startSource'.toggle = startSource.toggle
      /\ doneStart => startSource'.toggle # startSource.toggle
  <2>1. startSource.last => ~doneStart
    BY DEF Completing
  <2> QED
    BY <1>t, <2>1, SourceSteps DEF CompletingTypes
<1>d. doneSync' \in Chain(Bit)
  BY <1>t, ShiftTakes DEF CompletingTypes, EventSource
<1>e. doneSource.toggle \in Bit
  BY <1>t DEF CompletingTypes, EventSource
<1>q. /\ doneStart' \in BOOLEAN
      /\ seqState # "DONE_WAIT" => (doneStart' <=> seqState' = "DONE_WAIT")
      /\ seqState = "DONE_WAIT" => ~doneStart'
      /\ seqState = "DONE_WAIT" => (seqState' = "DONE_WAIT" <=> ~Pulse(doneSync))
  BY DEF SeqStep, SeqBegin, SeqRest, SeqPlan, SeqReadDone, SeqHold, SeqDrained, SeqDoneStart,
     SeqHart0Done, SeqHart1Done, NoRequest, DoneDoneUi, DumpTypes, Harts, Bit
<1>a. (startSource.last => ~doneStart)' /\ (doneSource.last => ~fmtDone)'
  <2>1. doneStart => seqState = "DONE_WAIT"
    BY DEF Completing, AllRest, StartRests
  <2>2. doneSource.last => ~fmtDone
    BY DEF Completing
  <2> QED
    BY <1>s, <1>q, <1>u, <2>1, <2>2
<1>T. CompletingTypes'
  BY <1>t, <1>u, <1>s, <1>d, <1>q DEF CompletingTypes
<1>g. ~doneStart => /\ Rests(startSource, startSync) => Rests(startSource', startSync')
                    /\ Moves(startSource, startSync) => Moves(startSource', startSync')
  BY <1>s, <1>u, SameToggle
<1>h. EndRests => EndRests' /\ ~Pulse(doneSync)
  BY <1>t, <1>u, RestsOn DEF EndRests, CompletingTypes
<1>i. FormatterRests <=> FormatterRests'
  BY <1>u DEF FormatterRests
<1>j. Rests(doneSource, doneSync) => Rests(doneSource', doneSync') /\ ~Pulse(doneSync)
  BY <1>t, <1>u, RestsOn DEF CompletingTypes
<1> SUFFICES /\ seqState' # "DONE_WAIT" => AllRest'
             /\ seqState' = "DONE_WAIT" =>
                  \/ /\ doneStart' /\ Rests(startSource', startSync')
                     /\ FormatterRests' /\ EndRests'
                  \/ /\ ~doneStart' /\ Moves(startSource', startSync')
                     /\ FormatterRests' /\ EndRests'
                  \/ /\ StartRests' /\ fmtState' # "IDLE" /\ fmtBusy' /\ EndRests'
                  \/ /\ StartRests' /\ FormatterRests'
                     /\ fmtDone' /\ Rests(doneSource', doneSync')
                  \/ /\ StartRests' /\ FormatterRests'
                     /\ ~fmtDone' /\ Moves(doneSource', doneSync')
  BY <1>a, <1>T DEF Completing, CompletingTypes
<1>1. CASE seqState # "DONE_WAIT"
  <2>1. AllRest
    BY <1>1 DEF Completing
  <2>2. Rests(startSource', startSync') /\ FormatterRests' /\ EndRests'
    BY <1>g, <1>h, <1>i, <2>1 DEF AllRest, StartRests
  <2> QED
    BY <1>1, <1>q, <2>2 DEF AllRest, StartRests
<1>2. CASE seqState = "DONE_WAIT" /\ doneStart
  <2>1. Rests(startSource, startSync) /\ FormatterRests /\ EndRests
    BY <1>2 DEF Completing, StartRests
  <2>2. Moves(startSource', startSync')
    BY <1>2, <1>s, <1>t, <1>u, <2>1, SetsOut DEF CompletingTypes
  <2> QED
    BY <1>2, <1>q, <1>h, <1>i, <2>1, <2>2
<1>3. CASE seqState = "DONE_WAIT" /\ ~doneStart /\ Moves(startSource, startSync)
           /\ FormatterRests /\ EndRests
  BY <1>3, <1>q, <1>g, <1>h, <1>i
<1>4. CASE seqState = "DONE_WAIT" /\ StartRests /\ fmtState # "IDLE" /\ fmtBusy /\ EndRests
  BY <1>4, <1>q, <1>g, <1>h, <1>u DEF StartRests
<1>5. CASE seqState = "DONE_WAIT" /\ StartRests /\ FormatterRests
           /\ fmtDone /\ Rests(doneSource, doneSync)
  BY <1>5, <1>q, <1>g, <1>i, <1>j, <1>u DEF StartRests
<1>6. CASE seqState = "DONE_WAIT" /\ StartRests /\ FormatterRests
           /\ ~fmtDone /\ Moves(doneSource, doneSync)
  <2>1. /\ Pulse(doneSync) => Rests(doneSource', doneSync')
        /\ ~Pulse(doneSync) => Moves(doneSource', doneSync')
    BY <1>6, <1>t, <1>u, MovesOn DEF CompletingTypes
  <2>2. StartRests' /\ FormatterRests' /\ ~fmtDone'
    BY <1>6, <1>q, <1>g, <1>i, <1>u DEF StartRests
  <2> QED
    BY <1>6, <1>q, <2>1, <2>2 DEF AllRest, EndRests
<1> QED
  BY <1>1, <1>2, <1>3, <1>4, <1>5, <1>6 DEF Completing, StartRests

LEMMA CompletingTx ==
    ASSUME Completing, NEW ready, UNCHANGED <<seqVars, cdcUiVars>>,
           startSync' = Shift(startSync, startSource.toggle),
           doneSource' = SourceStep(doneSource, fmtDone),
           \/ FmtStart \/ FmtWait(ready) \/ FmtHeader(ready) \/ FmtPayload(ready)
    PROVE  Completing'
<1>t. CompletingTypes
  BY DEF Completing, CompletingTypes
<1>u. UNCHANGED <<seqState, doneStart, startSource, doneSync>>
  BY DEF seqVars, cdcUiVars
<1>s. /\ doneSource' \in EventSource /\ doneSource'.last = fmtDone
      /\ ~fmtDone => doneSource'.toggle = doneSource.toggle
      /\ fmtDone => doneSource'.toggle # doneSource.toggle
  <2>1. doneSource.last => ~fmtDone
    BY DEF Completing
  <2> QED
    BY <1>t, <2>1, SourceSteps DEF CompletingTypes
<1>d. startSync' \in Chain(Bit)
  BY <1>t, ShiftTakes DEF CompletingTypes, EventSource
<1>f. /\ fmtBusy' \in BOOLEAN /\ fmtDone' \in BOOLEAN
      /\ fmtState' \in {"IDLE", "HEADER", "PAYLOAD"}
      /\ fmtDone' => fmtState = "PAYLOAD"
      /\ FormatterRests /\ ~Pulse(startSync) => FormatterRests' /\ ~fmtDone'
      /\ FormatterRests /\ Pulse(startSync) => fmtState' # "IDLE" /\ fmtBusy' /\ ~fmtDone'
      /\ fmtState # "IDLE" /\ fmtBusy =>
            \/ fmtState' # "IDLE" /\ fmtBusy' /\ ~fmtDone'
            \/ FormatterRests' /\ fmtDone'
  <2>t. fmtBusy \in BOOLEAN /\ fmtState \in {"IDLE", "HEADER", "PAYLOAD"}
    BY <1>t DEF CompletingTypes
  <2>1. CASE FmtStart
    BY <2>t, <2>1 DEF FmtStart, FormatterRests
  <2>2. CASE FmtWait(ready)
    BY <2>t, <2>2 DEF FmtWait, FormatterRests
  <2>3. CASE FmtHeader(ready)
    BY <2>t, <2>3 DEF FmtHeader, FormatterRests
  <2>4. CASE FmtPayload(ready)
    BY <2>t, <2>4 DEF FmtPayload, FormatterRests
  <2> QED
    BY <2>1, <2>2, <2>3, <2>4
<1>a. (startSource.last => ~doneStart)' /\ (doneSource.last => ~fmtDone)'
  <2>1. fmtDone => FormatterRests
    BY DEF Completing, AllRest, EndRests
  <2>2. startSource.last => ~doneStart
    BY DEF Completing
  <2> QED
    BY <1>s, <1>f, <1>u, <2>1, <2>2 DEF FormatterRests
<1>T. CompletingTypes'
  BY <1>t, <1>u, <1>s, <1>d, <1>f DEF CompletingTypes
<1>g. Rests(startSource, startSync) =>
         Rests(startSource', startSync') /\ ~Pulse(startSync)
  BY <1>t, <1>u, RestsOn DEF CompletingTypes
<1>h. ~fmtDone => /\ Rests(doneSource, doneSync) => Rests(doneSource', doneSync')
                  /\ Moves(doneSource, doneSync) => Moves(doneSource', doneSync')
  BY <1>s, <1>u, SameToggle
<1> SUFFICES /\ seqState # "DONE_WAIT" => AllRest'
             /\ seqState = "DONE_WAIT" =>
                  \/ /\ doneStart' /\ Rests(startSource', startSync')
                     /\ FormatterRests' /\ EndRests'
                  \/ /\ ~doneStart' /\ Moves(startSource', startSync')
                     /\ FormatterRests' /\ EndRests'
                  \/ /\ StartRests' /\ fmtState' # "IDLE" /\ fmtBusy' /\ EndRests'
                  \/ /\ StartRests' /\ FormatterRests'
                     /\ fmtDone' /\ Rests(doneSource', doneSync')
                  \/ /\ StartRests' /\ FormatterRests'
                     /\ ~fmtDone' /\ Moves(doneSource', doneSync')
  BY <1>a, <1>T, <1>u DEF Completing, CompletingTypes
<1>1. CASE seqState # "DONE_WAIT"
  <2>1. AllRest
    BY <1>1 DEF Completing
  <2> QED
    BY <1>1, <1>f, <1>g, <1>h, <1>u, <2>1 DEF AllRest, StartRests, EndRests
<1>2. CASE seqState = "DONE_WAIT" /\ doneStart /\ Rests(startSource, startSync)
           /\ FormatterRests /\ EndRests
  BY <1>2, <1>f, <1>g, <1>h, <1>u DEF EndRests
<1>3. CASE seqState = "DONE_WAIT" /\ ~doneStart /\ Moves(startSource, startSync)
           /\ FormatterRests /\ EndRests
  <2>1. /\ Pulse(startSync) => Rests(startSource', startSync')
        /\ ~Pulse(startSync) => Moves(startSource', startSync')
    BY <1>3, <1>t, <1>u, MovesOn DEF CompletingTypes
  <2>2. ~doneStart' /\ EndRests'
    BY <1>3, <1>f, <1>h, <1>u DEF EndRests
  <2> QED
    BY <1>3, <1>f, <1>u, <2>1, <2>2 DEF StartRests
<1>4. CASE seqState = "DONE_WAIT" /\ StartRests /\ fmtState # "IDLE" /\ fmtBusy /\ EndRests
  <2>1. StartRests' /\ Rests(doneSource', doneSync')
    BY <1>4, <1>g, <1>h, <1>u DEF StartRests, EndRests
  <2> QED
    BY <1>4, <1>f, <2>1 DEF EndRests
<1>5. CASE seqState = "DONE_WAIT" /\ StartRests /\ FormatterRests
           /\ fmtDone /\ Rests(doneSource, doneSync)
  <2>1. Moves(doneSource', doneSync')
    BY <1>5, <1>s, <1>t, <1>u, SetsOut DEF CompletingTypes
  <2> QED
    BY <1>5, <1>f, <1>g, <1>u, <2>1 DEF StartRests
<1>6. CASE seqState = "DONE_WAIT" /\ StartRests /\ FormatterRests
           /\ ~fmtDone /\ Moves(doneSource, doneSync)
  BY <1>6, <1>f, <1>g, <1>h, <1>u DEF StartRests
<1> QED
  BY <1>1, <1>2, <1>3, <1>4, <1>5, <1>6 DEF Completing

LEMMA DrainStarts == Init => DrainInv
<1> SUFFICES ASSUME Init PROVE DrainInv
  OBVIOUS
<1>1. Counting
  BY DEF Init, Counting, Taken, ReleasePending, Apart, Fifo!FifoInit, Fifo!Slots, Fifo!Bit,
     Fifo!ChainOf, Fifo!Stages
<1>2. Completing
  BY DEF Init, Completing, AllRest, StartRests, EndRests, FormatterRests, Rests, QuietSource,
     ChainOf, Stages, EventSource, Chain, Bit
<1> QED
  BY <1>1, <1>2 DEF DrainInv

LEMMA DrainKept == ReadInv /\ Frame!FifoInv /\ DrainInv /\ [Next]_vars => DrainInv'
<1> SUFFICES ASSUME ReadInv, Frame!FifoInv, DrainInv, [Next]_vars PROVE DrainInv'
  OBVIOUS
<1>0. Counting /\ Completing /\ DumpTypes
  BY DEF DrainInv, ReadInv
<1>1. CASE UiEdge
  <2>1. PICK axi \in AxiAnswers, start \in BOOLEAN : UiRegisters(axi, start)
    BY <1>1 DEF UiEdge
  <2>2. uiEdges' = uiEdges + 1 /\ UNCHANGED <<fifoTxVars, fmtVars>>
    BY <1>1 DEF UiEdge
  <2>3. Counting'
    BY <1>0, <2>1, <2>2, CountingUi
  <2>4. Completing'
    BY <1>0, <2>1, <2>2, CompletingUi DEF UiRegisters
  <2> QED
    BY <2>3, <2>4 DEF DrainInv
<1>2. CASE TxEdge
  <2>1. Counting'
    BY <1>0, <1>2, CountingTx
  <2>2. PICK ready \in BOOLEAN : TxRegisters(ready)
    BY <1>2 DEF TxEdge
  <2>3. UNCHANGED <<seqVars, cdcUiVars>>
    BY <1>2 DEF TxEdge
  <2>4. Completing'
    BY <1>0, <2>2, <2>3, CompletingTx DEF TxRegisters
  <2> QED
    BY <2>1, <2>4 DEF DrainInv
<1>3. CASE UNCHANGED vars
  <2>1. UNCHANGED <<seqVars, fifoUiVars, fifoTxVars, cdcUiVars, fmtVars, uiEdges>>
    BY <1>3 DEF vars
  <2>2. Counting'
    BY <1>0, <2>1 DEF Counting, Taken, ReleasePending, Apart, seqVars, fifoUiVars, fifoTxVars
  <2>3. Completing'
    BY <1>0, <2>1 DEF Completing, AllRest, StartRests, EndRests, FormatterRests, Rests, Moves,
       seqVars, cdcUiVars, fmtVars
  <2> QED
    BY <2>2, <2>3 DEF DrainInv
<1> QED
  BY <1>1, <1>2, <1>3 DEF Next

THEOREM DrainInvariant == Spec => []DrainInv
BY DrainStarts, DrainKept, ReadInvariant, FifoInsideDump, PTL DEF Spec

LEMMA CountSlots ==
    LET taken == {s \in Bit : occupied[s]}
    IN  Cardinality(taken) = Taken(0) + Taken(1)
<1> DEFINE taken == {s \in Bit : occupied[s]}
<1>1. /\ Cardinality({}) = 0 /\ Cardinality({0}) = 1 /\ Cardinality({1}) = 1
      /\ Cardinality({0, 1}) = 2
  <2>1. Cardinality({}) = 0 /\ IsFiniteSet({})
    BY FS_EmptySet
  <2>2. /\ Cardinality({0}) = 1 /\ IsFiniteSet({0})
        /\ Cardinality({1}) = 1
    BY FS_Singleton
  <2>3. {0, 1} = {0} \cup {1} /\ 1 \notin {0}
    OBVIOUS
  <2>4. Cardinality({0} \cup {1}) = Cardinality({0}) + 1
    BY <2>2, <2>3, FS_AddElement
  <2> QED
    BY <2>1, <2>2, <2>3, <2>4
<1>2. CASE occupied[0] /\ occupied[1]
  <2>1. taken = {0, 1}
    BY <1>2 DEF Bit
  <2> QED
    BY <1>1, <1>2, <2>1 DEF Taken
<1>3. CASE occupied[0] /\ ~occupied[1]
  <2>1. taken = {0}
    BY <1>3 DEF Bit
  <2> QED
    BY <1>1, <1>3, <2>1 DEF Taken
<1>4. CASE ~occupied[0] /\ occupied[1]
  <2>1. taken = {1}
    BY <1>4 DEF Bit
  <2> QED
    BY <1>1, <1>4, <2>1 DEF Taken
<1>5. CASE ~occupied[0] /\ ~occupied[1]
  <2>1. taken = {}
    BY <1>5 DEF Bit
  <2> QED
    BY <1>1, <1>5, <2>1 DEF Taken
<1> QED
  BY <1>2, <1>3, <1>4, <1>5

(* frames_outstanding counts the reserved slots and the release being        *)
(* reported, and a completion frame is built only while the transmit side of *)
(* the FIFO is at rest: the sequencer has seen the count come to zero.       *)
THEOREM DrainReal == Spec => []DrainIsReal
<1>1. Frame!FifoInv /\ DrainInv => DrainIsReal
  <2> SUFFICES ASSUME Frame!FifoInv, DrainInv PROVE DrainIsReal
    OBVIOUS
  <2>1. Counting /\ Completing
    BY DEF DrainInv
  <2>2. framesOutstanding = Cardinality({s \in Bit : occupied[s]}) + ReleasePending
    BY <2>1, CountSlots DEF Counting
  <2>3. ASSUME FormatterSelected PROVE txState = "IDLE"
    <3>1. seqState = "DONE_WAIT"
      BY <2>1, <2>3 DEF FormatterSelected, Completing, AllRest, FormatterRests
    <3>2. ~occupied[0] /\ ~occupied[1]
      BY <2>1, <3>1, ZeroIsEmpty DEF Counting
    <3>3. readSlot \in Bit /\ (txState # "IDLE" => occupied[readSlot])
      BY DEF Frame!FifoInv, Frame!TypeOK, Frame!Handshake, Frame!Sending, Frame!Wavefront,
         Frame!Ownership, Frame!Chain, Frame!Stages, Frame!Bit, Frame!Slots, Bit
    <3> QED
      BY <3>2, <3>3 DEF Bit
  <2> QED
    BY <2>2, <2>3 DEF DrainIsReal
<1> QED
  BY <1>1, FifoInsideDump, DrainInvariant, PTL

ReadErrorsClear == protocolError = FALSE /\ dmaProtocolError = FALSE /\ dmaAxiError = FALSE

LEMMA ErrorsKept == ReadInv /\ ReadErrorsClear /\ [Next]_vars => ReadErrorsClear'
<1> SUFFICES ASSUME ReadInv, ReadErrorsClear, [Next]_vars PROVE ReadErrorsClear'
  OBVIOUS
<1>1. CASE UiEdge
  <2>1. PICK axi \in AxiAnswers, start \in BOOLEAN : UiRegisters(axi, start)
    BY <1>1 DEF UiEdge
  <2>2. Frame!UiIdle \/ Frame!UiBuild \/ Frame!UiBeat
    BY <1>1, <2>1, UiDrives DEF UiEdge, UiRegisters
  <2>3. protocolError' = FALSE
    <3>1. CASE Frame!UiIdle
      BY <3>1 DEF ReadErrorsClear, Frame!UiIdle, Frame!UiStep, Frame!NoBuild, Frame!NoData
    <3>2. CASE Frame!UiBuild
      BY <3>2 DEF ReadErrorsClear, Frame!UiBuild, Frame!UiStep, Frame!Build, Frame!NoData
    <3>3. CASE Frame!UiBeat
      BY <3>3 DEF ReadErrorsClear, Frame!UiBeat, Frame!UiStep, Frame!NoBuild, Frame!Data
    <3> QED
      BY <2>2, <3>1, <3>2, <3>3
  <2>4. axi.rlast = Dma!LastOfBurst /\ axi.bad = FALSE
    BY DEF AxiAnswers
  <2>5. dmaProtocolError' = FALSE /\ dmaAxiError' = FALSE
    BY <2>1, <2>4 DEF UiRegisters, ReadErrorsClear, Dma!DmaStep, Dma!DmaIdle, Dma!DmaStart,
       Dma!DmaPlan, Dma!DmaAddress, Dma!DmaWait, Dma!DmaData, Dma!DmaPad
  <2> QED
    BY <2>3, <2>5 DEF ReadErrorsClear
<1>2. CASE TxEdge
  BY <1>2 DEF TxEdge, ReadErrorsClear, dmaVars, fifoUiVars
<1>3. CASE UNCHANGED vars
  BY <1>3 DEF vars, ReadErrorsClear, dmaVars, fifoUiVars
<1> QED
  BY <1>1, <1>2, <1>3 DEF Next

(* With a memory that answers correctly the dump never raises one of its     *)
(* error latches: read length, frame protocol, memory and release count.     *)
THEOREM ErrorsStayClear == Spec => []NoSpuriousError
<1>1. Init => ReadErrorsClear
  BY DEF Init, ReadErrorsClear, Dma!DmaInit, Fifo!FifoInit
<1>2. Spec => []ReadErrorsClear
  BY <1>1, ErrorsKept, ReadInvariant, PTL DEF Spec
<1>3. ReadErrorsClear /\ DrainInv => NoSpuriousError
  BY DEF ReadErrorsClear, DrainInv, Counting, NoSpuriousError
<1> QED
  BY <1>2, <1>3, DrainInvariant, PTL

(* ------------------ the frames in order, record by record ---------------- *)

(* Of the hart being dumped: the frames the building of which has begun,     *)
(* those complete in a slot, those that have left; and whether its           *)
(* completion frame has.                                                     *)
Started == IF dmaState # "IDLE" \/ dmaDone THEN frameNumber + 1 ELSE frameNumber
Completed == Started - One(buildActive)
Waiting == One(Frame!Pending(readSlot)) + One(Frame!Pending(Flip(readSlot)))
Gone == Completed - Waiting
Told == seqState \in {"DONE_WAIT", "DONE"} /\ StartRests /\ FormatterRests
(* Frames of the harts dumped before.                                        *)
Before == IF hart = 0 THEN 0 ELSE FrameCount(written[0]) + 1

ValidOf(n) == IF written[hart] - RecordsPerFrame * n >= RecordsPerFrame
              THEN RecordsPerFrame ELSE written[hart] - RecordsPerFrame * n
WordOf(n, i) == << RecordAt(hart, RecordsPerFrame * n + 2 * i),
                   RecordAt(hart, RecordsPerFrame * n + 2 * i + 1) >>
Holds(s, n) ==
    /\ slotHeader[s].hart = hart /\ slotHeader[s].number = n
    /\ \A i \in 0 .. Beats - 1 : slotPayload[s][i] = WordOf(n, i)

(* A beat of frame n that has yet to be stored holds its records once the    *)
(* padding is blanked.                                                       *)
Fits(entry, n) == Fifo!Masked(entry.beat, entry.index, ValidOf(n)) = WordOf(n, entry.index)
Blanked(queue, n) == \A j \in 1 .. Len(queue) : Fits(queue[j], n)

(* The sequencer counts the frames of the hart.                              *)
Numbering ==
    /\ seqState = "IDLE" => hart = 0 /\ frameNumber = 0
    /\ seqState \notin {"IDLE", "DATA"} => frameNumber = FrameCount(written[hart])
    /\ dmaState = "PAD" => 2 * dataIndex >= activeRecords

(* The frame being built has the right header, and its beats, stored or      *)
(* still in the elastic queue, the right records.                            *)
Building ==
    buildActive =>
        /\ slotHeader[writeSlot].hart = hart
        /\ slotHeader[writeSlot].number = Completed
        /\ slotHeader[writeSlot].valid = ValidOf(Completed)
        /\ \A i \in 0 .. expectedIndex - 1 : slotPayload[writeSlot][i] = WordOf(Completed, i)
        /\ Blanked(elastic, Completed)

(* The complete frames are the next ones to leave.                           *)
Queued ==
    /\ Gone \in Nat
    /\ Frame!Pending(readSlot) => Holds(readSlot, Gone)
    /\ Frame!Pending(Flip(readSlot)) => Holds(Flip(readSlot), Gone + 1)

(* What the MAC has taken is the expected stream up to here.                 *)
Heard ==
    /\ Len(sent) = Before + Gone + One(Told)
    /\ \A i \in 1 .. Len(sent) : SameFrame(sent[i], Expected[i])

Recorded == \E S : sent \in Seq(S)
OrderInv == Numbering /\ Building /\ Queued /\ Heard /\ Recorded

-----------------------------------------------------------------------------
LEMMA Divided ==
    ASSUME NEW x \in Nat, NEW d \in Nat, d >= 1
    PROVE  x \div d \in Nat /\ d * (x \div d) <= x /\ x < d * (x \div d) + d
<1> DEFINE q == x \div d
           r == x % d
<1>1. q \in Int /\ r \in Nat /\ r < d /\ x = d * q + r
  OBVIOUS
<1> HIDE DEF q, r
<1>2. d * q \in Int /\ d * q > -d
  BY <1>1
<1>3. q >= 0
  <2>1. CASE q <= -1
    <3>1. d * q <= -d
      BY ONLY <1>1, <2>1, d \in Nat, d >= 1
    <3> QED
      BY <1>1, <1>2, <3>1
  <2> QED
    BY <1>1, <2>1
<1> QED
  BY <1>1, <1>2, <1>3 DEF q

(* How many frames hold so many records.                                     *)
LEMMA FramesNeeded ==
    ASSUME NEW total \in Nat, NEW n \in Nat
    PROVE  /\ FrameCount(total) \in Nat
           /\ total = 0 => FrameCount(total) = 0
           /\ RecordsPerFrame * n < total => n < FrameCount(total)
           /\ RecordsPerFrame * n < total /\ total <= RecordsPerFrame * n + RecordsPerFrame
                 => FrameCount(total) = n + 1
<1> DEFINE d == RecordsPerFrame
           q == FrameCount(total)
<1>1. d \in Nat /\ d >= 1
  BY DumpSizes
<1>2. q \in Nat /\ d * q <= total + (d - 1) /\ total + (d - 1) < d * q + d
  <2>1. total + (d - 1) \in Nat /\ q = (total + (d - 1)) \div d
    BY <1>1 DEF FrameCount
  <2> HIDE DEF d
  <2> QED
    BY <1>1, <2>1, Divided
<1> HIDE DEF d, q
<1>3. d * q \in Nat /\ d * n \in Nat
  BY <1>1, <1>2
<1>4. ASSUME total = 0 PROVE q = 0
  <2>1. CASE q >= 1
    <3>1. d * q >= d
      BY ONLY <1>1, <1>2, <2>1
    <3> QED
      BY <1>1, <1>2, <1>3, <1>4, <3>1
  <2> QED
    BY <1>2, <2>1
<1>5. ASSUME d * n < total PROVE n < q
  <2>1. CASE q <= n
    <3>1. d * q <= d * n
      BY ONLY <1>1, <1>2, <2>1, n \in Nat
    <3> QED
      BY <1>1, <1>2, <1>3, <1>5, <3>1
  <2> QED
    BY <1>2, <2>1
<1>6. ASSUME d * n < total, total <= d * n + d PROVE q = n + 1
  <2>1. CASE q >= n + 2
    <3>1. d * q >= d * (n + 2)
      BY ONLY <1>1, <1>2, <2>1, n \in Nat
    <3>2. d * (n + 2) = d * n + (d + d)
      BY ONLY <1>1, n \in Nat
    <3> QED
      BY <1>1, <1>2, <1>3, <1>6, <3>1, <3>2
  <2> QED
    BY <1>2, <1>5, <1>6, <2>1
<1> QED
  BY <1>2, <1>4, <1>5, <1>6 DEF d, q

LEMMA FramesOfHart ==
    ASSUME NEW h \in Harts, written \in [Harts -> Nat]
    PROVE  /\ \E S : FramesOf(h) \in Seq(S)
           /\ Len(FramesOf(h)) = FrameCount(written[h]) + 1
           /\ \A n \in Nat : n < FrameCount(written[h]) => FramesOf(h)[n + 1] = FullFrame(h, n)
           /\ FramesOf(h)[FrameCount(written[h]) + 1] = DoneFrame(h, written[h])
<1> DEFINE N == FrameCount(written[h])
           done == DoneFrame(h, written[h])
           S == {FullFrame(h, n) : n \in Nat} \cup {done}
           data == [n \in 1 .. N |-> FullFrame(h, n - 1)]
<1>1. N \in Nat
  BY FramesNeeded
<1>2. data \in [1 .. N -> S]
  <2>1. \A n \in 1 .. N : n - 1 \in Nat
    BY <1>1
  <2> QED
    BY <2>1
<1>3. data \in Seq(S) /\ Len(data) = N
  <2> HIDE DEF data, S, N
  <2>1. data \in Seq(S)
    BY <1>1, <1>2, SeqDef
  <2> QED
    BY <1>1, <1>2, <2>1
<1>4. FramesOf(h) = Append(data, done) /\ done \in S
  <2>1. FramesOf(h) = data \o <<done>>
    BY DEF FramesOf
  <2> HIDE DEF data, done, S
  <2> QED
    BY <1>3, <2>1, AppendIsConcat DEF S
<1>5. \A n \in Nat : n < N => data[n + 1] = FullFrame(h, n)
  <2>1. ASSUME NEW n \in Nat, n < N PROVE data[n + 1] = FullFrame(h, n)
    <3>1. n + 1 \in 1 .. N /\ (n + 1) - 1 = n
      BY <1>1, <2>1
    <3> QED
      BY <3>1
  <2> QED
    BY <2>1
<1> HIDE DEF data, done, S, N
<1>6. /\ Append(data, done) \in Seq(S) /\ Len(Append(data, done)) = N + 1
      /\ Append(data, done)[N + 1] = done
      /\ \A i \in 1 .. N : Append(data, done)[i] = data[i]
  BY <1>3, <1>4, AppendProperties
<1>7. \A n \in Nat : n < N => Append(data, done)[n + 1] = FullFrame(h, n)
  <2>1. ASSUME NEW n \in Nat, n < N PROVE Append(data, done)[n + 1] = FullFrame(h, n)
    <3>1. n + 1 \in 1 .. N
      BY <1>1, <2>1
    <3> QED
      BY <1>5, <1>6, <2>1, <3>1
  <2> QED
    BY <2>1
<1> QED
  BY <1>4, <1>6, <1>7 DEF N, done

(* The place of a frame in the stream of a whole dump.                       *)
LEMMA ExpectedAt ==
    ASSUME hart \in Harts, written \in [Harts -> Nat], NEW n \in Nat
    PROVE  /\ Before \in Nat
           /\ n < FrameCount(written[hart]) =>
                 Expected[(Before + n) + 1] = FullFrame(hart, n)
           /\ Expected[(Before + FrameCount(written[hart])) + 1] = DoneFrame(hart, written[hart])
           /\ (Before + FrameCount(written[hart])) + 1 <= Len(Expected)
<1> DEFINE a == FramesOf(0)
           b == FramesOf(1)
           A == FrameCount(written[0])
           B == FrameCount(written[1])
<1>1. A \in Nat /\ B \in Nat
  BY FramesNeeded DEF Harts, Bit
<1>2. PICK S1 : a \in Seq(S1)
  BY FramesOfHart DEF Harts, Bit
<1>3. PICK S2 : b \in Seq(S2)
  BY FramesOfHart DEF Harts, Bit
<1>4. /\ Len(a) = A + 1 /\ Len(b) = B + 1
      /\ n < A => a[n + 1] = FullFrame(0, n)
      /\ n < B => b[n + 1] = FullFrame(1, n)
      /\ a[A + 1] = DoneFrame(0, written[0]) /\ b[B + 1] = DoneFrame(1, written[1])
  BY FramesOfHart DEF Harts, Bit
<1> DEFINE S == S1 \cup S2
<1>5. a \in Seq(S) /\ b \in Seq(S)
  BY <1>2, <1>3, SeqMonotonic
<1> HIDE DEF a, b, A, B, S
<1>6. /\ Len(a \o b) = Len(a) + Len(b)
      /\ \A i \in 1 .. Len(a) + Len(b) :
            (a \o b)[i] = IF i <= Len(a) THEN a[i] ELSE b[i - Len(a)]
  BY <1>5, ConcatProperties
<1>7. Expected = a \o b
  BY DEF Expected, a, b
<1>8. CASE hart = 0
  <2>1. Before = 0 /\ written[hart] = written[0]
    BY <1>8 DEF Before
  <2>2. n < A => (0 + n) + 1 \in 1 .. Len(a) + Len(b) /\ (0 + n) + 1 <= Len(a) /\ (0 + n) + 1 = n + 1
    BY <1>1, <1>4
  <2>3. (0 + A) + 1 \in 1 .. Len(a) + Len(b) /\ (0 + A) + 1 <= Len(a) /\ (0 + A) + 1 = A + 1
    BY <1>1, <1>4
  <2> QED
    BY <1>1, <1>4, <1>6, <1>7, <1>8, <2>1, <2>2, <2>3 DEF A
<1>9. CASE hart = 1
  <2>1. Before = A + 1 /\ written[hart] = written[1] /\ FrameCount(written[hart]) = B
    BY <1>9 DEF Before, A, B
  <2>2. /\ n < B => /\ (A + 1 + n) + 1 \in 1 .. Len(a) + Len(b) /\ ~((A + 1 + n) + 1 <= Len(a))
                    /\ ((A + 1 + n) + 1) - Len(a) = n + 1
        /\ (A + 1 + B) + 1 \in 1 .. Len(a) + Len(b) /\ ~((A + 1 + B) + 1 <= Len(a))
        /\ ((A + 1 + B) + 1) - Len(a) = B + 1
    BY <1>1, <1>4
  <2> QED
    BY <1>1, <1>4, <1>6, <1>7, <1>9, <2>1, <2>2
<1> QED
  BY <1>8, <1>9 DEF Harts, Bit

LEMMA ExpectedLength ==
    ASSUME written \in [Harts -> Nat]
    PROVE  /\ Len(Expected) = (FrameCount(written[0]) + 1) + (FrameCount(written[1]) + 1)
           /\ Len(Expected) \in Nat /\ \E S : Expected \in Seq(S)
<1>1. PICK S1, S2 : FramesOf(0) \in Seq(S1) /\ FramesOf(1) \in Seq(S2)
  BY FramesOfHart DEF Harts, Bit
<1>2. FramesOf(0) \in Seq(S1 \cup S2) /\ FramesOf(1) \in Seq(S1 \cup S2)
  BY <1>1, SeqMonotonic
<1>3. /\ Len(Expected) = Len(FramesOf(0)) + Len(FramesOf(1))
      /\ Expected \in Seq(S1 \cup S2)
  BY <1>2, ConcatProperties DEF Expected
<1>4. Len(Expected) \in Nat
  BY <1>3, LenProperties
<1> QED
  BY <1>3, <1>4, FramesOfHart DEF Harts, Bit

(* Outside DATA and DRAIN the way to the MAC is empty.                       *)
Empty == /\ ~Reading /\ ~buildActive /\ elastic = <<>>
         /\ \A s \in Bit : ~Frame!Pending(s)
LEMMA NothingInside ==
    ASSUME ReadInv, Frame!FifoInv, Counting, seqState \notin {"DATA", "DRAIN"}
    PROVE  Empty
<1>1. ~Reading
  BY DEF ReadInv, Sequencing
<1>2. ~occupied[0] /\ ~occupied[1]
  BY ZeroIsEmpty DEF Counting
<1>3. \A s \in Bit : ~Frame!Pending(s)
  BY <1>2, Frame!PendingIsTaken, FrameAssumption DEF Frame!Slots, Frame!Bit, Bit
<1>4. ~buildActive
  <2>1. writeSlot \in Frame!Slots /\ writeSlot \in {0, 1}
    BY DEF ReadInv, DumpTypes, Frame!Slots, Frame!Bit, Bit
  <2>2. Frame!Ownership(writeSlot)
    BY <2>1 DEF Frame!FifoInv, Frame!Handshake
  <2> QED
    BY <1>2, <2>1, <2>2 DEF Frame!Ownership
<1>5. elastic = <<>>
  BY <1>4 DEF ReadInv, Streaming
<1> QED
  BY <1>1, <1>3, <1>4, <1>5 DEF Empty

LEMMA EmptyIsGone ==
    ASSUME Empty, readSlot \in Bit, frameNumber \in Nat
    PROVE  Completed = frameNumber /\ Waiting = 0 /\ Gone = frameNumber
<1>1. Flip(readSlot) \in Bit
  BY DEF Flip, Bit
<1> QED
  BY <1>1 DEF Empty, Reading, Completed, Started, Waiting, Gone, One

(* A dump begins, or the second hart's part of it.                           *)
Turns(start) == SeqBegin(start) \/ SeqHart0Done

LEMMA TurnsOnlyEmpty ==
    ASSUME ReadInv, Frame!FifoInv, Counting, NEW start, Turns(start)
    PROVE  Empty
BY NothingInside DEF Turns, SeqBegin, SeqHart0Done

LEMMA StartedUi ==
    ASSUME ReadInv, NEW axi, UiMoved(axi), NEW start, SeqStep(start)
    PROVE  /\ ~Turns(start) => hart' = hart /\ Started' = Started + One(readStart)
           /\ Turns(start) => hart' \in Harts /\ frameNumber' = 0
           /\ Turns(start) /\ ~Reading => Started' = 0
<1>t. DumpTypes /\ Sequencing
  BY DEF ReadInv
<1>f. frameNumber \in Nat /\ frameNumber' \in {0, frameNumber, frameNumber + 1}
  BY <1>t DEF DumpTypes, SeqStep, SeqBegin, SeqRest, SeqPlan, SeqReadDone, SeqHold, SeqDrained,
     SeqDoneStart, SeqHart0Done, SeqHart1Done
<1> DEFINE busy == dmaState # "IDLE" \/ dmaDone
<1>1. (dmaState' # "IDLE" \/ dmaDone') <=> (dmaState # "IDLE" \/ readStart)
  BY <1>t DEF UiMoved, DmaMoved, Pushed, DumpTypes
<1>2. ~Turns(start) => hart' = hart /\ frameNumber' = IF dmaDone THEN frameNumber + 1 ELSE frameNumber
  BY <1>t DEF Turns, SeqStep, SeqRest, SeqPlan, SeqReadDone, SeqHold, SeqDrained,
     SeqDoneStart, SeqHart1Done, Sequencing, Reading, CanPlan
<1>3. Turns(start) => hart' \in Harts /\ frameNumber' = 0
  BY DEF Turns, SeqBegin, SeqHart0Done, Harts, Bit
<1>4. (readStart => ~busy) /\ ~(dmaDone /\ dmaState # "IDLE")
  BY <1>t DEF Sequencing
<1>5. ASSUME ~Turns(start) PROVE Started' = Started + One(readStart)
  <2>1. Started = IF busy THEN frameNumber + 1 ELSE frameNumber
    BY DEF Started
  <2>2. Started' = IF dmaState # "IDLE" \/ readStart THEN frameNumber' + 1 ELSE frameNumber'
    BY <1>1 DEF Started
  <2>3. frameNumber' = IF dmaDone THEN frameNumber + 1 ELSE frameNumber
    BY <1>2, <1>5
  <2>4. CASE dmaDone
    <3>1. ~readStart /\ dmaState = "IDLE"
      BY <1>4, <2>4
    <3> QED
      BY <1>f, <2>1, <2>2, <2>3, <2>4, <3>1 DEF One
  <2>5. CASE ~dmaDone /\ readStart
    <3>1. dmaState = "IDLE"
      BY <1>4, <2>5
    <3> QED
      BY <1>f, <2>1, <2>2, <2>3, <2>5, <3>1 DEF One
  <2>6. CASE ~dmaDone /\ ~readStart
    BY <1>f, <2>1, <2>2, <2>3, <2>6 DEF One
  <2> QED
    BY <2>4, <2>5, <2>6
<1>6. ASSUME Turns(start), ~Reading PROVE Started' = 0
  BY <1>1, <1>3, <1>6 DEF Started, Reading
<1> QED
  BY <1>2, <1>3, <1>5, <1>6

(* What a UI edge does to the slots and to the frame being built.            *)
SlotsMoved ==
    /\ \A s \in Bit :
          /\ Frame!Pending(s)' <=> (Frame!Pending(s) \/ (StoresLast /\ s = writeSlot))
          /\ Frame!Pending(s) => slotHeader'[s] = slotHeader[s] /\ slotPayload'[s] = slotPayload[s]
    /\ StoresLast => ~Frame!Pending(writeSlot)
    /\ writeSlot' = IF StoresLast THEN Flip(writeSlot) ELSE writeSlot
    /\ readStart => slotHeader'[writeSlot] = BuildRequest.header
    /\ ~readStart => slotHeader' = slotHeader
    /\ Stored => slotPayload'[writeSlot] =
                    [slotPayload[writeSlot] EXCEPT ![expectedIndex] =
                        Fifo!Masked(elastic[1].beat, expectedIndex, slotHeader[writeSlot].valid)]
    /\ ~Stored => slotPayload' = slotPayload

LEMMA OfferIsFirst ==
    ASSUME DumpTypes, Streaming
    PROVE  /\ (DataOffer.valid /\ buildActive) <=> Stored
           /\ Stored => /\ DataOffer.index = expectedIndex /\ DataOffer.beat = elastic[1].beat
                        /\ elastic[1].index = expectedIndex /\ 1 \in 1 .. Len(elastic)
<1>1. CASE elastic = <<>>
  BY <1>1 DEF DataOffer, Stored
<1>2. CASE elastic # <<>>
  <2>1. 1 \in 1 .. Len(elastic) /\ Head(elastic) = elastic[1]
    BY <1>2 DEF DumpTypes
  <2>2. elastic[1].index = expectedIndex
    BY <2>1 DEF Streaming, DumpTypes, Consecutive
  <2> QED
    BY <1>2, <2>1, <2>2 DEF DataOffer, Dma!Offer, Stored
<1> QED
  BY <1>1, <1>2

LEMMA SlotsUi ==
    ASSUME ReadInv, Frame!FifoInv, Fifo!UiStep(BuildRequest, DataOffer), UNCHANGED fifoTxVars
    PROVE  SlotsMoved
<1>t. DumpTypes /\ Sequencing /\ Streaming /\ writeSlot \in Bit
  BY DEF ReadInv, DumpTypes
<1>u. Frame!UiStep(BuildRequest, DataOffer) /\ UNCHANGED Frame!txVars
  BY SameUiStep DEF fifoTxVars, Frame!txVars
<1>o. /\ (DataOffer.valid /\ buildActive) <=> Stored
      /\ Stored => DataOffer.index = expectedIndex /\ DataOffer.beat = elastic[1].beat
  BY <1>t, OfferIsFirst
<1>p. Frame!Published(DataOffer) <=> StoresLast
  BY <1>o DEF Frame!Published, StoresLast
<1>1. /\ \A s \in Frame!Slots :
            /\ Frame!Pending(s)' <=> (Frame!Pending(s) \/ (Frame!Published(DataOffer) /\ s = writeSlot))
            /\ Frame!Pending(s) => slotHeader'[s] = slotHeader[s] /\ slotPayload'[s] = slotPayload[s]
      /\ Frame!Published(DataOffer) => ~Frame!Pending(writeSlot)
      /\ writeSlot' = IF Frame!Published(DataOffer) THEN Frame!Flip(writeSlot) ELSE writeSlot
  BY <1>u, Frame!UiPublishes, FrameAssumption
<1>a. (BuildRequest.start /\ Fifo!BuildReady) <=> readStart
  BY <1>t DEF BuildRequest, Sequencing
<1>2. /\ slotHeader' = IF readStart THEN [slotHeader EXCEPT ![writeSlot] = BuildRequest.header]
                       ELSE slotHeader
      /\ slotPayload' =
            IF Stored THEN [slotPayload EXCEPT ![writeSlot][expectedIndex] =
                Fifo!Masked(elastic[1].beat, expectedIndex, slotHeader[writeSlot].valid)]
            ELSE slotPayload
  BY <1>a, <1>o DEF Fifo!UiStep
<1>3. DOMAIN slotHeader = Bit /\ DOMAIN slotPayload = Bit
  BY DEF Frame!FifoInv, Frame!TypeOK, Frame!Slots, Frame!Bit, Bit
<1>4. /\ readStart => slotHeader'[writeSlot] = BuildRequest.header
      /\ ~readStart => slotHeader' = slotHeader
  BY <1>t, <1>2, <1>3
<1>5. /\ Stored => slotPayload'[writeSlot] =
                    [slotPayload[writeSlot] EXCEPT ![expectedIndex] =
                        Fifo!Masked(elastic[1].beat, expectedIndex, slotHeader[writeSlot].valid)]
      /\ ~Stored => slotPayload' = slotPayload
  BY <1>t, <1>2, <1>3
<1> QED
  BY <1>1, <1>4, <1>5, <1>p DEF SlotsMoved, Frame!Slots, Frame!Bit, Bit, Frame!Flip, Flip

(* What is counted as gone stands still at a UI edge.                        *)
LEMMA GoneUi ==
    ASSUME ReadInv, Frame!FifoInv, NEW axi, UiMoved(axi), NEW start, SeqStep(start),
           SlotsMoved, readSlot' = readSlot, ~Turns(start), Gone \in Nat
    PROVE  /\ Completed' = Completed + One(StoresLast) /\ Waiting' = Waiting + One(StoresLast)
           /\ Gone' = Gone /\ hart' = hart /\ Before' = Before
           /\ Completed \in Int /\ Waiting \in Nat /\ Completed = Gone + Waiting
<1>t. DumpTypes /\ Sequencing /\ writeSlot \in Bit /\ readSlot \in Bit /\ Flip(readSlot) \in Bit
      /\ readSlot # Flip(readSlot)
  BY DEF ReadInv, DumpTypes, Frame!FifoInv, Frame!TypeOK, Frame!Slots, Frame!Bit, Bit, Flip
<1>1. hart' = hart /\ Started' = Started + One(readStart) /\ Started \in Nat
  BY <1>t, StartedUi DEF Started, DumpTypes
<1>2. /\ readStart => ~buildActive
      /\ StoresLast => buildActive
      /\ buildActive' = (readStart \/ (buildActive /\ ~StoresLast))
  BY <1>t DEF UiMoved, Sequencing, Fifo!BuildReady, StoresLast, Stored
<1>3. Completed' = Completed + One(StoresLast) /\ Completed \in Int
  <2> DEFINE n == Started
             b == buildActive
             n2 == Started'
             b2 == buildActive'
  <2>1. Completed = n - One(b) /\ Completed' = n2 - One(b2)
    BY DEF Completed, One
  <2>2. n2 = n + One(readStart) /\ n \in Nat /\ b2 = (readStart \/ (b /\ ~StoresLast))
    BY <1>1, <1>2
  <2>3. (readStart => ~b) /\ (StoresLast => b)
    BY <1>2
  <2> HIDE DEF n, b, n2, b2
  <2>4. CASE readStart
    <3>1. One(b) = 0 /\ One(b2) = 1 /\ One(readStart) = 1 /\ One(StoresLast) = 0
      BY <2>2, <2>3, <2>4 DEF One
    <3> QED
      BY <2>1, <2>2, <3>1
  <2>5. CASE ~readStart /\ StoresLast
    <3>1. One(b) = 1 /\ One(b2) = 0 /\ One(readStart) = 0 /\ One(StoresLast) = 1
      BY <2>2, <2>3, <2>5 DEF One
    <3> QED
      BY <2>1, <2>2, <3>1
  <2>6. CASE ~readStart /\ ~StoresLast
    <3>1. One(b2) = One(b) /\ One(b) \in Int /\ One(readStart) = 0 /\ One(StoresLast) = 0
      <4>1. b2 <=> b
        BY <2>2, <2>6
      <4>2. CASE b
        BY <2>6, <4>1, <4>2 DEF One
      <4>3. CASE ~b
        BY <2>6, <4>1, <4>3 DEF One
      <4> QED
        BY <4>2, <4>3
    <3> QED
      BY <2>1, <2>2, <3>1
  <2> QED
    BY <2>4, <2>5, <2>6
<1>4. Waiting' = Waiting + One(StoresLast) /\ Waiting \in Nat
  BY <1>t DEF Waiting, SlotsMoved, One, Bit, Flip
<1>5. written' = written
  BY DEF UiMoved
<1> QED
  BY <1>1, <1>3, <1>4, <1>5 DEF Gone, Before, One

(* The frame under way keeps its hart, its number and its records.           *)
LEMMA ReadingStays ==
    ASSUME ReadInv, NEW axi, UiMoved(axi), Reading, ~dmaDone
    PROVE  /\ ~readStart' /\ seqState = "DATA"
           /\ UNCHANGED <<seqState, hart, frameNumber, recordsRemaining, activeRecords>>
BY DEF UiMoved, SeqMoved, ReadInv, Sequencing

LEMMA NumberingUi ==
    ASSUME ReadInv, Numbering, NEW axi, UiMoved(axi), NEW start, SeqStep(start),
           Dma!DmaStep(ReadRequest, axi, buildActive)
    PROVE  Numbering'
<1>t. DumpTypes /\ Sequencing /\ written' = written
  BY DEF ReadInv, UiMoved
<1>n. /\ seqState = "IDLE" => hart = 0 /\ frameNumber = 0
      /\ seqState \notin {"IDLE", "DATA"} => frameNumber = FrameCount(written[hart])
      /\ dmaState = "PAD" => 2 * dataIndex >= activeRecords
  BY DEF Numbering
<1>1. seqState' = "IDLE" => hart' = 0 /\ frameNumber' = 0
  BY <1>n DEF SeqStep, SeqBegin, SeqRest, SeqPlan, SeqReadDone, SeqHold, SeqDrained,
     SeqDoneStart, SeqHart0Done, SeqHart1Done
<1>2. ASSUME seqState' \notin {"IDLE", "DATA"} PROVE frameNumber' = FrameCount(written[hart'])
  <2>1. CASE SeqBegin(start) \/ SeqHart0Done
    <3>1. frameNumber' = 0 /\ written[hart'] = 0
      BY <1>2, <2>1 DEF SeqBegin, SeqHart0Done
    <3> QED
      BY <3>1, FramesNeeded
  <2>2. CASE SeqReadDone
    <3>1. /\ frameNumber' = frameNumber + 1 /\ hart' = hart
          /\ recordsRemaining <= activeRecords /\ seqState = "DATA" /\ dmaDone
      BY <1>2, <2>2 DEF SeqReadDone
    <3>2. /\ recordsRemaining # 0 /\ activeRecords = FrameRecords
          /\ RecordsPerFrame * frameNumber + recordsRemaining = written[hart]
      BY <1>t, <3>1 DEF Sequencing, Reading
    <3> DEFINE base == RecordsPerFrame * frameNumber
    <3>3. /\ frameNumber \in Nat /\ recordsRemaining \in Nat /\ written[hart] \in Nat
          /\ RecordsPerFrame \in Nat /\ base \in Nat
      BY <1>t, DumpSizes DEF DumpTypes
    <3>4. recordsRemaining <= RecordsPerFrame
      BY <3>1, <3>2, <3>3 DEF FrameRecords
    <3> HIDE DEF base
    <3>5. base < written[hart] /\ written[hart] <= base + RecordsPerFrame
      BY <3>2, <3>3, <3>4 DEF base
    <3>6. FrameCount(written[hart]) = frameNumber + 1
      BY <3>3, <3>5, FramesNeeded DEF base
    <3> QED
      BY <3>1, <3>6
  <2>3. CASE ~(SeqBegin(start) \/ SeqHart0Done \/ SeqReadDone)
    BY <1>n, <1>2, <2>3 DEF SeqStep, SeqRest, SeqPlan, SeqHold, SeqDrained,
       SeqDoneStart, SeqHart1Done
  <2> QED
    BY <2>1, <2>2, <2>3
<1>3. ASSUME dmaState' = "PAD" PROVE 2 * dataIndex' >= activeRecords'
  <2>1. dmaState # "IDLE"
    BY <1>3 DEF Dma!DmaStep, Dma!DmaIdle, Dma!DmaStart, Dma!DmaPlan, Dma!DmaAddress,
       Dma!DmaWait, Dma!DmaData, Dma!DmaPad
  <2>2. activeRecords' = activeRecords
    BY <1>t, <2>1, ReadingStays DEF Reading, Sequencing
  <2>3. /\ dataIndex \in Nat /\ activeRecords \in Nat /\ beatsRemaining \in Nat
    BY <1>t DEF DumpTypes
  <2>4. CASE dmaState = "PAD"
    <3>1. dataIndex' \in {dataIndex, dataIndex + 1}
      BY <2>4 DEF Dma!DmaStep, Dma!DmaIdle, Dma!DmaStart, Dma!DmaPlan, Dma!DmaAddress,
         Dma!DmaWait, Dma!DmaData, Dma!DmaPad
    <3>2. 2 * dataIndex >= activeRecords
      BY <1>n, <2>4
    <3> DEFINE d == dataIndex
               e == dataIndex'
               r == activeRecords
    <3>3. d \in Nat /\ r \in Nat /\ 2 * d >= r /\ (e = d \/ e = d + 1)
      BY <2>3, <3>1, <3>2
    <3> HIDE DEF d, e, r
    <3>4. 2 * e >= r
      BY ONLY <3>3
    <3> QED
      BY <2>2, <3>4 DEF e, r
  <2>5. CASE dmaState # "PAD"
    <3>1. /\ dmaState = "R" /\ beatsRemaining = 1 /\ dataIndex' = dataIndex + 1
      BY <1>3, <2>5 DEF Dma!DmaStep, Dma!DmaIdle, Dma!DmaStart, Dma!DmaPlan, Dma!DmaAddress,
         Dma!DmaWait, Dma!DmaData, Dma!DmaPad
    <3>2. dataIndex + 1 = Dma!BeatsFor(activeRecords)
      BY <3>1 DEF ReadInv, Bursting
    <3>3. 2 * Dma!BeatsFor(activeRecords) >= activeRecords
      BY <2>3 DEF Dma!BeatsFor
    <3> QED
      BY <2>2, <3>1, <3>2, <3>3
  <2> QED
    BY <2>4, <2>5
<1> QED
  BY <1>1, <1>2, <1>3, <1>t DEF Numbering

LEMMA BlankedTail ==
    ASSUME NEW q \in Seq(Entries), q # <<>>, NEW n, Blanked(q, n)
    PROVE  Blanked(Tail(q), n)
<1>1. /\ Tail(q) \in Seq(Entries) /\ Len(Tail(q)) = Len(q) - 1 /\ Len(q) \in Nat
      /\ \A j \in 1 .. Len(q) - 1 : Tail(q)[j] = q[j + 1]
  OBVIOUS
<1>2. ASSUME NEW j \in 1 .. Len(q) - 1 PROVE Fits(Tail(q)[j], n)
  <2>1. j + 1 \in 1 .. Len(q)
    BY <1>1
  <2> QED
    BY <1>1, <2>1 DEF Blanked
<1> QED
  BY <1>1, <1>2 DEF Blanked

LEMMA BlankedAppend ==
    ASSUME NEW q \in Seq(Entries), NEW e \in Entries, NEW n, Blanked(q, n), Fits(e, n)
    PROVE  Blanked(Append(q, e), n)
<1>1. /\ Len(Append(q, e)) = Len(q) + 1 /\ Len(q) \in Nat
      /\ \A j \in 1 .. Len(q) : Append(q, e)[j] = q[j]
      /\ Append(q, e)[Len(q) + 1] = e
  OBVIOUS
<1>2. ASSUME NEW j \in 1 .. Len(q) + 1 PROVE Fits(Append(q, e)[j], n)
  <2>1. CASE j = Len(q) + 1
    BY <1>1, <2>1
  <2>2. CASE j # Len(q) + 1
    <3>1. j \in 1 .. Len(q)
      BY <1>1, <2>2
    <3> QED
      BY <1>1, <3>1 DEF Blanked
  <2> QED
    BY <2>1, <2>2
<1> QED
  BY <1>1, <1>2 DEF Blanked

(* The records left are those of the frame's number.                         *)
LEMMA ActiveIsValid ==
    ASSUME ReadInv, Reading
    PROVE  /\ activeRecords = ValidOf(frameNumber) /\ buildNumber = frameNumber
           /\ frameNumber \in Nat /\ written[hart] \in Nat
<1>1. /\ RecordsPerFrame * frameNumber + recordsRemaining = written[hart]
      /\ activeRecords = FrameRecords /\ buildNumber = frameNumber
  BY DEF ReadInv, Sequencing
<1>2. /\ frameNumber \in Nat /\ recordsRemaining \in Nat /\ written[hart] \in Nat
      /\ RecordsPerFrame * frameNumber \in Nat
  BY DumpSizes DEF ReadInv, DumpTypes
<1>3. recordsRemaining = written[hart] - RecordsPerFrame * frameNumber
  BY <1>1, <1>2
<1> QED
  BY <1>1, <1>2, <1>3 DEF FrameRecords, ValidOf

(* While a frame is read, or has just been, it is the one being built.       *)
LEMMA BuildsActive ==
    ASSUME ReadInv, buildActive, Reading
    PROVE  ~readStart /\ Completed = frameNumber
<1>1. ~readStart
  BY DEF ReadInv, Sequencing, Fifo!BuildReady
<1>2. frameNumber \in Nat
  BY DEF ReadInv, DumpTypes
<1> QED
  BY <1>1, <1>2 DEF Reading, Completed, Started, One

(* A beat that comes from the memory, or from the padding, fits its place.   *)
LEMMA PushedFits ==
    ASSUME ReadInv, Numbering, NEW axi, Pushed(axi)
    PROVE  Fits(Dma!Entry(IF dmaState = "PAD" THEN Dma!ZeroBeat ELSE Dma!MemoryBeat), Completed)
<1>t. DumpTypes /\ Streaming /\ Bursting
  BY DEF ReadInv
<1>1. Reading /\ dmaState \in {"PAD", "R"} /\ buildActive
  BY <1>t DEF Pushed, Dma!Pushes, Reading, Streaming
<1>2. /\ Completed = frameNumber /\ activeRecords = ValidOf(frameNumber)
      /\ frameNumber \in Nat /\ written[hart] \in Nat
  BY <1>1, ActiveIsValid, BuildsActive
<1> DEFINE i == dataIndex
           v == ValidOf(frameNumber)
           base == RecordsPerFrame * frameNumber
           total == written[hart]
           entry == Dma!Entry(IF dmaState = "PAD" THEN Dma!ZeroBeat ELSE Dma!MemoryBeat)
<1>3. /\ i \in Nat /\ i < Beats /\ base \in Nat /\ total \in Nat
      /\ v = IF total - base >= RecordsPerFrame THEN RecordsPerFrame ELSE total - base
  BY <1>t, <1>1, <1>2, DumpSizes DEF DumpTypes, Streaming, ValidOf
<1>4. WordOf(Completed, i) = << RecordAt(hart, base + 2 * i), RecordAt(hart, base + 2 * i + 1) >>
  BY <1>2 DEF WordOf
<1>5. entry.index = i /\ entry.beat = IF dmaState = "PAD" THEN Dma!ZeroBeat ELSE Dma!MemoryBeat
  BY DEF Dma!Entry
<1>a. base = 2 * (Beats * frameNumber) /\ Beats * frameNumber \in Nat
  BY <1>2, DumpSizes
<1>6. /\ 2 * i < v <=> base + 2 * i < total
      /\ 2 * i + 1 < v <=> base + 2 * i + 1 < total
  <2> HIDE DEF i, v, base, total
  <2> QED
    BY <1>3, DumpSizes
<1>7. Fifo!Masked(entry.beat, i, v) = WordOf(Completed, i)
  <2>1. CASE dmaState = "PAD"
    <3>1. 2 * i >= v
      BY <1>2, <2>1 DEF Numbering
    <3>2. v \in Int
      <4> HIDE DEF base, total
      <4> QED
        BY <1>3, DumpSizes
    <3>3. ~(2 * i < v) /\ ~(2 * i + 1 < v)
      <4> HIDE DEF i, v
      <4> QED
        BY <1>3, <3>1, <3>2
    <3> QED
      BY <1>4, <1>5, <1>6, <2>1, <3>3 DEF Fifo!Masked, Fifo!Zero, RecordAt
  <2>2. CASE dmaState = "R"
    <3>1. dmaHart = hart /\ address = Beats * frameNumber + i
      BY <1>t, <2>2 DEF Streaming, Bursting
    <3>2. 2 * address = base + 2 * i /\ 2 * address + 1 = base + 2 * i + 1
      <4> HIDE DEF i, base
      <4> QED
        BY <1>3, <1>a, <3>1
    <3>3. entry.beat = << <<hart, base + 2 * i>>, <<hart, base + 2 * i + 1>> >>
      BY <1>5, <2>2, <3>1, <3>2 DEF Dma!MemoryBeat
    <3> HIDE DEF i, v, base, entry
    <3> QED
      BY <1>4, <1>6, <3>3 DEF Fifo!Masked, Fifo!Zero, RecordAt, total
  <2> QED
    BY <1>1, <2>1, <2>2
<1> HIDE DEF i, v, entry
<1> QED
  BY <1>2, <1>5, <1>7 DEF Fits, v, entry

LEMMA BuildingUi ==
    ASSUME ReadInv, Frame!FifoInv, Counting, Numbering, Building, Gone \in Nat,
           NEW axi, UiMoved(axi), NEW start, SeqStep(start), SlotsMoved, readSlot' = readSlot,
           Dma!DmaStep(ReadRequest, axi, buildActive)
    PROVE  Building'
<1>t. DumpTypes /\ Sequencing /\ Streaming /\ writeSlot \in Bit /\ written' = written
  BY DEF ReadInv, DumpTypes, UiMoved
<1>m. /\ buildActive' = (readStart \/ (buildActive /\ ~StoresLast))
      /\ expectedIndex' = IF readStart \/ StoresLast THEN 0
                          ELSE IF Stored THEN expectedIndex + 1 ELSE expectedIndex
      /\ StoresLast => Stored
      /\ Stored => buildActive
      /\ readStart => ~buildActive
  BY <1>t DEF UiMoved, StoresLast, Stored, Sequencing, Fifo!BuildReady
<1>c. readStart \/ buildActive =>
         /\ ~Turns(start)
         /\ Completed' = Completed + One(StoresLast) /\ hart' = hart /\ Completed \in Int
  BY TurnsOnlyEmpty, GoneUi DEF Empty, Reading
<1>1. CASE readStart
  <2>1. ~buildActive /\ ~Stored /\ ~StoresLast /\ dmaState = "IDLE" /\ ~dmaDone
    BY <1>t, <1>m, <1>1 DEF Sequencing
  <2>2. /\ Completed = frameNumber /\ Completed' = frameNumber /\ hart' = hart
    BY <1>t, <1>c, <1>1, <2>1 DEF Completed, Started, One, DumpTypes
  <2>3. /\ writeSlot' = writeSlot
        /\ slotHeader'[writeSlot] = [hart |-> hart, number |-> frameNumber,
                                     valid |-> ValidOf(frameNumber)]
    BY <1>1, <2>1, ActiveIsValid DEF SlotsMoved, BuildRequest, Reading
  <2>4. expectedIndex' = 0 /\ elastic' = <<>>
    <3>1. Len(elastic') = 0 /\ elastic' \in Seq(Entries)
      BY <1>t, <2>1 DEF UiMoved, ElasticMoved, Pushed, One, Streaming
    <3> QED
      BY <1>m, <1>1, <3>1
  <2>5. ValidOf(Completed)' = ValidOf(frameNumber)
    BY <1>t, <2>2 DEF ValidOf
  <2> QED
    BY <2>2, <2>3, <2>4, <2>5 DEF Building, Blanked
<1>2. CASE ~readStart /\ buildActive /\ ~StoresLast
  <2> DEFINE c == Completed
             w == writeSlot
             left == IF Stored THEN Tail(elastic) ELSE elastic
             entry == Dma!Entry(IF dmaState = "PAD" THEN Dma!ZeroBeat ELSE Dma!MemoryBeat)
  <2>1. /\ Completed' = c /\ hart' = hart /\ writeSlot' = w /\ slotHeader' = slotHeader
        /\ c \in Int
    BY <1>c, <1>2 DEF One, SlotsMoved
  <2>2. /\ slotHeader[w].hart = hart /\ slotHeader[w].number = c
        /\ slotHeader[w].valid = ValidOf(c)
        /\ \A i \in 0 .. expectedIndex - 1 : slotPayload[w][i] = WordOf(c, i)
        /\ Blanked(elastic, c)
    BY <1>2 DEF Building
  <2>4. elastic \in Seq(Entries) /\ expectedIndex \in Nat /\ expectedIndex < Beats
    BY <1>t, <1>2 DEF DumpTypes, Streaming
  <2>5. left \in Seq(Entries) /\ Blanked(left, c)
    <3>1. CASE Stored
      <4>1. elastic # <<>>
        BY <3>1 DEF Stored
      <4> QED
        BY <2>2, <2>4, <3>1, <4>1, BlankedTail
    <3>2. CASE ~Stored
      BY <2>2, <2>4, <3>2
    <3> QED
      BY <3>1, <3>2
  <2>6. Blanked(elastic', c)
    <3>1. /\ Dma!Pushes(axi) <=> Pushed(axi)
          /\ elastic' = IF Dma!Pushes(axi) THEN Append(left, entry) ELSE left
      BY DEF Pushed, Dma!Pushes, Dma!DmaStep, Dma!ElasticStep, Stored
    <3>2. CASE Pushed(axi)
      <4>1. Fits(entry, c)
        BY <3>2, PushedFits
      <4>2. entry \in Entries
        BY <1>t DEF Dma!Entry, Dma!ZeroBeat, Dma!MemoryBeat, Dma!LastIndex, Padded, Entries, DumpTypes
      <4> HIDE DEF c, left, entry
      <4> QED
        BY <2>5, <3>1, <3>2, <4>1, <4>2, BlankedAppend
    <3>3. CASE ~Pushed(axi)
      BY <2>5, <3>1, <3>3
    <3> QED
      BY <3>2, <3>3
  <2>7. \A i \in 0 .. expectedIndex' - 1 : slotPayload'[w][i] = WordOf(c, i)
    <3>1. CASE Stored
      <4>1. /\ 1 \in 1 .. Len(elastic) /\ elastic[1].index = expectedIndex
        BY <1>t, <3>1, OfferIsFirst
      <4>2. Fifo!Masked(elastic[1].beat, expectedIndex, ValidOf(c)) = WordOf(c, expectedIndex)
        BY <2>2, <4>1 DEF Blanked, Fits
      <4>3. slotPayload'[w] = [slotPayload[w] EXCEPT ![expectedIndex] = WordOf(c, expectedIndex)]
        BY <2>2, <3>1, <4>2 DEF SlotsMoved
      <4>4. DOMAIN slotPayload[w] = 0 .. Beats - 1
        BY <1>t DEF Frame!FifoInv, Frame!TypeOK, Frame!Slots, Frame!Bit, Bit, Frame!Indexes
      <4>5. expectedIndex' = expectedIndex + 1 /\ expectedIndex \in 0 .. Beats - 1
        BY <1>m, <1>2, <2>4, <3>1, DumpSizes
      <4>6. ASSUME NEW i \in 0 .. expectedIndex' - 1 PROVE slotPayload'[w][i] = WordOf(c, i)
        <5>1. i \in 0 .. Beats - 1 /\ (i = expectedIndex \/ i \in 0 .. expectedIndex - 1)
          BY <4>5, <2>4, DumpSizes
        <5> QED
          BY <2>2, <4>3, <4>4, <4>5, <5>1
      <4> QED
        BY <4>6
    <3>2. CASE ~Stored
      BY <1>m, <1>2, <2>2, <3>2 DEF SlotsMoved
    <3> QED
      BY <3>1, <3>2
  <2> HIDE DEF c, w
  <2>8. ValidOf(Completed)' = ValidOf(c)
    BY <1>t, <2>1 DEF ValidOf
  <2>9. (\A i \in 0 .. expectedIndex - 1 : slotPayload[writeSlot][i] = WordOf(Completed, i))'
    BY <1>t, <2>1, <2>7 DEF WordOf, RecordAt
  <2>10. Blanked(elastic, Completed)'
    BY <1>t, <2>1, <2>6 DEF Blanked, Fits, ValidOf, WordOf, RecordAt
  <2> QED
    BY <2>1, <2>2, <2>8, <2>9, <2>10 DEF Building
<1>3. CASE ~readStart /\ ~(buildActive /\ ~StoresLast)
  BY <1>m, <1>3 DEF Building
<1> QED
  BY <1>1, <1>2, <1>3

(* The slot whose last beat is stored holds its frame.                       *)
LEMMA StoredHolds ==
    ASSUME ReadInv, Frame!FifoInv, Building, SlotsMoved, StoresLast,
           hart' = hart, written' = written, NEW w \in Bit, w = writeSlot,
           NEW c, c = Completed
    PROVE  Holds(w, c)'
<1>t. DumpTypes /\ Sequencing /\ Streaming
  BY DEF ReadInv
<1>1. Stored /\ buildActive /\ expectedIndex = Beats - 1 /\ ~readStart
  BY <1>t DEF StoresLast, Stored, Sequencing, Fifo!BuildReady
<1>2. /\ slotHeader[w].hart = hart /\ slotHeader[w].number = c
      /\ slotHeader[w].valid = ValidOf(c)
      /\ \A i \in 0 .. expectedIndex - 1 : slotPayload[w][i] = WordOf(c, i)
      /\ Blanked(elastic, c)
  BY <1>1 DEF Building
<1>3. 1 \in 1 .. Len(elastic) /\ elastic[1].index = expectedIndex
  BY <1>t, <1>1, OfferIsFirst
<1>4. Fifo!Masked(elastic[1].beat, expectedIndex, ValidOf(c)) = WordOf(c, expectedIndex)
  BY <1>2, <1>3 DEF Blanked, Fits
<1>5. /\ slotPayload'[w] = [slotPayload[w] EXCEPT ![expectedIndex] = WordOf(c, expectedIndex)]
      /\ slotHeader'[w] = slotHeader[w]
  BY <1>1, <1>2, <1>4 DEF SlotsMoved
<1>6. DOMAIN slotPayload[w] = 0 .. Beats - 1
  BY DEF Frame!FifoInv, Frame!TypeOK, Frame!Slots, Frame!Bit, Bit, Frame!Indexes
<1>7. ASSUME NEW i \in 0 .. Beats - 1 PROVE slotPayload'[w][i] = WordOf(c, i)
  <2>1. i = expectedIndex \/ i \in 0 .. expectedIndex - 1
    BY <1>1, DumpSizes
  <2> QED
    BY <1>2, <1>5, <1>6, <2>1
<1>8. (\A i \in 0 .. Beats - 1 : slotPayload[w][i] = WordOf(c, i))'
  BY <1>7 DEF WordOf, RecordAt
<1> QED
  BY <1>2, <1>5, <1>8 DEF Holds

(* A slot that stays pending keeps its frame.                                *)
LEMMA StaysHeld ==
    ASSUME NEW s, NEW n, Holds(s, n), hart' = hart, written' = written,
           slotHeader'[s] = slotHeader[s], slotPayload'[s] = slotPayload[s]
    PROVE  Holds(s, n)'
BY DEF Holds, WordOf, RecordAt

LEMMA TurnedUi ==
    ASSUME ReadInv, Frame!FifoInv, Counting, NEW axi, UiMoved(axi),
           NEW start, SeqStep(start), SlotsMoved, readSlot' = readSlot, Turns(start)
    PROVE  /\ Completed' = 0 /\ Waiting' = 0 /\ Gone' = 0
           /\ \A s \in Bit : ~Frame!Pending(s)'
<1>1. Empty
  BY TurnsOnlyEmpty
<1>2. ~readStart /\ ~buildActive /\ ~StoresLast
  BY <1>1 DEF Empty, Reading, StoresLast, Stored
<1>3. Started' = 0 /\ ~buildActive'
  BY <1>1, <1>2, StartedUi DEF Empty, UiMoved
<1>4. \A s \in Bit : ~Frame!Pending(s)'
  BY <1>1, <1>2 DEF Empty, SlotsMoved
<1>5. readSlot \in Bit /\ Flip(readSlot) \in Bit
  BY DEF Frame!FifoInv, Frame!TypeOK, Frame!Slots, Frame!Bit, Bit, Flip
<1>6. Waiting' = 0
  BY <1>4, <1>5 DEF Waiting, One
<1>7. Completed' = 0
  <2>1. Completed' = Started' - (IF buildActive' THEN 1 ELSE 0)
    BY DEF Completed, One
  <2>2. (IF buildActive' THEN 1 ELSE 0) = 0
    BY <1>3
  <2>3. Completed' = 0 - 0
    BY <1>3, <2>1, <2>2
  <2> QED
    BY <2>3
<1> QED
  BY <1>4, <1>6, <1>7 DEF Gone

LEMMA QueuedUi ==
    ASSUME ReadInv, Frame!FifoInv, Frame!InTurn, Counting, Building, Queued,
           NEW axi, UiMoved(axi), NEW start, SeqStep(start), SlotsMoved, readSlot' = readSlot
    PROVE  Queued'
<1>0. PICK r \in Bit, f \in Bit : r = readSlot /\ f = Flip(readSlot) /\ f # r
  BY DEF Frame!FifoInv, Frame!TypeOK, Frame!Slots, Frame!Bit, Bit, Flip
<1>1. CASE Turns(start)
  <2>1. Gone' = 0 /\ \A s \in Bit : ~Frame!Pending(s)'
    BY <1>1, TurnedUi
  <2> QED
    BY <1>0, <2>1 DEF Queued
<1>2. CASE ~Turns(start)
  <2> DEFINE g == Gone
  <2>1. /\ Completed' = Completed + One(StoresLast) /\ Gone' = g /\ hart' = hart
        /\ Completed = g + Waiting /\ g \in Nat /\ Waiting \in Nat /\ Completed \in Int
        /\ written' = written
    BY <1>2, GoneUi DEF Queued, UiMoved
  <2>2. /\ Frame!Pending(r) => Holds(r, g)
        /\ Frame!Pending(f) => Holds(f, g + 1)
    BY <1>0 DEF Queued
  <2>3. /\ Frame!Pending(f) => Frame!Pending(r)
        /\ writeSlot = r <=> (Frame!Pending(r) <=> Frame!Pending(f))
    BY <1>0 DEF Frame!InTurn, Frame!Flip, Flip
  <2>4. PICK w \in Bit : w = writeSlot
    BY DEF ReadInv, DumpTypes
  <2>5. StoresLast /\ w = r => Completed = g
    <3>1. StoresLast /\ w = r => ~Frame!Pending(r) /\ ~Frame!Pending(f)
      BY <2>3, <2>4 DEF SlotsMoved
    <3>2. StoresLast /\ w = r => Waiting = 0
      BY <1>0, <3>1 DEF Waiting, One
    <3> HIDE DEF g
    <3> QED
      BY <2>1, <3>2
  <2>6. StoresLast /\ w = f => Completed = g + 1
    <3>1. StoresLast /\ w = f => Frame!Pending(r) /\ ~Frame!Pending(f)
      BY <1>0, <2>3, <2>4 DEF SlotsMoved
    <3>2. StoresLast /\ w = f => Waiting = 1
      BY <1>0, <3>1 DEF Waiting, One
    <3> HIDE DEF g
    <3> QED
      BY <2>1, <3>2
  <2>7. PICK n \in Nat : n = g
    BY <2>1
  <2> HIDE DEF g
  <2>8. ASSUME Frame!Pending(r)' PROVE Holds(r, n)'
    <3>1. CASE Frame!Pending(r)
      BY <2>1, <2>2, <2>7, <3>1, StaysHeld DEF SlotsMoved
    <3>2. CASE ~Frame!Pending(r)
      <4>1. StoresLast /\ w = r
        BY <2>4, <2>8, <3>2 DEF SlotsMoved
      <4> QED
        BY <2>1, <2>4, <2>5, <2>7, <4>1, StoredHolds
    <3> QED
      BY <3>1, <3>2
  <2>9. ASSUME Frame!Pending(f)' PROVE Holds(f, n + 1)'
    <3>1. CASE Frame!Pending(f)
      BY <2>1, <2>2, <2>7, <3>1, StaysHeld DEF SlotsMoved
    <3>2. CASE ~Frame!Pending(f)
      <4>1. StoresLast /\ w = f
        BY <2>4, <2>9, <3>2 DEF SlotsMoved
      <4> QED
        BY <2>1, <2>4, <2>6, <2>7, <4>1, StoredHolds
    <3> QED
      BY <3>1, <3>2
  <2>10. readSlot' = r /\ Flip(readSlot)' = f /\ Gone' = n
    BY <1>0, <2>1, <2>7 DEF Flip
  <2> QED
    BY <2>8, <2>9, <2>10 DEF Queued
<1> QED
  BY <1>1, <1>2

(* The completion pulse comes back only after the completion frame has left. *)
LEMMA EndsTold ==
    ASSUME Completing, seqState = "DONE_WAIT", Pulse(doneSync)
    PROVE  Told
<1>1. doneSource \in EventSource /\ doneSync \in Chain(Bit)
  BY DEF Completing
<1>2. ~Rests(doneSource, doneSync)
  BY <1>1, RestsOn
<1> QED
  BY <1>2 DEF Completing, EndRests, Told

(* Between the turns of the harts a UI edge tells nothing.                   *)
LEMMA ToldUi ==
    ASSUME Completing, Completing', NEW start, SeqStep(start), ~Turns(start),
           UNCHANGED fmtVars, startSource' = SourceStep(startSource, doneStart)
    PROVE  Told' <=> Told
<1>t. CompletingTypes
  BY DEF Completing, CompletingTypes
<1>u. UNCHANGED <<startSync, fmtState, fmtBusy>>
  BY DEF fmtVars
<1>s. /\ ~doneStart => startSource'.toggle = startSource.toggle
      /\ doneStart => startSource'.toggle # startSource.toggle
  BY <1>t, SourceSteps DEF CompletingTypes, Completing
<1>1. CASE seqState \notin {"DONE_WAIT", "DONE"} /\ seqState' \notin {"DONE_WAIT", "DONE"}
  BY <1>1 DEF Told
<1>2. CASE SeqDoneStart
  <2>1. doneStart' /\ seqState = "DONE_START"
    BY <1>2 DEF SeqDoneStart
  <2>2. ~StartRests'
    BY <2>1 DEF StartRests
  <2> QED
    BY <2>1, <2>2 DEF Told
<1>3. CASE seqState = "DONE" /\ seqState' = "DONE"
  BY <1>3 DEF Completing, AllRest, Told
<1>4. CASE SeqHart1Done
  <2>1. Told
    BY <1>4, EndsTold DEF SeqHart1Done, DoneDoneUi
  <2>2. seqState' = "DONE"
    BY <1>4 DEF SeqHart1Done
  <2> QED
    BY <2>1, <2>2 DEF Completing, AllRest, Told
<1>5. CASE seqState = "DONE_WAIT" /\ SeqHold
  <2>1. seqState' = "DONE_WAIT" /\ ~doneStart'
    BY <1>5 DEF SeqHold, NoRequest
  <2>2. FormatterRests' <=> FormatterRests
    BY <1>u DEF FormatterRests
  <2>3. CASE doneStart
    <3>1. Rests(startSource, startSync) /\ ~StartRests
      BY <1>5, <2>3 DEF Completing, StartRests
    <3>2. ~StartRests'
      <4>1. startSync[1] = startSource.toggle /\ startSync' = startSync /\ 1 \in Stages
        BY <1>u, <3>1 DEF Rests, Stages
      <4>2. startSync'[1] # startSource'.toggle
        BY <1>s, <2>3, <4>1
      <4> QED
        BY <4>1, <4>2 DEF StartRests, Rests
    <3> QED
      BY <3>1, <3>2 DEF Told
  <2>4. CASE ~doneStart
    <3>1. StartRests' <=> StartRests
      BY <1>s, <1>u, <2>1, <2>4 DEF StartRests, Rests
    <3> QED
      BY <1>5, <2>1, <2>2, <3>1 DEF Told
  <2> QED
    BY <2>3, <2>4
<1> QED
  <2>1. \/ seqState \notin {"DONE_WAIT", "DONE"} /\ seqState' \notin {"DONE_WAIT", "DONE"}
        \/ SeqDoneStart
        \/ seqState = "DONE" /\ seqState' = "DONE"
        \/ SeqHart1Done
        \/ seqState = "DONE_WAIT" /\ SeqHold
    BY DEF Turns, SeqStep, SeqRest, SeqPlan, SeqReadDone, SeqHold, SeqDrained, SeqDoneStart
  <2> QED
    BY <1>1, <1>2, <1>3, <1>4, <1>5, <2>1

LEMMA ExpectedStays == written' = written => Expected' = Expected
BY DEF Expected, FramesOf, FullFrame, RecordAt, DoneFrame, FrameCount

LEMMA HeardUi ==
    ASSUME ReadInv, Frame!FifoInv, Counting, Completing, Completing', Numbering, Queued, Heard,
           NEW axi, UiMoved(axi), NEW start, SeqStep(start), SlotsMoved, readSlot' = readSlot,
           UNCHANGED fmtVars, startSource' = SourceStep(startSource, doneStart)
    PROVE  Heard'
<1>t. DumpTypes /\ written' = written /\ Expected' = Expected
  BY ExpectedStays DEF ReadInv, UiMoved
<1>h. /\ Len(sent) = Before + Gone + One(Told)
      /\ \A i \in 1 .. Len(sent) : SameFrame(sent[i], Expected[i])
  BY DEF Heard
<1>1. CASE SeqBegin(start)
  <2>1. sent' = <<>> /\ hart' = 0 /\ seqState' \in {"DATA", "DRAIN"} /\ Gone' = 0
    BY <1>1, TurnedUi DEF SeqBegin, Turns
  <2>2. Len(sent') = 0 /\ Before' = 0 /\ ~Told'
    BY <2>1 DEF Before, Told
  <2> QED
    BY <2>1, <2>2 DEF Heard, One
<1>2. CASE SeqHart0Done
  <2>1. /\ sent' = sent /\ hart = 0 /\ hart' = 1 /\ seqState = "DONE_WAIT"
        /\ seqState' \in {"DATA", "DRAIN"} /\ Gone' = 0 /\ Empty
    BY <1>2, TurnedUi, TurnsOnlyEmpty DEF SeqHart0Done, Turns
  <2>2. Told /\ ~Told'
    <3>1. Pulse(doneSync)
      BY <1>2 DEF SeqHart0Done, DoneDoneUi
    <3> QED
      BY <2>1, <3>1, EndsTold DEF Told
  <2> DEFINE F == FrameCount(written[0])
  <2>3. F \in Nat /\ Gone = F /\ Before = 0 /\ Before' = F + 1
    <3>1. written[0] \in Nat
      BY <1>t DEF DumpTypes, Harts, Bit
    <3>2. Gone = F
      BY <2>1, EmptyIsGone DEF Numbering, ReadInv, DumpTypes, Frame!FifoInv, Frame!TypeOK,
         Frame!Slots, Frame!Bit, Bit
    <3> QED
      BY <1>t, <2>1, <3>1, <3>2, FramesNeeded DEF Before, FrameCount
  <2> HIDE DEF F
  <2>4. One(Told) = 1 /\ One(Told)' = 0
    BY <2>2 DEF One
  <2>5. Len(sent') = Before' + Gone' + One(Told)'
    BY <1>h, <2>1, <2>3, <2>4
  <2> QED
    BY <1>t, <1>h, <2>1, <2>5 DEF Heard, SameFrame
<1>3. CASE ~Turns(start)
  <2>1. sent' = sent
    BY <1>3 DEF Turns, SeqStep, SeqRest, SeqPlan, SeqReadDone, SeqHold, SeqDrained,
       SeqDoneStart, SeqHart1Done
  <2>2. Gone' = Gone /\ Before' = Before
    BY <1>3, GoneUi DEF Queued
  <2>3. One(Told)' = One(Told)
    BY <1>3, ToldUi DEF One
  <2> QED
    BY <1>t, <1>h, <2>1, <2>2, <2>3 DEF Heard, SameFrame
<1> QED
  BY <1>1, <1>2, <1>3 DEF Turns

-----------------------------------------------------------------------------
(* The sequencer never begins more frames than the hart has.                 *)
LEMMA StartedBounded ==
    ASSUME ReadInv, Numbering
    PROVE  Started <= FrameCount(written[hart]) /\ FrameCount(written[hart]) \in Nat
<1>t. DumpTypes /\ Sequencing
  BY DEF ReadInv
<1> DEFINE F == FrameCount(written[hart])
<1>1. frameNumber \in Nat /\ written[hart] \in Nat /\ recordsRemaining \in Nat
  BY <1>t DEF DumpTypes
<1>2. F \in Nat
  BY <1>1, FramesNeeded
<1>3. CASE seqState = "DATA"
  <2> DEFINE base == RecordsPerFrame * frameNumber
  <2>1. base + recordsRemaining = written[hart] /\ recordsRemaining # 0 /\ base \in Nat
    BY <1>t, <1>1, <1>3, DumpSizes DEF Sequencing
  <2>2. base < written[hart]
    <3> HIDE DEF base
    <3> QED
      BY <1>1, <2>1
  <2>3. frameNumber < F
    BY <1>1, <2>2, FramesNeeded
  <2> HIDE DEF F
  <2>4. Started \in {frameNumber, frameNumber + 1}
    BY DEF Started
  <2> QED
    BY <1>1, <1>2, <2>3, <2>4 DEF F
<1>4. CASE seqState # "DATA"
  <2>1. Started = frameNumber
    BY <1>t, <1>4 DEF Sequencing, Reading, Started
  <2>2. frameNumber = 0 \/ frameNumber = F
    BY <1>4 DEF Numbering
  <2> HIDE DEF F
  <2> QED
    BY <1>1, <1>2, <2>1, <2>2 DEF F
<1> QED
  BY <1>3, <1>4

(* The formatter tells that the hart is complete with its last byte.         *)
LEMMA ToldTx ==
    ASSUME Completing, NEW ready, UNCHANGED <<seqVars, cdcUiVars>>,
           startSync' = Shift(startSync, startSource.toggle),
           \/ FmtStart \/ FmtWait(FormatterReady(ready))
           \/ FmtHeader(FormatterReady(ready)) \/ FmtPayload(FormatterReady(ready))
    PROVE  /\ DoneFrameLeaves(ready) => seqState = "DONE_WAIT" /\ ~Told /\ Told'
           /\ ~DoneFrameLeaves(ready) => (Told' <=> Told)
<1>t. CompletingTypes
  BY DEF Completing, CompletingTypes
<1>u. UNCHANGED <<seqState, doneStart, startSource>>
  BY DEF seqVars, cdcUiVars
<1>r. Rests(startSource, startSync) => Rests(startSource', startSync') /\ ~Pulse(startSync)
  BY <1>t, <1>u, RestsOn DEF CompletingTypes
<1>m. Moves(startSource, startSync) /\ ~Pulse(startSync) => Moves(startSource', startSync')
  BY <1>t, <1>u, MovesOn DEF CompletingTypes
<1>n. Moves(startSource', startSync') => ~Rests(startSource', startSync')
  BY DEF Moves, Rests, Stages
<1>1. CASE FmtPayload(FormatterReady(ready))
  <2>1. /\ DoneFrameLeaves(ready) /\ fmtState = "PAYLOAD"
        /\ fmtState' = "IDLE" /\ ~fmtBusy'
    BY <1>1 DEF FmtPayload, DoneFrameLeaves
  <2>2. seqState = "DONE_WAIT" /\ StartRests /\ ~FormatterRests
    BY <2>1 DEF Completing, AllRest, FormatterRests
  <2>3. StartRests' /\ FormatterRests'
    BY <1>r, <1>u, <2>1, <2>2 DEF StartRests, FormatterRests
  <2> QED
    BY <1>u, <2>1, <2>2, <2>3 DEF Told
<1>2. CASE FmtHeader(FormatterReady(ready))
  <2>1. ~DoneFrameLeaves(ready) /\ ~FormatterRests /\ ~FormatterRests'
    BY <1>2 DEF FmtHeader, DoneFrameLeaves, FormatterRests
  <2> QED
    BY <2>1 DEF Told
<1>3. CASE FmtStart
  <2>1. ~DoneFrameLeaves(ready) /\ ~FormatterRests' /\ Pulse(startSync)
    BY <1>3 DEF FmtStart, DoneFrameLeaves, FormatterRests
  <2> QED
    BY <1>r, <2>1 DEF Told, StartRests
<1>4. CASE FmtWait(FormatterReady(ready))
  <2>1. /\ ~DoneFrameLeaves(ready) /\ (FormatterRests' <=> FormatterRests)
        /\ fmtState = "IDLE" => ~Pulse(startSync)
    BY <1>4 DEF FmtWait, DoneFrameLeaves, FormatterRests
  <2>2. CASE ~FormatterRests
    BY <2>1, <2>2 DEF Told
  <2>3. CASE FormatterRests
    <3>1. StartRests' <=> StartRests
      <4>1. ~StartRests => doneStart \/ Moves(startSource, startSync)
        BY DEF Completing, AllRest, StartRests
      <4>2. ~Pulse(startSync)
        BY <2>1, <2>3 DEF FormatterRests
      <4> QED
        BY <1>r, <1>m, <1>n, <1>u, <4>1, <4>2 DEF StartRests
    <3> QED
      BY <1>u, <2>1, <3>1 DEF Told
  <2> QED
    BY <2>1, <2>2, <2>3
<1> QED
  BY <1>1, <1>2, <1>3, <1>4

(* A frame that has left the FIFO is the next one of the hart.               *)
LEMMA LeavesWhole ==
    ASSUME Holds(readSlot, Gone), Gone \in Nat, Frame!FifoInv, Frame!QueueInv,
           txState = "RECORD_DATA", wordIndex = Beats - 1
    PROVE  DataFrame(Fifo!FrameOut) = FullFrame(hart, Gone)
<1>1. PICK n \in Nat : n = Gone
  OBVIOUS
<1>2. PICK r : r = readSlot
  OBVIOUS
<1>3. Frame!FrameOut = Frame!SlotFrame(r)
  BY <1>2, Frame!WholeFrame, FrameAssumption
<1>4. Fifo!FrameOut = Frame!FrameOut
  BY DEF Fifo!FrameOut, Frame!FrameOut
<1>5. /\ slotHeader[r].hart = hart /\ slotHeader[r].number = n
      /\ \A i \in 0 .. Beats - 1 : slotPayload[r][i] = WordOf(n, i)
  BY <1>1, <1>2 DEF Holds
<1> DEFINE word(b) == << RecordAt(hart, n * RecordsPerFrame + 2 * (b - 1)),
                         RecordAt(hart, n * RecordsPerFrame + 2 * b - 1) >>
<1>6. ASSUME NEW b \in 1 .. Beats PROVE slotPayload[r][b - 1] = word(b)
  <2>1. b - 1 \in 0 .. Beats - 1 /\ b \in Nat
    BY DumpSizes
  <2> DEFINE base == n * RecordsPerFrame
  <2>2. base \in Nat /\ RecordsPerFrame * n = base
    BY DumpSizes
  <2> HIDE DEF base
  <2>3. base + 2 * (b - 1) + 1 = base + 2 * b - 1
    BY <2>1, <2>2
  <2>4. WordOf(n, b - 1) = << RecordAt(hart, base + 2 * (b - 1)),
                              RecordAt(hart, base + 2 * (b - 1) + 1) >>
    BY <2>2 DEF WordOf
  <2> QED
    BY <1>5, <2>1, <2>3, <2>4 DEF base
<1>7. [b \in 1 .. Beats |-> slotPayload[r][b - 1]] = [b \in 1 .. Beats |-> word(b)]
  <2> HIDE DEF word
  <2> QED
    BY <1>6
<1>8. DataFrame(Fifo!FrameOut) = [kind |-> "DATA", hart |-> hart, number |-> n,
                                  words |-> [b \in 1 .. Beats |-> word(b)]]
  <2> HIDE DEF word
  <2> QED
    BY <1>3, <1>4, <1>5, <1>7 DEF DataFrame, Frame!SlotFrame
<1> QED
  BY <1>1, <1>8 DEF FullFrame

(* What an edge of the transmit clock does to the complete frames.           *)
SlotsSent(ready) ==
    /\ Fifo!TxLast /\ ready =>
          /\ Frame!Pending(readSlot) /\ readSlot' = Flip(readSlot)
          /\ \A s \in Bit : Frame!Pending(s)' <=> (Frame!Pending(s) /\ s # readSlot)
    /\ ~(Fifo!TxLast /\ ready) =>
          /\ readSlot' = readSlot
          /\ \A s \in Bit : Frame!Pending(s)' <=> Frame!Pending(s)

LEMMA SlotsTx ==
    ASSUME Frame!FifoInv, NEW ready, Fifo!TxStep(ready), UNCHANGED fifoUiVars
    PROVE  SlotsSent(ready)
<1>1. Frame!TxStep(ready) /\ UNCHANGED Frame!uiVars
  BY SameTxStep DEF fifoUiVars, Frame!uiVars
<1>2. (Fifo!TxLast /\ ready) <=> Frame!TxLastWord(ready)
  <2>1. Frame!TxLastWord(ready) => Fifo!TxLast /\ ready
    BY DEF Frame!TxLastWord, Fifo!TxLast
  <2>2. Fifo!TxLast /\ ready => Frame!TxLastWord(ready)
    BY <1>1 DEF Fifo!TxLast, Frame!TxStep, Frame!TxWait, Frame!TxStall, Frame!TxStart,
       Frame!TxHeader, Frame!TxFrameNumber, Frame!TxLoadWord, Frame!TxNextWord
  <2> QED
    BY <2>1, <2>2
<1>3. /\ Frame!TxLastWord(ready) =>
            /\ Frame!Pending(readSlot) /\ readSlot' = Frame!Flip(readSlot)
            /\ \A s \in Frame!Slots : Frame!Pending(s)' <=> (Frame!Pending(s) /\ s # readSlot)
      /\ ~Frame!TxLastWord(ready) =>
            /\ readSlot' = readSlot
            /\ \A s \in Frame!Slots : Frame!Pending(s)' <=> Frame!Pending(s)
  BY <1>1, Frame!TxReleases, FrameAssumption
<1> QED
  BY <1>2, <1>3 DEF SlotsSent, Frame!Slots, Frame!Bit, Bit, Frame!Flip, Flip

LEMMA GoneTx ==
    ASSUME ReadInv, Frame!FifoInv, NEW ready, SlotsSent(ready), Queued,
           UNCHANGED <<seqVars, dmaVars, fifoUiVars>>
    PROVE  /\ Completed' = Completed
           /\ Fifo!TxLast /\ ready => Gone' = Gone + 1 /\ Gone + 1 <= Completed
           /\ ~(Fifo!TxLast /\ ready) => Gone' = Gone
<1>0. PICK r \in Bit, f \in Bit : r = readSlot /\ f = Flip(readSlot) /\ f # r /\ Flip(f) = r
  BY DEF Frame!FifoInv, Frame!TypeOK, Frame!Slots, Frame!Bit, Bit, Flip
<1>1. Completed' = Completed
  BY DEF Completed, Started, One, seqVars, dmaVars, fifoUiVars
<1>2. Waiting = One(Frame!Pending(r)) + One(Frame!Pending(f))
  BY <1>0 DEF Waiting
<1>3. Gone = Completed - Waiting /\ Gone \in Nat
  BY DEF Gone, Queued
<1>4. CASE Fifo!TxLast /\ ready
  <2>1. /\ Frame!Pending(r) /\ readSlot' = f /\ Flip(readSlot)' = r
        /\ Frame!Pending(f)' <=> Frame!Pending(f)
        /\ ~Frame!Pending(r)'
    BY <1>0, <1>4 DEF SlotsSent, Flip
  <2>2. Waiting' = One(Frame!Pending(f))
    BY <2>1 DEF Waiting, One
  <2>3. Waiting = 1 + One(Frame!Pending(f)) /\ One(Frame!Pending(f)) \in {0, 1}
    BY <1>2, <2>1 DEF One
  <2>4. Completed \in Int
    BY DEF ReadInv, DumpTypes, Completed, Started, One
  <2> DEFINE c == Completed
             f1 == One(Frame!Pending(f))
             g == Gone
  <2>5. g = c - (1 + f1) /\ g \in Nat /\ c \in Int /\ f1 \in {0, 1}
    BY <1>3, <2>3, <2>4
  <2>6. Gone' = c - f1
    BY <1>1, <2>2 DEF Gone
  <2> HIDE DEF c, f1, g
  <2>7. c - f1 = g + 1 /\ g + 1 <= c
    BY ONLY <2>5
  <2> QED
    BY <1>1, <1>4, <2>6, <2>7 DEF c, g
<1>5. CASE ~(Fifo!TxLast /\ ready)
  <2>1. Waiting' = Waiting
    BY <1>0, <1>5 DEF SlotsSent, Waiting, One, Flip
  <2> QED
    BY <1>1, <1>5, <2>1 DEF Gone
<1> QED
  BY <1>1, <1>4, <1>5

LEMMA QueuedTx ==
    ASSUME ReadInv, Frame!FifoInv, NEW ready, SlotsSent(ready), Queued,
           UNCHANGED <<seqVars, dmaVars, fifoUiVars, written>>
    PROVE  Queued'
<1>0. PICK r \in Bit, f \in Bit : r = readSlot /\ f = Flip(readSlot) /\ f # r /\ Flip(f) = r
  BY DEF Frame!FifoInv, Frame!TypeOK, Frame!Slots, Frame!Bit, Bit, Flip
<1>1. PICK n \in Nat : n = Gone
  BY DEF Queued
<1>2. /\ Frame!Pending(r) => Holds(r, n)
      /\ Frame!Pending(f) => Holds(f, n + 1)
  BY <1>0, <1>1 DEF Queued
<1>3. \A s, m : Holds(s, m) => Holds(s, m)'
  BY StaysHeld DEF seqVars, fifoUiVars
<1>4. CASE Fifo!TxLast /\ ready
  <2>1. /\ readSlot' = f /\ Flip(readSlot)' = r
        /\ Frame!Pending(f)' <=> Frame!Pending(f)
        /\ ~Frame!Pending(r)'
    BY <1>0, <1>4 DEF SlotsSent, Flip
  <2>2. Gone' = n + 1
    BY <1>1, <1>4, GoneTx
  <2>3. Frame!Pending(f)' => Holds(f, n + 1)'
    BY <1>2, <1>3, <2>1
  <2> QED
    BY <2>1, <2>2, <2>3 DEF Queued
<1>5. CASE ~(Fifo!TxLast /\ ready)
  <2>1. /\ readSlot' = r /\ Flip(readSlot)' = f /\ Gone' = n
        /\ Frame!Pending(f)' <=> Frame!Pending(f)
        /\ Frame!Pending(r)' <=> Frame!Pending(r)
    BY <1>0, <1>1, <1>5, GoneTx DEF SlotsSent, Flip
  <2>2. /\ Frame!Pending(r)' => Holds(r, n)'
        /\ Frame!Pending(f)' => Holds(f, n + 1)'
    BY <1>2, <1>3, <2>1
  <2> QED
    BY <2>1, <2>2 DEF Queued
<1> QED
  BY <1>4, <1>5

LEMMA SentGrows ==
    ASSUME Heard, Recorded, NEW frame, sent' = Append(sent, frame), Expected' = Expected,
           SameFrame(frame, Expected[Len(sent) + 1])
    PROVE  /\ Len(sent) \in Nat /\ Len(sent') = Len(sent) + 1 /\ Recorded'
           /\ \A i \in 1 .. Len(sent') : SameFrame(sent'[i], Expected'[i])
<1>1. PICK S : sent \in Seq(S)
  BY DEF Recorded
<1> DEFINE T == S \cup {frame}
<1>2. sent \in Seq(T) /\ frame \in T
  BY <1>1, SeqMonotonic
<1> HIDE DEF T
<1>3. /\ Append(sent, frame) \in Seq(T) /\ Len(sent) \in Nat
      /\ Len(Append(sent, frame)) = Len(sent) + 1
      /\ Append(sent, frame)[Len(sent) + 1] = frame
      /\ \A i \in 1 .. Len(sent) : Append(sent, frame)[i] = sent[i]
  BY <1>2, AppendProperties
<1>4. ASSUME NEW i \in 1 .. Len(sent) + 1 PROVE SameFrame(sent'[i], Expected'[i])
  <2>1. CASE i = Len(sent) + 1
    BY <1>3, <2>1
  <2>2. CASE i # Len(sent) + 1
    <3>1. i \in 1 .. Len(sent)
      BY <1>3, <2>2
    <3> QED
      BY <1>3, <3>1 DEF Heard
  <2> QED
    BY <2>1, <2>2
<1>5. Recorded'
  BY <1>3 DEF Recorded
<1> QED
  BY <1>3, <1>4, <1>5

(* The frame that leaves at an edge of the transmit clock, and its place.    *)
Leaves(frame, expected) ==
    /\ sent' = Append(sent, frame) /\ Expected[Len(sent) + 1] = expected
    /\ Len(sent) + 1 <= Len(Expected)
    /\ Gone' \in Nat /\ Gone' + One(Told)' = (Gone + One(Told)) + 1
DoneLeaves == /\ Leaves(DoneFrame(fmtHart, fmtTotal), DoneFrame(hart, written[hart]))
              /\ seqState = "DONE_WAIT" /\ fmtState = "PAYLOAD"
DataLeaves == /\ Leaves(FullFrame(hart, Gone), FullFrame(hart, Gone))
              /\ seqState \in {"DATA", "DRAIN"}

LEMMA FrameLeaves ==
    ASSUME ReadInv, Frame!FifoInv, Frame!QueueInv, Counting, Completing, Numbering, Queued, Heard,
           NEW ready, TxRegisters(ready), SlotsSent(SlotReady(ready)),
           UNCHANGED <<seqVars, dmaVars, fifoUiVars, cdcUiVars, written>>
    PROVE  \/ DoneLeaves \/ DataLeaves
           \/ sent' = sent /\ Gone' = Gone /\ One(Told)' = One(Told)
<1>t. DumpTypes /\ readSlot \in Bit
  BY DEF ReadInv, Frame!FifoInv, Frame!TypeOK, Frame!Slots, Frame!Bit, Bit
<1>w. hart \in Harts /\ written \in [Harts -> Nat] /\ written[hart] \in Nat
  BY <1>t DEF DumpTypes
<1>h. /\ Len(sent) = Before + Gone + One(Told)
      /\ Gone \in Nat /\ Before \in Nat
  BY <1>w, ExpectedAt DEF Heard, Queued
<1>f. /\ FrameCount(written[hart]) \in Nat
      /\ (Before + FrameCount(written[hart])) + 1 <= Len(Expected)
      /\ Len(Expected) \in Int
  BY SMTT(30), <1>w, ExpectedAt, FramesNeeded, ExpectedLength
<1>s. /\ DoneFrameLeaves(ready) => seqState = "DONE_WAIT" /\ ~Told /\ Told'
      /\ ~DoneFrameLeaves(ready) => (Told' <=> Told)
  BY ToldTx DEF TxRegisters
<1>l. DataFrameLeaves(ready) <=> (Fifo!TxLast /\ SlotReady(ready))
  BY DEF DataFrameLeaves
<1>g. /\ DataFrameLeaves(ready) => Gone' = Gone + 1 /\ Gone + 1 <= Completed
      /\ ~DataFrameLeaves(ready) => Gone' = Gone
  BY <1>l, GoneTx
<1>x. ~(DoneFrameLeaves(ready) /\ DataFrameLeaves(ready))
  BY DEF DoneFrameLeaves, DataFrameLeaves, FormatterReady, SlotReady
<1>1. CASE DoneFrameLeaves(ready)
  <2>1. sent' = Append(sent, DoneFrame(fmtHart, fmtTotal)) /\ fmtState = "PAYLOAD"
    BY <1>1 DEF TxRegisters, DoneFrameLeaves
  <2>2. Gone = FrameCount(written[hart])
    <3>1. Empty /\ seqState = "DONE_WAIT"
      BY <1>1, <1>s, NothingInside
    <3> QED
      BY <1>t, <3>1, EmptyIsGone DEF Numbering, DumpTypes
  <2>3. One(Told) = 0 /\ One(Told)' = 1 /\ Gone' = Gone
    BY <1>1, <1>s, <1>g, <1>x DEF One
  <2>4. Len(sent) + 1 = (Before + Gone) + 1
    BY <1>h, <2>3
  <2>5. Expected[Len(sent) + 1] = DoneFrame(hart, written[hart]) /\ Len(sent) + 1 <= Len(Expected)
    BY <1>w, <1>h, <1>f, <2>2, <2>4, ExpectedAt
  <2>6. Gone' \in Nat /\ Gone' + One(Told)' = (Gone + One(Told)) + 1
    BY <1>h, <2>3
  <2> QED
    BY <1>1, <1>s, <2>1, <2>5, <2>6 DEF DoneLeaves, Leaves
<1>2. CASE DataFrameLeaves(ready)
  <2>1. sent' = Append(sent, DataFrame(Fifo!FrameOut)) /\ Frame!Pending(readSlot)
    BY <1>2, <1>l, <1>x DEF TxRegisters, SlotsSent
  <2>2. seqState \in {"DATA", "DRAIN"}
    <3>1. ~Empty
      BY <1>t, <2>1 DEF Empty
    <3> QED
      BY <3>1, NothingInside
  <2>3. /\ One(Told) = 0 /\ One(Told)' = 0 /\ Gone' = Gone + 1
    BY <1>2, <1>s, <1>g, <1>x, <2>2 DEF One, Told
  <2>4. DataFrame(Fifo!FrameOut) = FullFrame(hart, Gone)
    <3>1. Holds(readSlot, Gone) /\ txState = "RECORD_DATA" /\ wordIndex = Beats - 1
      BY <1>2, <2>1 DEF Queued, DataFrameLeaves, Fifo!TxLast
    <3> QED
      BY <1>h, <3>1, LeavesWhole
  <2>5. Gone < FrameCount(written[hart])
    <3>1. Started <= FrameCount(written[hart]) /\ FrameCount(written[hart]) \in Nat
      BY StartedBounded
    <3>2. Completed <= Started /\ Started \in Int /\ Completed \in Int
      BY <1>t DEF Completed, Started, One, DumpTypes
    <3>3. Gone + 1 <= Completed
      BY <1>2, <1>g
    <3> QED
      BY <1>h, <3>1, <3>2, <3>3
  <2>6. Len(sent) + 1 = (Before + Gone) + 1
    BY <1>h, <2>3
  <2>7. Expected[Len(sent) + 1] = FullFrame(hart, Gone)
    BY <1>w, <1>h, <2>5, <2>6, ExpectedAt
  <2>8. Len(sent) + 1 <= Len(Expected)
    BY <1>h, <1>f, <2>5, <2>6
  <2>9. Gone' \in Nat /\ Gone' + One(Told)' = (Gone + One(Told)) + 1
    BY <1>h, <2>3
  <2> QED
    BY <2>1, <2>2, <2>4, <2>7, <2>8, <2>9 DEF DataLeaves, Leaves
<1>3. CASE ~DoneFrameLeaves(ready) /\ ~DataFrameLeaves(ready)
  BY <1>3, <1>s, <1>g DEF TxRegisters, One
<1> QED
  BY <1>1, <1>2, <1>3

LEMMA HeardTx ==
    ASSUME ReadInv, Frame!FifoInv, Frame!QueueInv, Counting, Completing, Numbering, Queued, Heard,
           Recorded, NEW ready, TxRegisters(ready), SlotsSent(SlotReady(ready)),
           UNCHANGED <<seqVars, dmaVars, fifoUiVars, cdcUiVars, written>>
    PROVE  Heard' /\ Recorded'
<1>t. Expected' = Expected /\ Before' = Before
  BY ExpectedStays DEF Before, FrameCount, seqVars
<1>h. /\ Len(sent) = Before + Gone + One(Told)
      /\ \A i \in 1 .. Len(sent) : SameFrame(sent[i], Expected[i])
      /\ Gone \in Nat /\ Before \in Nat /\ One(Told) \in Nat
  BY ExpectedAt DEF Heard, Queued, ReadInv, DumpTypes, One
<1>1. ASSUME NEW frame, NEW expected, Leaves(frame, expected), SameFrame(frame, expected)
      PROVE  Heard' /\ Recorded'
  <2>1. /\ sent' = Append(sent, frame) /\ SameFrame(frame, Expected[Len(sent) + 1])
        /\ Gone' \in Nat /\ Gone' + One(Told)' = (Gone + One(Told)) + 1
    BY <1>1 DEF Leaves
  <2>2. /\ Len(sent') = Len(sent) + 1 /\ Recorded'
        /\ \A i \in 1 .. Len(sent') : SameFrame(sent'[i], Expected'[i])
    BY <1>t, <2>1, SentGrows
  <2>3. One(Told)' \in Nat
    BY DEF One
  <2> DEFINE g == Gone'
             t == One(Told)'
  <2>4. Len(sent') = Before + (g + t)
    <3>1. Len(sent') = (Before + Gone + One(Told)) + 1 /\ g + t = (Gone + One(Told)) + 1
      BY <1>h, <2>1, <2>2
    <3> HIDE DEF g, t
    <3> QED
      BY ONLY <1>h, <3>1
  <2> QED
    <3>1. g \in Nat /\ t \in Nat /\ Before' = Before /\ Before \in Nat
      BY <1>t, <1>h, <2>1, <2>3
    <3>2. Len(sent') = Before' + g + t
      <4> HIDE DEF g, t
      <4> QED
        BY ONLY <2>4, <3>1
    <3> QED
      BY <2>2, <3>2 DEF Heard, SameFrame
<1>2. CASE DoneLeaves
  BY <1>1, <1>2 DEF DoneLeaves, SameFrame, DoneFrame
<1>3. CASE DataLeaves
  BY <1>1, <1>3 DEF DataLeaves, SameFrame
<1>4. CASE sent' = sent /\ Gone' = Gone /\ One(Told)' = One(Told)
  BY <1>t, <1>h, <1>4 DEF Heard, Recorded, SameFrame
<1> QED
  BY <1>2, <1>3, <1>4, FrameLeaves

-----------------------------------------------------------------------------
LEMMA OrderStarts == Init => OrderInv
<1> SUFFICES ASSUME Init PROVE OrderInv
  OBVIOUS
<1>1. /\ seqState = "IDLE" /\ hart = 0 /\ frameNumber = 0 /\ sent = <<>>
      /\ dmaState = "IDLE" /\ ~dmaDone /\ ~buildActive /\ readSlot = 0
      /\ \A s \in Bit : ~Frame!Pending(s)
  BY DEF Init, Dma!DmaInit, Fifo!FifoInit, Frame!Pending, Fifo!Slots, Fifo!Bit, Bit
<1>2. Empty
  BY ReadStarts, <1>1 DEF Empty, Reading, Init, Dma!DmaInit
<1>3. Gone = 0 /\ Before = 0 /\ ~Told
  BY <1>1, <1>2, EmptyIsGone DEF Before, Told, Bit
<1>4. Numbering /\ Building
  BY <1>1 DEF Numbering, Building
<1>5. Queued
  BY <1>1, <1>3 DEF Queued, Bit, Flip
<1>6. Heard /\ Recorded
  BY <1>1, <1>3 DEF Heard, Recorded, One
<1> QED
  BY <1>4, <1>5, <1>6 DEF OrderInv

LEMMA OrderRests ==
    ASSUME UNCHANGED <<seqVars, dmaVars, fifoUiVars, written>>, Numbering, Building
    PROVE  Numbering' /\ Building'
<1>1. Numbering'
  BY DEF Numbering, FrameCount, seqVars, dmaVars
<1>2. Completed' = Completed
  BY DEF Completed, Started, One, seqVars, dmaVars, fifoUiVars
<1>3. Building'
  BY <1>2 DEF Building, ValidOf, WordOf, RecordAt, Blanked, Fits, seqVars, dmaVars, fifoUiVars
<1> QED
  BY <1>1, <1>3

LEMMA OrderKept ==
    ReadInv /\ Frame!FifoInv /\ Frame!QueueInv /\ DrainInv /\ DrainInv' /\ OrderInv /\ [Next]_vars
        => OrderInv'
<1> SUFFICES ASSUME ReadInv, Frame!FifoInv, Frame!QueueInv, DrainInv, DrainInv', OrderInv, [Next]_vars
             PROVE  OrderInv'
  OBVIOUS
<1>i. /\ Numbering /\ Building /\ Queued /\ Heard /\ Recorded /\ Gone \in Nat
      /\ Counting /\ Completing /\ Completing' /\ Frame!InTurn
  BY DEF OrderInv, Queued, DrainInv, Frame!QueueInv
<1>1. CASE UiEdge
  <2>1. PICK axi, start : UiRegisters(axi, start)
    BY <1>1 DEF UiEdge
  <2>2. UNCHANGED <<fifoTxVars, fmtVars, written>>
    BY <1>1 DEF UiEdge
  <2>3. /\ SeqStep(start) /\ Dma!DmaStep(ReadRequest, axi, buildActive)
        /\ Fifo!UiStep(BuildRequest, DataOffer)
        /\ startSource' = SourceStep(startSource, doneStart)
    BY <2>1 DEF UiRegisters
  <2>4. UiMoved(axi) /\ SlotsMoved /\ readSlot' = readSlot
    BY <2>1, <2>2, <2>3, UiMoves, SlotsUi DEF fifoTxVars
  <2>5. Numbering' /\ Building' /\ Queued' /\ Heard'
    BY <1>i, <2>2, <2>3, <2>4, NumberingUi, BuildingUi, QueuedUi, HeardUi
  <2>6. Recorded'
    <3>1. sent' = sent \/ sent' = <<>>
      BY <2>3 DEF SeqStep, SeqBegin, SeqRest, SeqPlan, SeqReadDone, SeqHold, SeqDrained,
         SeqDoneStart, SeqHart0Done, SeqHart1Done
    <3>2. PICK S : sent \in Seq(S)
      BY <1>i DEF Recorded
    <3>3. sent' \in Seq(S)
      <4>1. <<>> \in Seq(S)
        OBVIOUS
      <4>2. CASE sent' = sent
        BY <3>2, <4>2
      <4>3. CASE sent' = <<>>
        BY <4>1, <4>3
      <4> QED
        BY <3>1, <4>2, <4>3
    <3> QED
      BY <3>3 DEF Recorded
  <2> QED
    BY <2>5, <2>6 DEF OrderInv
<1>2. CASE TxEdge
  <2>1. PICK ready : TxRegisters(ready)
    BY <1>2 DEF TxEdge
  <2>2. UNCHANGED <<seqVars, dmaVars, fifoUiVars, cdcUiVars, written>>
    BY <1>2 DEF TxEdge
  <2>3. SlotsSent(SlotReady(ready))
    <3>1. Fifo!TxStep(SlotReady(ready)) /\ UNCHANGED fifoUiVars
      BY <2>1, <2>2 DEF TxRegisters
    <3> QED
      BY <3>1, SlotsTx
  <2>4. Numbering' /\ Building'
    BY <1>i, <2>2, OrderRests
  <2>5. Queued'
    BY <1>i, <2>2, <2>3, QueuedTx
  <2>6. Heard' /\ Recorded'
    BY <1>i, <2>1, <2>2, <2>3, HeardTx
  <2> QED
    BY <2>4, <2>5, <2>6 DEF OrderInv
<1>3. CASE UNCHANGED vars
  <2>1. UNCHANGED <<seqVars, dmaVars, fifoUiVars, fifoTxVars, cdcUiVars, fmtVars, written, sent>>
    BY <1>3 DEF vars
  <2>2. Numbering' /\ Building'
    BY <1>i, <2>1, OrderRests
  <2>3. Gone' = Gone /\ readSlot' = readSlot
    BY <2>1 DEF Gone, Completed, Started, Waiting, Frame!Pending, One, Flip, seqVars, dmaVars,
       fifoUiVars, fifoTxVars
  <2>4. Queued'
    BY <1>i, <2>1, <2>3
       DEF Queued, Frame!Pending, Holds, WordOf, RecordAt, Flip, seqVars, fifoUiVars, fifoTxVars
  <2>5. Told' <=> Told
    BY <2>1 DEF Told, StartRests, FormatterRests, Rests, seqVars, cdcUiVars, fmtVars
  <2>6. Heard' /\ Recorded'
    BY <1>i, <2>1, <2>3, <2>5, ExpectedStays
       DEF Heard, Recorded, Before, FrameCount, One, SameFrame, seqVars
  <2> QED
    BY <2>2, <2>4, <2>6 DEF OrderInv
<1> QED
  BY <1>1, <1>2, <1>3 DEF Next

(* The sequencer's place in the dump, the frame being built, the frames in   *)
(* the slots and those the MAC has taken make up one stream, in order.       *)
THEOREM OrderInvariant == Spec => []OrderInv
<1>1. Spec => []Frame!QueueInv
  BY DrivesTheFifo, Frame!QueueInvariant, FrameAssumption, PTL
<1> QED
  BY <1>1, OrderStarts, OrderKept, ReadInvariant, FifoInsideDump, DrainInvariant, PTL DEF Spec

(* Every data frame the MAC takes is the next one of its hart, complete, and *)
(* carries that hart's records in order; a completion frame comes after the  *)
(* last of them and nowhere else.                                            *)
THEOREM FramesComeInOrder == Spec => []DataFramesInOrder
<1>1. ReadInv /\ OrderInv => DataFramesInOrder
  <2> SUFFICES ASSUME ReadInv, OrderInv PROVE DataFramesInOrder
    OBVIOUS
  <2> DEFINE F == FrameCount(written[hart])
  <2>1. /\ Len(sent) = Before + Gone + One(Told)
        /\ \A i \in 1 .. Len(sent) : SameFrame(sent[i], Expected[i])
        /\ Gone \in Nat
    BY DEF OrderInv, Heard, Queued
  <2>2. Before \in Nat /\ (Before + F) + 1 <= Len(Expected)
    <3>1. hart \in Harts /\ written \in [Harts -> Nat] /\ 0 \in Nat
      BY DEF ReadInv, DumpTypes
    <3> QED
      BY <3>1, ExpectedAt
  <2>3. Started <= F /\ F \in Nat
    BY StartedBounded DEF OrderInv
  <2>4. /\ Started \in Int /\ One(buildActive) \in Nat /\ Waiting \in Nat
        /\ One(Told) \in Nat /\ One(Told) <= 1
    BY DEF Started, Waiting, One, ReadInv, DumpTypes
  <2>5. Gone = (Started - One(buildActive)) - Waiting
    BY DEF Gone, Completed
  <2> HIDE DEF F
  <2>6. Gone <= F
    BY <2>1, <2>3, <2>4, <2>5
  <2>7. Len(Expected) \in Int
    BY ExpectedLength DEF ReadInv, DumpTypes
  <2>8. Len(sent) <= Len(Expected)
    BY <2>1, <2>2, <2>3, <2>4, <2>6, <2>7
  <2> QED
    BY <2>1, <2>8 DEF DataFramesInOrder
<1> QED
  BY <1>1, ReadInvariant, OrderInvariant, PTL

(* -------------------- the dump implements its service -------------------- *)

(* The metadata of the completion frame, on its way with the request for it: *)
(* stable, and one stage ahead of the token that makes the formatter read it.*)
Meta == [hart |-> doneHart, total |-> doneTotal]
Metadata ==
    /\ seqState # "IDLE" => activeTotal = written[hart]
    /\ seqState \in {"DONE_START", "DONE_WAIT"} => doneHart = hart /\ doneTotal = activeTotal
    /\ seqState = "DONE_START" => uiEdges # 0 \/ metaSync[1] = Meta
    /\ seqState = "DONE_WAIT" =>
          /\ doneStart => uiEdges >= 2 \/ metaSync[1] = Meta
          /\ ~doneStart /\ Moves(startSource, startSync) =>
                /\ metaSync[1] = Meta
                /\ startSync[1] = startSource.toggle => metaSync[2] = Meta
                /\ startSync[2] = startSource.toggle => metaSync[3] = Meta
    /\ fmtState # "IDLE" => fmtHart = doneHart /\ fmtTotal = doneTotal

(* However many UI edges a transmit period has: the metadata that is being   *)
(* replaced is that of the completion frame before, and a stage the token    *)
(* has passed holds the new one.                                             *)
MetaOf(h) == [hart |-> h, total |-> written[h]]
Blank == [hart |-> 0, total |-> 0]
Earlier(h) == {MetaOf(1 - h)} \cup {m \in {Blank} : h = 0}
Latched == [hart |-> fmtHart, total |-> fmtTotal]
Settled == \A k \in Stages : metaSync[k] = Meta
Replaced ==
    /\ seqState # "IDLE" => activeTotal = written[hart]
    /\ seqState = "IDLE" => hart = 0
    /\ seqState \in {"IDLE", "DATA", "DRAIN"} => Meta \in Earlier(hart) /\ Settled
    /\ seqState \in {"DONE_START", "DONE_WAIT"} =>
          Meta = MetaOf(hart) /\ \A k \in Stages : metaSync[k] \in Earlier(hart) \cup {Meta}
    /\ seqState = "DONE_WAIT" /\ ~doneStart =>
          \A k \in Stages : startSync[k] = startSource.toggle => metaSync[k] = Meta
    /\ seqState = "DONE" => hart = 1 /\ Meta = MetaOf(1) /\ Settled
    /\ fmtState # "IDLE" => Latched \in Earlier(hart) \cup {MetaOf(hart)}

(* What has left is a prefix of the plan, and the phase of the service is    *)
(* that of the sequencer.                                                    *)
Exact == \A i \in 1 .. Len(sent) : sent[i] \in Acceptable[i]
Serving ==
    /\ dumps \in Nat /\ (seqState = "IDLE" <=> dumps = 0)
    /\ allDone \in BOOLEAN /\ (allDone => seqState = "DONE")
    /\ seqState = "DONE" => hart = 1
    /\ Exact

ServiceInv == (MaxUiEdges <= 2 => Metadata) /\ Replaced /\ Serving

-----------------------------------------------------------------------------
LEMMA MetadataUi ==
    ASSUME ReadInv, Counting, Completing, Metadata, uiEdges < 2, uiEdges' = uiEdges + 1,
           NEW start, SeqStep(start), UNCHANGED <<fmtVars, written>>,
           startSource' = SourceStep(startSource, doneStart)
    PROVE  Metadata'
<1>t. uiEdges \in Nat /\ CompletingTypes /\ seqState \in SeqStates /\ hart \in Harts
  BY DEF ReadInv, DumpTypes, Counting, Completing, CompletingTypes
<1>u. UNCHANGED <<startSync, metaSync, fmtState, fmtHart, fmtTotal, written>>
  BY DEF fmtVars
<1>s. /\ ~doneStart => startSource'.toggle = startSource.toggle
      /\ doneStart => startSource'.toggle # startSource.toggle
  BY <1>t, SourceSteps DEF CompletingTypes, Completing
<1>1. (seqState # "IDLE" => activeTotal = written[hart])'
  BY <1>t, <1>u DEF Metadata, SeqStep, SeqBegin, SeqRest, SeqPlan, SeqReadDone, SeqHold,
     SeqDrained, SeqDoneStart, SeqHart0Done, SeqHart1Done
<1>2. (seqState \in {"DONE_START", "DONE_WAIT"} => doneHart = hart /\ doneTotal = activeTotal)'
  BY <1>t DEF Metadata, SeqStep, SeqBegin, SeqRest, SeqPlan, SeqReadDone, SeqHold,
     SeqDrained, SeqDoneStart, SeqHart0Done, SeqHart1Done
<1>3. uiEdges' # 0 /\ uiEdges' \in Nat
  BY <1>t
<1>4. seqState' = "DONE_WAIT" =>
         \/ /\ seqState = "DONE_START" /\ doneStart'
         \/ /\ seqState = "DONE_WAIT" /\ ~doneStart'
  BY <1>t DEF SeqStep, SeqBegin, SeqRest, SeqPlan, SeqReadDone, SeqHold,
     SeqDrained, SeqDoneStart, SeqHart0Done, SeqHart1Done, NoRequest
<1>5. seqState' \in {"DONE_START", "DONE_WAIT"} /\ seqState # "DRAIN" => Meta' = Meta
  BY <1>t DEF Meta, SeqStep, SeqBegin, SeqRest, SeqPlan, SeqReadDone, SeqHold,
     SeqDrained, SeqDoneStart, SeqHart0Done, SeqHart1Done
<1>6. ASSUME seqState' = "DONE_WAIT", doneStart'
      PROVE  uiEdges' >= 2 \/ metaSync'[1] = Meta'
  <2>1. seqState = "DONE_START" /\ Meta' = Meta
    BY <1>4, <1>5, <1>6
  <2>2. uiEdges # 0 \/ metaSync[1] = Meta
    BY <2>1 DEF Metadata
  <2> QED
    BY <1>t, <1>u, <2>1, <2>2
<1>7. ASSUME seqState' = "DONE_WAIT", ~doneStart', Moves(startSource', startSync')
      PROVE  /\ metaSync'[1] = Meta'
             /\ startSync'[1] = startSource'.toggle => metaSync'[2] = Meta'
             /\ startSync'[2] = startSource'.toggle => metaSync'[3] = Meta'
  <2>1. seqState = "DONE_WAIT" /\ Meta' = Meta
    BY <1>4, <1>5, <1>7
  <2>2. CASE doneStart
    <3>1. metaSync[1] = Meta
      BY <1>t, <2>1, <2>2 DEF Metadata
    <3>2. startSync[1] = startSource.toggle /\ startSync[2] = startSource.toggle
      BY <2>1, <2>2 DEF Completing, StartRests, Rests, Stages
    <3> QED
      BY <1>s, <1>u, <2>1, <2>2, <3>1, <3>2
  <2>3. CASE ~doneStart
    <3>1. Moves(startSource, startSync)
      BY <1>s, <1>u, <1>7, <2>3 DEF Moves
    <3> QED
      BY <1>s, <1>u, <2>1, <2>3, <3>1 DEF Metadata
  <2> QED
    BY <2>2, <2>3
<1>8. (fmtState # "IDLE" => fmtHart = doneHart /\ fmtTotal = doneTotal)'
  <2>1. fmtState # "IDLE" => seqState = "DONE_WAIT"
    BY DEF Completing, AllRest, FormatterRests
  <2>2. seqState = "DONE_WAIT" => doneHart' = doneHart /\ doneTotal' = doneTotal
    BY DEF SeqStep, SeqBegin, SeqRest, SeqPlan, SeqReadDone, SeqHold,
       SeqDrained, SeqDoneStart, SeqHart0Done, SeqHart1Done
  <2> QED
    BY <1>u, <2>1, <2>2 DEF Metadata
<1> QED
  BY <1>1, <1>2, <1>3, <1>6, <1>7, <1>8 DEF Metadata

(* The formatter starts only on a token that has passed its second stage.    *)
LEMMA StartsOnToken ==
    ASSUME Completing, Pulse(startSync)
    PROVE  /\ seqState = "DONE_WAIT" /\ ~doneStart /\ Moves(startSource, startSync)
           /\ startSync[2] = startSource.toggle
<1>1. startSource \in EventSource /\ startSync \in Chain(Bit)
  BY DEF Completing
<1>2. ~Rests(startSource, startSync)
  BY <1>1, RestsOn
<1>3. seqState = "DONE_WAIT" /\ ~doneStart /\ Moves(startSource, startSync)
  BY <1>2 DEF Completing, AllRest, StartRests
<1>4. startSource.toggle \in Bit /\ startSync[2] \in Bit /\ startSync[3] \in Bit
  BY <1>1, ShiftTakes DEF EventSource
<1>5. startSync[3] # startSync[2] /\ startSource.toggle # startSync[3]
  BY <1>3 DEF Pulse, Moves
<1> QED
  BY <1>3, <1>4, <1>5 DEF Bit

LEMMA MetadataTx ==
    ASSUME Completing, Metadata, NEW ready, TxRegisters(ready), uiEdges' = 0,
           UNCHANGED <<seqVars, cdcUiVars, written>>
    PROVE  Metadata'
<1>u. UNCHANGED <<seqState, hart, activeTotal, doneStart, doneHart, doneTotal, startSource, written>>
  BY DEF seqVars, cdcUiVars
<1>m. /\ metaSync'[1] = Meta /\ metaSync'[2] = metaSync[1] /\ metaSync'[3] = metaSync[2]
      /\ startSync'[1] = startSource.toggle /\ startSync'[2] = startSync[1]
      /\ startSync' = Shift(startSync, startSource.toggle)
  BY DEF TxRegisters, Meta, Shift, Stages
<1>i. Meta' = Meta
  BY <1>u DEF Meta
<1>1. ASSUME seqState = "DONE_WAIT", ~doneStart, Moves(startSource, startSync')
      PROVE  /\ startSync'[1] = startSource.toggle => metaSync'[2] = Meta
             /\ startSync'[2] = startSource.toggle => metaSync'[3] = Meta
  <2>1. Moves(startSource, startSync)
    <3>1. startSource \in EventSource /\ startSync \in Chain(Bit)
      BY DEF Completing
    <3>2. ~Rests(startSource, startSync)
      <4>1. Rests(startSource, startSync) => Rests(startSource, startSync')
        BY <1>m, <3>1, RestsOn
      <4> QED
        BY <1>1, <4>1 DEF Rests, Moves, Stages
    <3> QED
      BY <1>1, <3>2 DEF Completing, StartRests
  <2> QED
    BY <1>1, <1>m, <2>1 DEF Metadata
<1>2. (fmtState # "IDLE" => fmtHart = doneHart /\ fmtTotal = doneTotal)'
  <2>1. CASE FmtStart
    <3>1. metaSync[3] = Meta
      BY <2>1, StartsOnToken DEF FmtStart, Metadata
    <3> QED
      BY <1>u, <2>1, <3>1 DEF FmtStart, SyncOut, Meta
  <2>2. CASE FmtWait(FormatterReady(ready))
    BY <1>u, <2>2 DEF FmtWait, Metadata
  <2>3. CASE FmtHeader(FormatterReady(ready))
    BY <1>u, <2>3 DEF FmtHeader, Metadata
  <2>4. CASE FmtPayload(FormatterReady(ready))
    BY <2>4 DEF FmtPayload
  <2> QED
    BY <2>1, <2>2, <2>3, <2>4 DEF TxRegisters
<1>3. /\ (seqState # "IDLE" => activeTotal = written[hart])'
      /\ (seqState \in {"DONE_START", "DONE_WAIT"} => doneHart = hart /\ doneTotal = activeTotal)'
  BY <1>u DEF Metadata
<1> QED
  BY <1>u, <1>m, <1>i, <1>1, <1>2, <1>3 DEF Metadata

LEMMA ReplacedUi ==
    ASSUME ReadInv, Completing, Replaced, NEW start, SeqStep(start), UNCHANGED <<fmtVars, written>>,
           startSource' = SourceStep(startSource, doneStart)
    PROVE  Replaced'
<1>t. /\ CompletingTypes /\ seqState \in SeqStates /\ hart \in Harts /\ Harts = {0, 1}
      /\ seqState = "DONE_WAIT" \/ ~doneStart
  BY DEF ReadInv, DumpTypes, Completing, CompletingTypes, AllRest, StartRests, Harts, Bit
<1>u. /\ UNCHANGED <<startSync, metaSync, fmtState, fmtHart, fmtTotal, written>>
      /\ \A h : MetaOf(h)' = MetaOf(h) /\ Earlier(h)' = Earlier(h)
      /\ Latched' = Latched
  BY DEF fmtVars, MetaOf, Earlier, Latched, Blank
<1>s. /\ ~doneStart => startSource'.toggle = startSource.toggle
      /\ doneStart => startSource'.toggle # startSource.toggle
  BY <1>t, SourceSteps DEF CompletingTypes, Completing
<1>r. SeqHart0Done \/ SeqHart1Done =>
         /\ ~doneStart /\ fmtState = "IDLE" /\ Meta = MetaOf(hart) /\ Settled
  <2> SUFFICES ASSUME SeqHart0Done \/ SeqHart1Done
               PROVE  ~doneStart /\ fmtState = "IDLE" /\ Meta = MetaOf(hart) /\ Settled
    OBVIOUS
  <2>1. seqState = "DONE_WAIT" /\ Pulse(doneSync)
    BY DEF SeqHart0Done, SeqHart1Done, DoneDoneUi
  <2>2. ~EndRests
    BY <1>t, <2>1, RestsOn DEF EndRests, CompletingTypes
  <2>3. StartRests /\ FormatterRests
    BY <2>1, <2>2 DEF Completing
  <2> QED
    BY <2>1, <2>3 DEF Replaced, StartRests, FormatterRests, Rests, Settled
<1>1. CASE SeqBegin(start)
  <2>1. /\ seqState \in {"IDLE", "DONE"} /\ seqState' \in {"DATA", "DRAIN"}
        /\ hart' = 0 /\ activeTotal' = written[0] /\ fmtState = "IDLE"
        /\ UNCHANGED <<doneHart, doneTotal>>
    BY <1>1 DEF SeqBegin, Completing, AllRest, FormatterRests
  <2>2. Meta' = Meta /\ Settled' = Settled
    BY <1>u, <2>1 DEF Meta, Settled
  <2>3. Meta \in Earlier(0) /\ Settled
    BY <2>1 DEF Replaced, Earlier
  <2> QED
    BY <1>u, <2>1, <2>2, <2>3 DEF Replaced
<1>2. CASE SeqRest(start) \/ SeqPlan \/ SeqReadDone
  <2>1. /\ \/ seqState' = seqState /\ seqState \in {"IDLE", "DATA", "DONE"}
           \/ seqState = "DATA" /\ seqState' \in {"DATA", "DRAIN"}
        /\ UNCHANGED <<hart, activeTotal, doneHart, doneTotal>> /\ fmtState = "IDLE"
    BY <1>2 DEF SeqRest, SeqPlan, SeqReadDone, Completing, AllRest, FormatterRests
  <2>2. Meta' = Meta /\ Settled' = Settled
    BY <1>u, <2>1 DEF Meta, Settled
  <2> QED
    BY <1>u, <2>1, <2>2 DEF Replaced
<1>3. CASE SeqHold
  <2>1. /\ seqState' = seqState /\ seqState \in {"DATA", "DRAIN", "DONE_WAIT"}
        /\ UNCHANGED <<hart, activeTotal, doneHart, doneTotal>> /\ doneStart' = FALSE
    BY <1>3 DEF SeqHold, NoRequest
  <2>2. Meta' = Meta /\ Settled' = Settled
    BY <1>u, <2>1 DEF Meta, Settled
  <2>3. ASSUME seqState = "DONE_WAIT", NEW k \in Stages, startSync'[k] = startSource'.toggle
        PROVE  metaSync'[k] = Meta'
    <3>1. ~doneStart
      <4> SUFFICES ASSUME doneStart PROVE FALSE
        OBVIOUS
      <4>1. startSync[k] = startSource.toggle
        BY <2>3 DEF Completing, StartRests, Rests
      <4> QED
        BY <1>u, <1>s, <2>3, <4>1
    <3> QED
      BY <1>u, <1>s, <2>2, <2>3, <3>1 DEF Replaced
  <2> QED
    BY <1>u, <2>1, <2>2, <2>3 DEF Replaced
<1>4. CASE SeqDrained
  <2>1. /\ seqState = "DRAIN" /\ seqState' = "DONE_START" /\ fmtState = "IDLE"
        /\ UNCHANGED <<hart, activeTotal>> /\ doneHart' = hart /\ doneTotal' = activeTotal
    BY <1>4 DEF SeqDrained, Completing, AllRest, FormatterRests
  <2>2. Meta' = MetaOf(hart) /\ activeTotal = written[hart]
    BY <2>1 DEF Meta, MetaOf, Replaced
  <2>3. \A k \in Stages : metaSync[k] \in Earlier(hart)
    BY <2>1 DEF Replaced, Settled
  <2> QED
    BY <1>u, <2>1, <2>2, <2>3 DEF Replaced
<1>5. CASE SeqDoneStart
  <2>1. /\ seqState = "DONE_START" /\ seqState' = "DONE_WAIT" /\ doneStart' /\ fmtState = "IDLE"
        /\ UNCHANGED <<hart, activeTotal, doneHart, doneTotal>>
    BY <1>5 DEF SeqDoneStart, Completing, AllRest, FormatterRests
  <2>2. Meta' = Meta
    BY <2>1 DEF Meta
  <2> QED
    BY <1>u, <2>1, <2>2 DEF Replaced
<1>6. CASE SeqHart0Done
  <2>1. /\ hart = 0 /\ hart' = 1 /\ activeTotal' = written[1] /\ seqState' \in {"DATA", "DRAIN"}
        /\ UNCHANGED <<doneHart, doneTotal>>
    BY <1>6 DEF SeqHart0Done
  <2>2. Meta' = Meta /\ Settled' = Settled
    BY <1>u, <2>1 DEF Meta, Settled
  <2>3. Meta \in Earlier(1) /\ Settled /\ fmtState = "IDLE"
    BY <1>6, <1>r, <2>1 DEF Earlier
  <2> QED
    BY <1>u, <2>1, <2>2, <2>3 DEF Replaced
<1>7. CASE SeqHart1Done
  <2>1. /\ hart = 1 /\ hart' = 1 /\ activeTotal' = activeTotal /\ seqState' = "DONE"
        /\ UNCHANGED <<doneHart, doneTotal>> /\ activeTotal = written[hart]
    BY <1>7 DEF SeqHart1Done, Replaced
  <2>2. Meta' = Meta /\ Settled' = Settled
    BY <1>u, <2>1 DEF Meta, Settled
  <2> QED
    BY <1>u, <1>7, <1>r, <2>1, <2>2 DEF Replaced
<1> QED
  BY <1>1, <1>2, <1>3, <1>4, <1>5, <1>6, <1>7 DEF SeqStep

LEMMA ReplacedTx ==
    ASSUME Completing, Replaced, NEW ready, TxRegisters(ready), UNCHANGED <<seqVars, cdcUiVars, written>>
    PROVE  Replaced'
<1>u. /\ UNCHANGED <<seqState, hart, activeTotal, doneStart, doneHart, doneTotal, startSource, written>>
      /\ \A h : MetaOf(h)' = MetaOf(h) /\ Earlier(h)' = Earlier(h)
      /\ Meta' = Meta
  BY DEF seqVars, cdcUiVars, MetaOf, Earlier, Meta, Blank
<1>m. /\ metaSync'[1] = Meta /\ metaSync'[2] = metaSync[1] /\ metaSync'[3] = metaSync[2]
      /\ startSync'[1] = startSource.toggle /\ startSync'[2] = startSync[1]
      /\ startSync'[3] = startSync[2] /\ Stages = {1, 2, 3}
  BY DEF TxRegisters, Meta, Shift, Stages
<1>1. Settled => Settled'
  BY <1>u, <1>m DEF Settled
<1>2. (seqState \in {"DONE_START", "DONE_WAIT"} =>
         Meta = MetaOf(hart) /\ \A k \in Stages : metaSync[k] \in Earlier(hart) \cup {Meta})'
  BY <1>u, <1>m DEF Replaced
<1>3. (seqState = "DONE_WAIT" /\ ~doneStart =>
         \A k \in Stages : startSync[k] = startSource.toggle => metaSync[k] = Meta)'
  BY <1>u, <1>m DEF Replaced
<1>4. (fmtState # "IDLE" => Latched \in Earlier(hart) \cup {MetaOf(hart)})'
  <2>1. CASE FmtStart
    <3>1. seqState = "DONE_WAIT"
      BY <2>1, StartsOnToken DEF FmtStart
    <3>2. metaSync[3] \in Earlier(hart) \cup {MetaOf(hart)}
      BY <1>m, <3>1 DEF Replaced
    <3>3. metaSync[3] = [hart |-> metaSync[3].hart, total |-> metaSync[3].total]
      BY <3>2 DEF Earlier, MetaOf, Blank
    <3>4. Latched' = metaSync[3]
      BY <2>1, <3>3 DEF FmtStart, SyncOut, Latched
    <3> QED
      BY <1>u, <3>2, <3>4
  <2>2. CASE FmtWait(FormatterReady(ready))
    BY <1>u, <2>2 DEF FmtWait, Replaced, Latched
  <2>3. CASE FmtHeader(FormatterReady(ready))
    BY <1>u, <2>3 DEF FmtHeader, Replaced, Latched
  <2>4. CASE FmtPayload(FormatterReady(ready))
    BY <2>4 DEF FmtPayload
  <2> QED
    BY <2>1, <2>2, <2>3, <2>4 DEF TxRegisters
<1> QED
  BY <1>u, <1>1, <1>2, <1>3, <1>4 DEF Replaced

-----------------------------------------------------------------------------
LEMMA AcceptableStays == written' = written => Acceptable' = Acceptable /\ Expected' = Expected
BY ExpectedStays DEF Acceptable, Completion, Overtaken

LEMMA AcceptableLength ==
    ASSUME written \in [Harts -> Nat]
    PROVE  Len(Acceptable) = Len(Expected) /\ Len(Expected) \in Nat
<1>1. Len(Expected) \in Nat
  BY ExpectedLength
<1> DEFINE n == Len(Expected)
           f == [i \in 1 .. n |-> IF Expected[i].kind = "DATA" THEN {Expected[i]}
                                  ELSE Completion(Expected[i].hart)]
           S == {f[i] : i \in 1 .. n}
<1>2. f \in [1 .. n -> S]
  OBVIOUS
<1>3. Acceptable = f
  BY DEF Acceptable
<1> HIDE DEF f, n, S
<1>4. Len(f) = n
  <2>1. f \in Seq(S) /\ DOMAIN f = 1 .. n
    BY <1>1, <1>2, SeqDef DEF n
  <2> QED
    BY <1>1, <2>1, LenProperties DEF n
<1> QED
  BY <1>1, <1>3, <1>4 DEF n

(* The metadata the formatter holds is acceptable for its hart.              *)
LEMMA CompletionCarries ==
    ASSUME MaxUiEdges \in Nat, MaxUiEdges <= 2 => Metadata, Replaced, hart \in Harts,
           seqState = "DONE_WAIT", fmtState # "IDLE"
    PROVE  DoneFrame(fmtHart, fmtTotal) \in Completion(hart)
<1>1. CASE MaxUiEdges <= 2
  <2>1. fmtHart = hart /\ fmtTotal = written[hart]
    BY <1>1 DEF Metadata
  <2> QED
    BY <2>1 DEF Completion
<1>2. CASE MaxUiEdges > 2
  <2>1. Latched \in Earlier(hart) \cup {MetaOf(hart)}
    BY DEF Replaced
  <2>2. CASE Latched = MetaOf(hart)
    BY <2>2 DEF Latched, MetaOf, Completion
  <2>3. CASE Latched = MetaOf(1 - hart)
    <3>1. fmtHart = 1 - hart /\ fmtTotal = written[1 - hart]
      BY <2>3 DEF Latched, MetaOf
    <3> QED
      BY <1>2, <3>1 DEF Completion, Overtaken
  <2>4. CASE Latched = Blank /\ hart = 0
    <3>1. fmtHart = 0 /\ fmtTotal = 0
      BY <2>4 DEF Latched, Blank
    <3> QED
      BY <1>2, <2>4, <3>1 DEF Completion, Overtaken
  <2> QED
    BY <2>1, <2>2, <2>3, <2>4 DEF Earlier
<1> QED
  BY <1>1, <1>2

(* The frame that leaves is the next one of the plan, completion frames      *)
(* included.                                                                 *)
LEMMA NextFrame ==
    ASSUME ReadInv, Frame!FifoInv, Frame!QueueInv, Counting, Completing, OrderInv,
           MaxUiEdges <= 2 => Metadata, Replaced,
           NEW ready, TxRegisters(ready), UNCHANGED <<seqVars, dmaVars, fifoUiVars, cdcUiVars, written>>
    PROVE  \/ /\ seqState \notin {"IDLE", "DONE"}
              /\ \E frame \in Acceptable[Len(sent) + 1] : sent' = Append(sent, frame)
              /\ Len(sent) < Len(Expected)
           \/ sent' = sent
<1>i. Numbering /\ Queued /\ Heard /\ Recorded /\ hart \in Harts
  BY DEF OrderInv, ReadInv, DumpTypes
<1>n. Len(sent) \in Nat /\ Len(Expected) \in Nat
  BY <1>i, LenProperties, ExpectedLength DEF Recorded, ReadInv, DumpTypes
<1>s. SlotsSent(SlotReady(ready))
  BY SlotsTx DEF TxRegisters
<1>a. ASSUME Len(sent) + 1 <= Len(Expected)
      PROVE  Acceptable[Len(sent) + 1] =
                IF Expected[Len(sent) + 1].kind = "DATA" THEN {Expected[Len(sent) + 1]}
                ELSE Completion(Expected[Len(sent) + 1].hart)
  <2>1. Len(sent) + 1 \in 1 .. Len(Expected)
    BY <1>n, <1>a
  <2> QED
    BY <2>1 DEF Acceptable
<1>1. CASE DoneLeaves
  <2>1. /\ sent' = Append(sent, DoneFrame(fmtHart, fmtTotal))
        /\ Expected[Len(sent) + 1] = DoneFrame(hart, written[hart]) /\ Len(sent) + 1 <= Len(Expected)
        /\ seqState = "DONE_WAIT" /\ fmtState = "PAYLOAD"
    BY <1>1 DEF DoneLeaves, Leaves
  <2>2. DoneFrame(hart, written[hart]).kind = "DONE" /\ DoneFrame(hart, written[hart]).hart = hart
    BY DEF DoneFrame
  <2>3. Acceptable[Len(sent) + 1] = Completion(hart)
    BY <1>a, <2>1, <2>2
  <2>4. DoneFrame(fmtHart, fmtTotal) \in Completion(hart)
    BY <1>i, <2>1, CompletionCarries, DumpAssumption DEF DumpAssumption
  <2> QED
    BY <1>n, <2>1, <2>3, <2>4
<1>2. CASE DataLeaves
  <2>1. /\ sent' = Append(sent, Expected[Len(sent) + 1]) /\ Len(sent) + 1 <= Len(Expected)
        /\ Expected[Len(sent) + 1] = FullFrame(hart, Gone) /\ seqState \in {"DATA", "DRAIN"}
    BY <1>2 DEF DataLeaves, Leaves
  <2>2. Expected[Len(sent) + 1].kind = "DATA"
    BY <2>1 DEF FullFrame
  <2>3. Expected[Len(sent) + 1] \in Acceptable[Len(sent) + 1]
    BY <1>a, <2>1, <2>2
  <2> QED
    BY <1>n, <2>1, <2>3
<1> QED
  BY <1>i, <1>s, <1>1, <1>2, FrameLeaves

LEMMA ExactGrows ==
    ASSUME Recorded, Exact, NEW frame \in Acceptable[Len(sent) + 1], sent' = Append(sent, frame),
           Acceptable' = Acceptable
    PROVE  Exact'
<1>1. PICK S : sent \in Seq(S)
  BY DEF Recorded
<1> DEFINE T == S \cup {frame}
<1>2. sent \in Seq(T) /\ frame \in T
  BY <1>1, SeqMonotonic
<1> HIDE DEF T
<1>3. /\ Len(sent) \in Nat /\ Len(Append(sent, frame)) = Len(sent) + 1
      /\ Append(sent, frame)[Len(sent) + 1] = frame
      /\ \A i \in 1 .. Len(sent) : Append(sent, frame)[i] = sent[i]
  BY <1>2, AppendProperties
<1>4. ASSUME NEW i \in 1 .. Len(sent) + 1 PROVE sent'[i] \in Acceptable[i]
  <2>1. CASE i = Len(sent) + 1
    BY <1>3, <2>1
  <2>2. CASE i # Len(sent) + 1
    <3>1. i \in 1 .. Len(sent)
      BY <1>3, <2>2
    <3> QED
      BY <1>3, <3>1 DEF Exact
  <2> QED
    BY <2>1, <2>2
<1> QED
  BY <1>3, <1>4 DEF Exact

(* In DONE every frame of both harts has left.                               *)
LEMMA DoneIsWhole ==
    ASSUME ReadInv, Frame!FifoInv, Counting, Completing, OrderInv, Serving, seqState = "DONE"
    PROVE  Len(sent) = Len(Expected)
<1> DEFINE A == FrameCount(written[0])
           B == FrameCount(written[1])
<1>t. DumpTypes /\ hart = 1 /\ Numbering /\ readSlot \in Bit
  BY DEF ReadInv, Serving, OrderInv, Frame!FifoInv, Frame!TypeOK, Frame!Slots, Frame!Bit, Bit
<1>1. Gone = B
  <2>1. Empty
    BY NothingInside
  <2> QED
    BY <1>t, <2>1, EmptyIsGone DEF Numbering, DumpTypes
<1>2. One(Told) = 1
  BY DEF Told, Completing, AllRest, One
<1>3. Before = A + 1
  BY <1>t DEF Before
<1>4. A \in Nat /\ B \in Nat
  BY <1>t, FramesNeeded DEF DumpTypes, Harts, Bit
<1>5. Len(Expected) = (A + 1) + (B + 1)
  BY <1>t, ExpectedLength DEF DumpTypes
<1>6. Len(sent) = Before + Gone + One(Told)
  BY DEF OrderInv, Heard
<1> HIDE DEF A, B
<1> QED
  BY <1>1, <1>2, <1>3, <1>4, <1>5, <1>6

(* What an edge of the UI clock does to the state of the service.            *)
LEMMA ServingUi ==
    ASSUME ReadInv, Serving, NEW start, start => MayStart, SeqStep(start), written' = written
    PROVE  /\ Serving'
           /\ \/ /\ dumps = 0 \/ allDone
                 /\ dumps' # 0 /\ ~allDone' /\ sent' = <<>>
              \/ /\ seqState = "DONE" /\ dumps # 0 /\ ~allDone
                 /\ dumps' # 0 /\ allDone' /\ sent' = sent
              \/ dumps' = dumps /\ allDone' = allDone /\ sent' = sent
<1>t. /\ dumps \in Nat /\ (seqState = "IDLE" <=> dumps = 0)
      /\ allDone \in BOOLEAN /\ (allDone => seqState = "DONE")
      /\ seqState = "DONE" => hart = 1
      /\ Exact /\ Acceptable' = Acceptable
  BY AcceptableStays DEF Serving
<1>0. sent' = sent => Exact'
  BY <1>t DEF Exact
<1>1. CASE SeqBegin(start)
  <2>1. /\ sent' = <<>> /\ allDone' = FALSE /\ dumps' = dumps + 1
        /\ seqState' \in {"DATA", "DRAIN"} /\ start
    BY <1>1 DEF SeqBegin
  <2>2. dumps = 0 \/ allDone
    BY <1>t, <2>1 DEF MayStart
  <2>3. Exact' /\ dumps' \in Nat /\ dumps' # 0
    BY <1>t, <2>1 DEF Exact
  <2> QED
    BY <1>1, <2>1, <2>2, <2>3 DEF Serving
<1>2. CASE SeqRest(start)
  <2>1. /\ sent' = sent /\ dumps' = dumps /\ seqState' = seqState /\ hart' = hart
        /\ allDone' = (allDone \/ seqState = "DONE") /\ seqState \in {"IDLE", "DONE"}
    BY <1>2 DEF SeqRest
  <2>2. CASE seqState = "IDLE" \/ allDone
    <3>1. allDone' = allDone
      BY <1>t, <2>1, <2>2
    <3> QED
      BY <1>t, <1>0, <2>1, <3>1 DEF Serving
  <2>3. CASE seqState = "DONE" /\ ~allDone
    BY <1>t, <1>0, <2>1, <2>3 DEF Serving
  <2> QED
    BY <2>1, <2>2, <2>3
<1>3. CASE ~SeqBegin(start) /\ ~SeqRest(start)
  <2>1. /\ sent' = sent /\ dumps' = dumps /\ allDone' = allDone
        /\ seqState \notin {"IDLE", "DONE"} /\ seqState' # "IDLE"
        /\ seqState' = "DONE" => hart' = 1
    BY <1>3 DEF SeqStep, SeqPlan, SeqReadDone, SeqHold, SeqDrained, SeqDoneStart,
       SeqHart0Done, SeqHart1Done
  <2> QED
    BY <1>t, <1>0, <2>1 DEF Serving
<1> QED
  BY <1>1, <1>2, <1>3

DumpInv == ReadInv /\ Frame!FifoInv /\ Frame!QueueInv /\ DrainInv /\ OrderInv
Phase == IF dumps = 0 THEN "idle" ELSE IF allDone THEN "complete" ELSE "sending"

LEMMA ServiceStarts == Init => ServiceInv /\ Service!Init
<1> SUFFICES ASSUME Init PROVE ServiceInv /\ Service!Init
  OBVIOUS
<1>1. Metadata
  BY DEF Init, Metadata
<1>2. Serving
  <2>1. sent = <<>> /\ dumps = 0 /\ seqState = "IDLE" /\ allDone = FALSE
    BY DEF Init
  <2>2. Exact
    BY <2>1 DEF Exact
  <2> QED
    BY <2>1, <2>2 DEF Serving
<1>3. Replaced
  <2>1. Meta = Blank /\ Settled
    BY DEF Init, Meta, Blank, Settled, ChainOf
  <2>2. seqState = "IDLE" /\ hart = 0 /\ fmtState = "IDLE"
    BY DEF Init
  <2> QED
    BY <2>1, <2>2 DEF Replaced, Earlier
<1>4. Service!Init
  BY DEF Init, Service!Init
<1> QED
  BY <1>1, <1>2, <1>3, <1>4 DEF ServiceInv

(* Every edge of either clock keeps the invariant and is a step of the       *)
(* service, or none.                                                         *)
LEMMA ServiceStep ==
    ASSUME DumpInv, ServiceInv, [Next]_vars
    PROVE  ServiceInv' /\ [Service!Next]_<<Acceptable, Phase, sent>>
<1>i. /\ ReadInv /\ Frame!FifoInv /\ Frame!QueueInv /\ Counting /\ Completing /\ OrderInv
      /\ (MaxUiEdges <= 2 => Metadata) /\ Replaced /\ Serving
  BY DEF DumpInv, DrainInv, ServiceInv
<1>l. Len(Acceptable) = Len(Expected) /\ Len(Expected) \in Nat
  BY <1>i, AcceptableLength DEF ReadInv, DumpTypes
<1>1. CASE UiEdge
  <2>1. PICK axi, start : (start => MayStart) /\ UiRegisters(axi, start)
    BY <1>1 DEF UiEdge
  <2>2. /\ uiEdges < MaxUiEdges /\ uiEdges' = uiEdges + 1
        /\ UNCHANGED <<fmtVars, written>> /\ Acceptable' = Acceptable
    BY <1>1, AcceptableStays DEF UiEdge
  <2>3. MaxUiEdges <= 2 => uiEdges < 2
    BY <1>i, <2>2, DumpAssumption DEF Counting, DumpAssumption
  <2>4. SeqStep(start) /\ startSource' = SourceStep(startSource, doneStart)
    BY <2>1 DEF UiRegisters
  <2>5. (MaxUiEdges <= 2 => Metadata)'
    <3>1. ASSUME MaxUiEdges <= 2 PROVE Metadata'
      BY <1>i, <2>2, <2>3, <2>4, <3>1, MetadataUi
    <3> QED
      BY <3>1
  <2>r. Replaced'
    BY <1>i, <2>2, <2>4, ReplacedUi
  <2>6. /\ Serving'
        /\ \/ /\ dumps = 0 \/ allDone
              /\ dumps' # 0 /\ ~allDone' /\ sent' = <<>>
           \/ /\ seqState = "DONE" /\ dumps # 0 /\ ~allDone
              /\ dumps' # 0 /\ allDone' /\ sent' = sent
           \/ dumps' = dumps /\ allDone' = allDone /\ sent' = sent
    BY <1>i, <2>1, <2>2, <2>4, ServingUi
  <2>s. ServiceInv'
    BY <2>5, <2>r, <2>6 DEF ServiceInv
  <2>7. CASE (dumps = 0 \/ allDone) /\ dumps' # 0 /\ ~allDone' /\ sent' = <<>>
    <3>1. Phase \in {"idle", "complete"} /\ Phase' = "sending" /\ sent' = <<>>
      BY <1>i, <2>6, <2>7 DEF Phase, Serving
    <3> QED
      BY <2>2, <2>s, <3>1 DEF Service!Next, Service!Request, Phase
  <2>8. CASE seqState = "DONE" /\ dumps # 0 /\ ~allDone /\ dumps' # 0 /\ allDone' /\ sent' = sent
    <3>1. Len(sent) = Len(Acceptable)
      BY <1>i, <1>l, <2>8, DoneIsWhole
    <3>2. Phase = "sending" /\ Phase' = "complete" /\ sent' = sent
      BY <2>8 DEF Phase
    <3> QED
      BY <2>2, <2>s, <3>1, <3>2 DEF Service!Next, Service!Complete, Phase
  <2>9. CASE dumps' = dumps /\ allDone' = allDone /\ sent' = sent
    <3>1. Phase' = Phase /\ sent' = sent
      BY <2>9 DEF Phase
    <3> QED
      BY <2>2, <2>s, <3>1
  <2> QED
    BY <2>6, <2>7, <2>8, <2>9
<1>2. CASE TxEdge
  <2>1. PICK ready : TxRegisters(ready)
    BY <1>2 DEF TxEdge
  <2>2. /\ UNCHANGED <<seqVars, dmaVars, fifoUiVars, cdcUiVars, written, dumps>>
        /\ uiEdges' = 0 /\ Acceptable' = Acceptable
    BY <1>2, AcceptableStays DEF TxEdge
  <2>3. UNCHANGED <<seqState, hart, allDone, dumps>> /\ Phase' = Phase
    BY <2>2 DEF seqVars, Phase
  <2>4. (MaxUiEdges <= 2 => Metadata)'
    <3>1. ASSUME MaxUiEdges <= 2 PROVE Metadata'
      BY <1>i, <2>1, <2>2, <3>1, MetadataTx
    <3> QED
      BY <3>1
  <2>r. Replaced'
    BY <1>i, <2>1, <2>2, ReplacedTx
  <2>5. \/ /\ seqState \notin {"IDLE", "DONE"}
           /\ \E frame \in Acceptable[Len(sent) + 1] : sent' = Append(sent, frame)
           /\ Len(sent) < Len(Expected)
        \/ sent' = sent
    BY <1>i, <2>1, <2>2, NextFrame
  <2>6. Exact'
    BY <1>i, <2>2, <2>5, ExactGrows DEF Serving, OrderInv, Exact
  <2>7. Serving'
    BY <1>i, <2>3, <2>6 DEF Serving
  <2>8. CASE seqState \notin {"IDLE", "DONE"} /\ sent' # sent
    <3>1. Phase = "sending"
      BY <1>i, <2>8 DEF Serving, Phase
    <3> QED
      BY <1>l, <2>2, <2>3, <2>4, <2>r, <2>5, <2>7, <2>8, <3>1
         DEF Service!Next, Service!Send, Phase, ServiceInv
  <2> QED
    BY <2>2, <2>3, <2>4, <2>r, <2>5, <2>7, <2>8 DEF ServiceInv
<1>3. CASE UNCHANGED vars
  <2>1. UNCHANGED <<seqVars, cdcUiVars, fmtVars, written, dumps, sent, uiEdges>>
    BY <1>3 DEF vars
  <2>2. Acceptable' = Acceptable /\ Phase' = Phase
    BY <2>1, AcceptableStays DEF seqVars, Phase
  <2>3. (MaxUiEdges <= 2 => Metadata)'
    <3>1. Metadata' = Metadata
      BY <2>1 DEF Metadata, Meta, Moves, seqVars, cdcUiVars, fmtVars
    <3> QED
      BY <1>i, <3>1
  <2>r. Replaced'
    BY <1>i, <2>1 DEF Replaced, Meta, MetaOf, Earlier, Blank, Latched, Settled, seqVars, cdcUiVars, fmtVars
  <2>4. Serving'
    BY <1>i, <2>1, <2>2 DEF Serving, Exact, seqVars
  <2> QED
    BY <2>1, <2>2, <2>3, <2>r, <2>4 DEF ServiceInv
<1> QED
  BY <1>1, <1>2, <1>3 DEF Next

(* The dump is what its service says, at any pace of the two clocks: on each *)
(* request exactly the frames of both harts leave, in order and once, each   *)
(* hart closed by a completion frame, and the dump is reported complete when *)
(* the last of them has left.  With at most two UI edges in a transmit       *)
(* period the completion frame is that of its hart's total; with three it    *)
(* may repeat the metadata of the one before it and nothing else.            *)
THEOREM DumpServes == Spec => ImplementsDumpService
<1>1. Spec => []DumpInv
  <2>1. Spec => []Frame!QueueInv
    BY DrivesTheFifo, Frame!QueueInvariant, FrameAssumption, PTL
  <2>2. ReadInv /\ Frame!FifoInv /\ Frame!QueueInv /\ DrainInv /\ OrderInv => DumpInv
    BY DEF DumpInv
  <2> QED
    BY <2>1, <2>2, ReadInvariant, FifoInsideDump, DrainInvariant, OrderInvariant, PTL
<1>2. DumpInv /\ ServiceInv /\ [Next]_vars => ServiceInv' /\ [Service!Next]_<<Acceptable, Phase, sent>>
  BY ServiceStep
<1>3. Service!Init /\ [][Service!Next]_<<Acceptable, Phase, sent>> => ImplementsDumpService
  BY DEF ImplementsDumpService, Service!Spec, Phase
<1> QED
  BY <1>1, <1>2, <1>3, ServiceStarts, PTL DEF Spec
=============================================================================
