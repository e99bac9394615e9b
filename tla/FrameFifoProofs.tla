-------------------------- MODULE FrameFifoProofs --------------------------
(* Proofs about the two-slot frame FIFO for every frame length, every set of *)
(* records and every interleaving of the two clocks.                         *)
EXTENDS FrameFifoSpec, SequenceTheorems, TLAPS

(* The nine copies of a slot's toggle, in the order a value travels: the     *)
(* publish toggle, its three TX registers, the release toggle, its three UI  *)
(* registers, and the value the UI side has acted on.  A copy that shows the *)
(* old value (the one the UI side has seen) has only old copies behind it.   *)
Wavefront(s) ==
    LET old == releaseSeen[s]
    IN  /\ publish[s] = old => publishSync[1][s] = old
        /\ publishSync[1][s] = old => publishSync[2][s] = old
        /\ publishSync[2][s] = old => publishSync[3][s] = old
        /\ publishSync[3][s] = old => release[s] = old
        /\ release[s] = old => releaseSync[1][s] = old
        /\ releaseSync[1][s] = old => releaseSync[2][s] = old
        /\ releaseSync[2][s] = old => releaseSync[3][s] = old

(* A slot is dirty exactly while it is being filled, and complete exactly    *)
(* while its publish toggle is ahead of the release the UI side has seen.    *)
Ownership(s) ==
    /\ dirty[s] <=> buildActive /\ s = writeSlot
    /\ dirty[s] => occupied[s]
    /\ (occupied[s] /\ ~dirty[s]) <=> publish[s] # releaseSeen[s]

(* Inside a frame the transmit side still sees the slot as published.        *)
Sending == txState # "IDLE" => publishSync[3][readSlot] # release[readSlot]

Handshake == (\A s \in Slots : Wavefront(s) /\ Ownership(s)) /\ Sending

FifoInv == TypeOK /\ Handshake

---------------------------------------------------------------------------

(* One edge of a three-register chain stays a chain of the same values.      *)
LEMMA ShiftChain ==
    ASSUME NEW S, NEW chain \in Chain(S), NEW v \in S
    PROVE  /\ Shift(chain, v) \in Chain(S)
           /\ Shift(chain, v)[1] = v
           /\ Shift(chain, v)[2] = chain[1]
           /\ Shift(chain, v)[3] = chain[2]
BY DEF Shift, Chain, Stages

(* After reset every slot is free and every toggle is at rest.               *)
LEMMA InitFifoInv == FifoInit => FifoInv
<1> SUFFICES ASSUME FifoInit PROVE FifoInv
  OBVIOUS
<1> USE FifoAssumption DEF FifoAssumption
<1>1. TypeOK
  <2>1. 0 \in Indexes /\ 0 \in Slots /\ 0 \in Bit /\ 1 \in ValidCounts
    BY DEF Indexes, Slots, Bit, ValidCounts
  <2>2. NoHeader \in Headers
    BY <2>1 DEF NoHeader, Headers, Harts, Slots
  <2>3. <<Zero, Zero>> \in Words
    BY DEF Words
  <2>4. ChainOf([s \in Slots |-> 0]) \in Chain([Slots -> Bit])
    BY <2>1 DEF Chain, ChainOf
  <2>5. [s \in Slots |-> [i \in Indexes |-> <<Zero, Zero>>]]
           \in [Slots -> [Indexes -> Words]]
    BY <2>3
  <2>6. <<>> \in Seq(Words)
    OBVIOUS
  <2> QED
    BY <2>1, <2>2, <2>3, <2>4, <2>5, <2>6 DEF FifoInit, TypeOK, TxStates
<1>2. Handshake
  BY DEF FifoInit, Handshake, Wavefront, Ownership, Sending, Slots, Bit,
         ChainOf, Stages
<1> QED
  BY <1>1, <1>2 DEF FifoInv

(* The registers of the UI side keep their widths.                           *)
LEMMA UiTypes ==
    ASSUME FifoInv,
           NEW build, NEW data, UiStep(build, data), UNCHANGED txVars,
           build.header \in Headers, build.start \in BOOLEAN,
           data.valid \in BOOLEAN, data.last \in BOOLEAN,
           data.valid => data.index = expectedIndex,
           data.beat \in (Records \cup {Zero}) \X (Records \cup {Zero})
    PROVE  TypeOK'
<1> USE FifoAssumption DEF FifoAssumption
<1> DEFINE accepted == build.start /\ BuildReady
           stored == data.valid /\ buildActive
           last == stored /\ data.index = Beats - 1
<1>t. TypeOK
  BY DEF FifoInv
<1>1. /\ occupied' \in [Slots -> BOOLEAN]
      /\ dirty' \in [Slots -> BOOLEAN]
  BY <1>t, Zenon DEF TypeOK, UiStep
<1>6. publish' \in [Slots -> Bit] /\ writeSlot' \in Slots
  BY <1>t DEF TypeOK, UiStep, Slots, Bit, Flip
<1>7. /\ buildActive' \in BOOLEAN
      /\ frameReleased' \in BOOLEAN
      /\ protocolError' \in BOOLEAN
  BY <1>t, Zenon DEF TypeOK, UiStep
<1>2. /\ releaseSync' \in Chain([Slots -> Bit])
      /\ releaseSeen' \in [Slots -> Bit]
  <2>1. releaseSync' = Shift(releaseSync, release) /\ releaseSeen' = releaseSync[3]
    BY DEF UiStep, ReleaseUi, SyncOut
  <2>2. releaseSync \in Chain([Slots -> Bit]) /\ release \in [Slots -> Bit]
    BY <1>t DEF TypeOK
  <2>3. releaseSync[3] \in [Slots -> Bit]
    BY <2>2 DEF Chain, Stages
  <2> QED
    BY <2>1, <2>2, <2>3, ShiftChain
<1>3. expectedIndex' \in Indexes
  <2>1. expectedIndex \in Indexes /\ 0 \in Indexes
    BY <1>t DEF TypeOK, Indexes
  <2>2. expectedIndex # Beats - 1 => expectedIndex + 1 \in Indexes
    BY <2>1 DEF Indexes
  <2>3. expectedIndex' = IF accepted \/ last THEN 0
                         ELSE IF stored THEN expectedIndex + 1 ELSE expectedIndex
    BY DEF UiStep
  <2>4. stored /\ ~last => expectedIndex # Beats - 1
    OBVIOUS
  <2> QED
    BY <2>1, <2>2, <2>3, <2>4
<1>4. slotHeader' \in [Slots -> Headers]
  BY <1>t DEF TypeOK, UiStep
<1>5. slotPayload' \in [Slots -> [Indexes -> Words]]
  <2>1. \A valid : Masked(data.beat, data.index, valid) \in Words
    BY DEF Masked, Words
  <2> QED
    BY <1>t, <2>1 DEF TypeOK, UiStep
<1> QED
  BY <1>t, <1>1, <1>2, <1>3, <1>4, <1>5, <1>6, <1>7 DEF TypeOK, txVars

(* An edge of the UI clock keeps the order of the toggles and the ownership  *)
(* of the slots.                                                             *)
LEMMA UiHandshake ==
    ASSUME FifoInv, NEW build, NEW data, UiStep(build, data), UNCHANGED txVars,
           build.start \in BOOLEAN, data.valid \in BOOLEAN
    PROVE  Handshake'
<1>t. TypeOK /\ Handshake
  BY DEF FifoInv
<1>s. /\ releaseSync' [1] = release
      /\ releaseSync' [2] = releaseSync[1]
      /\ releaseSync' [3] = releaseSync[2]
      /\ releaseSeen' = releaseSync[3]
  BY <1>t, ShiftChain DEF TypeOK, UiStep, ReleaseUi, SyncOut
<1>r. \A s \in Slots : /\ releaseSync[3] \in [Slots -> Bit]
                       /\ releaseSync[2] \in [Slots -> Bit]
                       /\ releaseSync[1] \in [Slots -> Bit]
                       /\ publishSync[3] \in [Slots -> Bit]
                       /\ publishSync[2] \in [Slots -> Bit]
                       /\ publishSync[1] \in [Slots -> Bit]
  BY <1>t DEF TypeOK, Chain, Stages
<1>1. ASSUME NEW s \in Slots PROVE Wavefront(s)' /\ Ownership(s)'
  <2> DEFINE accepted == build.start /\ BuildReady
             last == data.valid /\ buildActive /\ data.index = Beats - 1
  <2>1. /\ Wavefront(s) /\ Ownership(s)
        /\ publish[s] \in Bit /\ releaseSeen[s] \in Bit /\ release[s] \in Bit
        /\ occupied[s] \in BOOLEAN /\ dirty[s] \in BOOLEAN
        /\ buildActive \in BOOLEAN
    BY <1>t DEF TypeOK, Handshake
  <2>2. /\ occupied'[s] = ((accepted /\ s = writeSlot)
                            \/ (occupied[s] /\ releaseSync[3][s] = releaseSeen[s]))
        /\ dirty'[s] = IF s = writeSlot THEN (accepted \/ dirty[s]) /\ ~last
                       ELSE dirty[s]
        /\ publish'[s] = IF last /\ s = writeSlot THEN 1 - publish[s]
                         ELSE publish[s]
        /\ writeSlot' = IF last THEN 1 - writeSlot ELSE writeSlot
        /\ buildActive' = (accepted \/ (buildActive /\ ~last))
    BY DEF UiStep, Released, ReleaseUi, SyncOut, Flip
  <2>3. accepted <=> build.start /\ ~buildActive /\ ~occupied[writeSlot]
    BY DEF BuildReady
  <2>4. Wavefront(s)'
    BY <1>s, <1>r, <2>1, <2>2 DEF Wavefront, Ownership, txVars, Bit
  <2>o. writeSlot \in Slots /\ s \in Slots
    BY <1>t DEF TypeOK
  <2>d. dirty'[s] <=> buildActive' /\ s = writeSlot'
    <3>1. CASE s = writeSlot
      BY <3>1, <2>1, <2>2, <2>3, <2>o DEF Ownership, Slots, Bit
    <3>2. CASE s # writeSlot
      BY <3>2, <2>1, <2>2, <2>3, <2>o DEF Ownership, Slots, Bit
    <3> QED
      BY <3>1, <3>2
  <2>e. dirty'[s] => occupied'[s]
    BY <2>1, <2>2, <1>r DEF Ownership, Wavefront, Bit
  <2>f. (occupied'[s] /\ ~dirty'[s]) <=> publish'[s] # releaseSeen'[s]
    <3>1. CASE releaseSync[3][s] # releaseSeen[s]
      <4>1. publish[s] = releaseSync[3][s] /\ occupied[s] /\ ~dirty[s]
        BY <1>r, <2>1, <3>1 DEF Ownership, Wavefront, Bit
      <4>2. ~(accepted /\ s = writeSlot) /\ ~(last /\ s = writeSlot)
        BY <4>1, <2>1, <2>3 DEF Ownership
      <4>3. publish'[s] = publish[s] /\ ~occupied'[s]
        BY <4>2, <3>1, <2>2
      <4> QED
        BY <4>1, <4>3, <1>s
    <3>2. CASE releaseSync[3][s] = releaseSeen[s] /\ last /\ s = writeSlot
      <4>1. dirty[s] /\ occupied[s] /\ publish[s] = releaseSeen[s]
        BY <3>2, <2>1 DEF Ownership
      <4>2. occupied'[s] /\ ~dirty'[s] /\ publish'[s] = 1 - publish[s]
        BY <4>1, <3>2, <2>2
      <4> QED
        BY <4>1, <4>2, <3>2, <2>1, <1>s DEF Bit
    <3>3. CASE releaseSync[3][s] = releaseSeen[s] /\ ~(last /\ s = writeSlot)
      <4>1. publish'[s] = publish[s] /\ releaseSeen'[s] = releaseSeen[s]
        BY <3>3, <2>2, <1>s
      <4>2. CASE accepted /\ s = writeSlot
        <5>1. ~occupied[s] /\ publish[s] = releaseSeen[s]
          BY <4>2, <2>1, <2>3 DEF Ownership
        <5>2. dirty'[s]
          BY <4>2, <3>3, <2>2
        <5> QED
          BY <5>1, <5>2, <4>1
      <4>3. CASE ~(accepted /\ s = writeSlot)
        <5>1. (occupied'[s] <=> occupied[s]) /\ (dirty'[s] <=> dirty[s])
          BY <4>3, <3>3, <2>1, <2>2
        <5> QED
          BY <5>1, <4>1, <2>1 DEF Ownership
      <4> QED
        BY <4>2, <4>3
    <3> QED
      BY <3>1, <3>2, <3>3
  <2>5. Ownership(s)'
    BY <2>d, <2>e, <2>f DEF Ownership
  <2> QED
    BY <2>4, <2>5
<1>2. Sending'
  BY <1>t DEF Handshake, Sending, txVars
<1> QED
  BY <1>1, <1>2 DEF Handshake

(* The registers of the TX side keep their widths.                           *)
LEMMA TxTypes ==
    ASSUME FifoInv, NEW ready \in BOOLEAN, TxStep(ready), UNCHANGED uiVars
    PROVE  TypeOK'
<1> USE FifoAssumption DEF FifoAssumption
<1>t. TypeOK
  BY DEF FifoInv
<1>0. publishSync' \in Chain([Slots -> Bit])
  BY <1>t, ShiftChain DEF TypeOK, TxStep
<1>u. 0 \in Indexes /\ PublishTx \in [Slots -> Bit]
  BY <1>t DEF TypeOK, Indexes, PublishTx, SyncOut, Chain, Stages
<1>1. CASE TxWait
  BY <1>t, <1>0, <1>1 DEF TypeOK, TxWait, uiVars
<1>2. CASE TxStall(ready)
  BY <1>t, <1>0, <1>2 DEF TypeOK, TxStall, uiVars
<1>3. CASE TxStart
  BY <1>t, <1>0, <1>3 DEF TypeOK, TxStart, uiVars, TxStates
<1>4. CASE TxHeader(ready)
  BY <1>t, <1>0, <1>4 DEF TypeOK, TxHeader, uiVars, TxStates
<1>5. CASE TxFrameNumber(ready)
  BY <1>t, <1>0, <1>u, <1>5 DEF TypeOK, TxFrameNumber, uiVars, TxStates
<1>6. CASE TxLoadWord
  BY <1>t, <1>0, <1>u, <1>6 DEF TypeOK, TxLoadWord, uiVars, TxStates
<1>7. CASE TxNextWord(ready)
  <2>1. wordIndex + 1 \in Indexes
    BY <1>t, <1>7 DEF TypeOK, TxNextWord, Indexes
  <2> QED
    BY <1>t, <1>0, <1>7, <2>1 DEF TypeOK, TxNextWord, uiVars
<1>8. CASE TxLastWord(ready)
  BY <1>t, <1>0, <1>u, <1>8 DEF TypeOK, TxLastWord, uiVars, TxStates, Flip, Slots, Bit
<1> QED
  BY <1>1, <1>2, <1>3, <1>4, <1>5, <1>6, <1>7, <1>8 DEF TxStep

(* An edge of the TX clock keeps the order of the toggles and sends only a   *)
(* published slot.                                                           *)
LEMMA TxHandshake ==
    ASSUME FifoInv, NEW ready \in BOOLEAN, TxStep(ready), UNCHANGED uiVars
    PROVE  Handshake'
<1>t. TypeOK /\ Handshake
  BY DEF FifoInv
<1>s. /\ publishSync' [1] = publish
      /\ publishSync' [2] = publishSync[1]
      /\ publishSync' [3] = publishSync[2]
  BY <1>t, ShiftChain DEF TypeOK, TxStep
<1>r. /\ releaseSync[3] \in [Slots -> Bit]
      /\ releaseSync[2] \in [Slots -> Bit]
      /\ releaseSync[1] \in [Slots -> Bit]
      /\ publishSync[3] \in [Slots -> Bit]
      /\ publishSync[2] \in [Slots -> Bit]
      /\ publishSync[1] \in [Slots -> Bit]
      /\ publish \in [Slots -> Bit] /\ release \in [Slots -> Bit]
      /\ releaseSeen \in [Slots -> Bit] /\ readSlot \in Slots
  BY <1>t DEF TypeOK, Chain, Stages
<1>w. \A s \in Slots : Wavefront(s) /\ Ownership(s)
  BY <1>t DEF Handshake
<1>o. (\A s \in Slots : Ownership(s))'
  BY <1>w DEF Ownership, uiVars
<1>1. CASE TxLastWord(ready)
  <2>1. /\ txState' = "IDLE"
        /\ release' = [release EXCEPT ![readSlot] = publishSync[3][readSlot]]
        /\ publishSync[3][readSlot] # release[readSlot]
    BY <1>1, <1>t DEF TxLastWord, PublishTx, SyncOut, Handshake, Sending
  <2>2. ASSUME NEW s \in Slots PROVE Wavefront(s)'
    BY <1>w, <1>s, <1>r, <2>1 DEF Wavefront, uiVars, Bit
  <2> QED
    BY <1>o, <2>1, <2>2 DEF Handshake, Sending
<1>2. CASE ~TxLastWord(ready)
  <2>1. /\ release' = release /\ readSlot' = readSlot
        /\ txState' # "IDLE" => publishSync[3][readSlot] # release[readSlot]
    BY <1>2, <1>t DEF TxStep, TxWait, TxStall, TxStart, TxHeader, TxFrameNumber,
       TxLoadWord, TxNextWord, SlotPending, PublishTx, SyncOut, Handshake, Sending,
       TxValid
  <2>2. ASSUME NEW s \in Slots PROVE Wavefront(s)'
    BY <1>w, <1>s, <1>r, <2>1 DEF Wavefront, uiVars, Bit
  <2>3. Sending'
    BY <1>w, <1>s, <1>r, <2>1 DEF Wavefront, Sending, Bit
  <2> QED
    BY <1>o, <2>2, <2>3 DEF Handshake
<1> QED
  BY <1>1, <1>2

(* Every edge of either clock keeps the invariant.                           *)
LEMMA NextFifoInv == FifoInv /\ [Next]_fifoVars => FifoInv'
<1> SUFFICES ASSUME FifoInv, [Next]_fifoVars PROVE FifoInv'
  OBVIOUS
<1> USE FifoAssumption DEF FifoAssumption
<1>h. NoHeader \in Headers
  BY DEF NoHeader, Headers, Harts, Bit, ValidCounts
<1>n. /\ NoBuild.header = NoHeader /\ NoBuild.start = FALSE
      /\ NoData.valid = FALSE /\ NoData.last = FALSE
      /\ NoData.beat \in (Records \cup {Zero}) \X (Records \cup {Zero})
  BY DEF NoBuild, NoData
<1>1. CASE UiIdle
  BY <1>1, <1>h, <1>n, UiTypes, UiHandshake DEF UiIdle, FifoInv
<1>2. CASE UiBuild
  <2>1. PICK h \in Headers : UiStep(Build(h), NoData)
    BY <1>2 DEF UiBuild
  <2>2. Build(h).header \in Headers /\ Build(h).start = TRUE
    BY DEF Build
  <2> QED
    BY <1>2, <1>n, <2>1, <2>2, UiTypes, UiHandshake DEF UiBuild, FifoInv
<1>3. CASE UiBeat
  <2>1. PICK beat \in Records \X Records : UiStep(NoBuild, Data(beat))
    BY <1>3 DEF UiBeat
  <2>2. /\ Data(beat).beat \in Records \X Records
        /\ Data(beat).valid = TRUE /\ Data(beat).index = expectedIndex
        /\ Data(beat).last = (expectedIndex = Beats - 1)
    BY DEF Data
  <2> QED
    BY <1>3, <1>h, <1>n, <2>1, <2>2, UiTypes, UiHandshake DEF UiBeat, FifoInv
<1>4. CASE TxEdge
  BY <1>4, TxTypes, TxHandshake DEF TxEdge, FifoInv
<1>5. CASE UNCHANGED fifoVars
  BY <1>5 DEF FifoInv, TypeOK, Handshake, Wavefront, Ownership, Sending,
     fifoVars, uiVars, txVars
<1> QED
  BY <1>1, <1>2, <1>3, <1>4, <1>5 DEF Next

(* The handshake of the two toggles of a slot holds in every reachable state.*)
THEOREM FifoInvariant == Spec => []FifoInv
<1>1. FifoInit => FifoInv
  BY InitFifoInv
<1>2. FifoInv /\ [Next]_fifoVars => FifoInv'
  BY NextFifoInv
<1> QED
  BY <1>1, <1>2, PTL DEF Spec

(* Every register of info_tx_frame_fifo_2slot keeps its width.               *)
THEOREM FifoTypes == Spec => []TypeOK
BY FifoInvariant, PTL DEF FifoInv

(* The transmit side never reads a slot the writer may touch.                *)
THEOREM FifoExclusive == Spec => []SlotExclusive
<1>1. FifoInv => SlotExclusive
  BY DEF FifoInv, TypeOK, Handshake, Sending, Wavefront, Ownership,
         SlotExclusive, Chain, Stages, Bit
<1> QED
  BY <1>1, FifoInvariant, PTL

(* ------------------- the FIFO is a queue of whole frames ----------------- *)

(* Slots are filled and sent in turn: the reader's is the older one, and the *)
(* writer is at it again when both are pending or none is.                   *)
InTurn ==
    /\ Pending(Flip(readSlot)) => Pending(readSlot)
    /\ writeSlot = readSlot <=> (Pending(readSlot) <=> Pending(Flip(readSlot)))

(* What has left of the frame being sent, and the word about to leave, are   *)
(* those of its slot, which is not rewritten meanwhile.                      *)
Truthful ==
    /\ txState # "IDLE" => activeHeader = slotHeader[readSlot]
    /\ txState # "RECORD_DATA" => shifted = <<>>
    /\ txState = "LOAD_WORD" => wordIndex = 0
    /\ txState = "RECORD_DATA" =>
          /\ Len(shifted) = wordIndex
          /\ \A i \in 1 .. wordIndex : shifted[i] = slotPayload[readSlot][i - 1]
          /\ hold = slotPayload[readSlot][wordIndex]

QueueInv == InTurn /\ Truthful

(* How far the toggles of a slot have come, seen from its two ends.          *)
LEMMA PendingIsTaken ==
    ASSUME FifoInv, NEW s \in Slots
    PROVE  /\ Pending(s) => occupied[s] /\ ~dirty[s]
           /\ publishSync[3][s] # release[s] =>
                 Pending(s) /\ publish[s] = publishSync[3][s]
<1>1. /\ Wavefront(s) /\ Ownership(s)
      /\ publish[s] \in Bit /\ release[s] \in Bit /\ releaseSeen[s] \in Bit
      /\ publishSync[1][s] \in Bit /\ publishSync[2][s] \in Bit
      /\ publishSync[3][s] \in Bit
  BY DEF FifoInv, Handshake, TypeOK, Chain, Stages
<1>2. ASSUME Pending(s) PROVE publish[s] # releaseSeen[s]
  BY <1>1, <1>2 DEF Pending, Wavefront
<1>3. ASSUME publishSync[3][s] # release[s]
      PROVE  Pending(s) /\ publish[s] = publishSync[3][s]
  BY <1>1, <1>3 DEF Pending, Wavefront, Bit
<1> QED
  BY <1>1, <1>2, <1>3 DEF Ownership

(* A UI edge completes the slot being filled, or changes nothing of what is  *)
(* pending.                                                                  *)
Published(data) == data.valid /\ buildActive /\ data.index = Beats - 1

LEMMA UiPublishes ==
    ASSUME FifoInv, NEW build, NEW data, UiStep(build, data), UNCHANGED txVars
    PROVE  /\ \A s \in Slots : /\ Pending(s)' <=> (Pending(s) \/ (Published(data) /\ s = writeSlot))
                               /\ Pending(s) => /\ slotHeader'[s] = slotHeader[s]
                                                /\ slotPayload'[s] = slotPayload[s]
           /\ Published(data) => ~Pending(writeSlot)
           /\ writeSlot' = IF Published(data) THEN Flip(writeSlot) ELSE writeSlot
<1>t. TypeOK /\ writeSlot \in Slots
  BY DEF FifoInv, TypeOK
<1> DEFINE accepted == build.start /\ BuildReady
           stored == data.valid /\ buildActive
<1>1. /\ publish' = [s \in Slots |->
               IF Published(data) /\ s = writeSlot THEN Flip(publish[s]) ELSE publish[s]]
      /\ writeSlot' = IF Published(data) THEN Flip(writeSlot) ELSE writeSlot
  BY DEF UiStep, Published
<1>2. /\ slotHeader' = IF accepted THEN [slotHeader EXCEPT ![writeSlot] = build.header]
                       ELSE slotHeader
      /\ \E word : slotPayload' = IF stored THEN [slotPayload EXCEPT ![writeSlot] = word]
                                  ELSE slotPayload
  BY DEF UiStep
<1>3. stored \/ accepted => ~Pending(writeSlot)
  <2>1. stored => dirty[writeSlot]
    BY <1>t DEF FifoInv, Handshake, Ownership
  <2> QED
    BY <1>t, <2>1, PendingIsTaken DEF BuildReady
<1>4. Published(data) => stored
  BY DEF Published
<1>5. ASSUME NEW s \in Slots
      PROVE  Pending(s)' <=> (Pending(s) \/ (Published(data) /\ s = writeSlot))
  <2>1. publish[s] \in Bit /\ release[s] \in Bit /\ release' = release
    BY <1>t DEF TypeOK, txVars
  <2> QED
    BY <1>1, <1>3, <1>4, <1>5, <2>1 DEF Pending, Flip, Bit
<1>6. ASSUME NEW s \in Slots, Pending(s)
      PROVE  slotHeader'[s] = slotHeader[s] /\ slotPayload'[s] = slotPayload[s]
  <2>1. s = writeSlot => ~stored /\ ~accepted
    BY <1>3, <1>6
  <2> QED
    BY <1>t, <1>2, <1>6, <2>1 DEF TypeOK
<1> QED
  BY <1>1, <1>3, <1>4, <1>5, <1>6

LEMMA UiKeepsOrder ==
    ASSUME FifoInv, QueueInv, NEW build, NEW data, UiStep(build, data), UNCHANGED txVars
    PROVE  QueueInv'
<1>t. /\ TypeOK /\ writeSlot \in Slots /\ readSlot \in Slots /\ wordIndex \in Indexes
      /\ Flip(readSlot) \in Slots
      /\ UNCHANGED <<txState, readSlot, release, wordIndex, hold, activeHeader, shifted>>
  BY DEF FifoInv, TypeOK, txVars, Slots, Bit, Flip
<1>1. InTurn'
  BY <1>t, UiPublishes DEF QueueInv, InTurn, Slots, Bit, Flip
<1>2. txState # "IDLE" => slotHeader'[readSlot] = slotHeader[readSlot]
                          /\ slotPayload'[readSlot] = slotPayload[readSlot]
  <2>1. txState # "IDLE" => Pending(readSlot)
    BY <1>t, PendingIsTaken DEF FifoInv, Handshake, Sending
  <2> QED
    BY <1>t, <2>1, UiPublishes
<1>3. Truthful'
  BY <1>t, <1>2 DEF QueueInv, Truthful
<1> QED
  BY <1>1, <1>3 DEF QueueInv

(* A TX edge sends the last word of the oldest frame, or changes nothing of  *)
(* what is pending.                                                          *)
LEMMA TxReleases ==
    ASSUME FifoInv, NEW ready, TxStep(ready), UNCHANGED uiVars
    PROVE  /\ TxLastWord(ready) =>
                 /\ Pending(readSlot) /\ readSlot' = Flip(readSlot)
                 /\ \A s \in Slots : Pending(s)' <=> (Pending(s) /\ s # readSlot)
           /\ ~TxLastWord(ready) =>
                 /\ readSlot' = readSlot /\ sentFrame' = sentFrame
                 /\ \A s \in Slots : Pending(s)' <=> Pending(s)
<1>t. TypeOK /\ readSlot \in Slots /\ publish' = publish
  BY DEF FifoInv, TypeOK, uiVars
<1>1. ASSUME TxLastWord(ready)
      PROVE  /\ Pending(readSlot) /\ readSlot' = Flip(readSlot)
             /\ \A s \in Slots : Pending(s)' <=> (Pending(s) /\ s # readSlot)
  <2>1. /\ readSlot' = Flip(readSlot) /\ txState = "RECORD_DATA"
        /\ release' = [release EXCEPT ![readSlot] = publishSync[3][readSlot]]
    BY <1>1 DEF TxLastWord, PublishTx, SyncOut
  <2>2. Pending(readSlot) /\ publish[readSlot] = publishSync[3][readSlot]
    BY <1>t, <2>1, PendingIsTaken DEF FifoInv, Handshake, Sending
  <2>3. release \in [Slots -> Bit]
    BY <1>t DEF TypeOK
  <2> QED
    BY <1>t, <2>1, <2>2, <2>3 DEF Pending
<1>2. ASSUME ~TxLastWord(ready)
      PROVE  readSlot' = readSlot /\ sentFrame' = sentFrame /\ release' = release
  BY <1>2 DEF TxStep, TxWait, TxStall, TxStart, TxHeader, TxFrameNumber, TxLoadWord, TxNextWord
<1>3. ASSUME ~TxLastWord(ready) PROVE \A s \in Slots : Pending(s)' <=> Pending(s)
  BY <1>t, <1>2, <1>3 DEF Pending
<1> QED
  BY <1>1, <1>2, <1>3

LEMMA TxKeepsOrder ==
    ASSUME FifoInv, QueueInv, NEW ready, TxStep(ready), UNCHANGED uiVars
    PROVE  QueueInv'
<1>t. /\ TypeOK /\ writeSlot \in Slots /\ readSlot \in Slots /\ wordIndex \in Indexes
      /\ hold \in Words /\ shifted \in Seq(Words)
      /\ Flip(readSlot) \in Slots /\ Flip(Flip(readSlot)) = readSlot
      /\ UNCHANGED <<writeSlot, slotHeader, slotPayload>>
  BY DEF FifoInv, TypeOK, uiVars, Slots, Bit, Flip
<1>1. InTurn'
  <2>1. CASE TxLastWord(ready)
    BY <1>t, <2>1, TxReleases DEF QueueInv, InTurn, Slots, Bit, Flip
  <2>2. CASE ~TxLastWord(ready)
    BY <1>t, <2>2, TxReleases DEF QueueInv, InTurn
  <2> QED
    BY <2>1, <2>2
<1>q. Truthful
  BY DEF QueueInv
<1> SUFFICES Truthful'
  BY <1>1 DEF QueueInv
<1>2. CASE TxWait \/ TxStall(ready) \/ TxHeader(ready)
  BY <1>t, <1>q, <1>2 DEF Truthful, TxWait, TxStall, TxHeader
<1>3. CASE TxStart
  BY <1>t, <1>q, <1>3 DEF Truthful, TxStart
<1>4. CASE TxFrameNumber(ready)
  BY <1>t, <1>q, <1>4 DEF Truthful, TxFrameNumber
<1>5. CASE TxLoadWord
  BY <1>t, <1>q, <1>5 DEF Truthful, TxLoadWord
<1>6. CASE TxNextWord(ready)
  <2>1. /\ txState = "RECORD_DATA" /\ txState' = txState /\ readSlot' = readSlot
        /\ activeHeader' = activeHeader /\ wordIndex' = wordIndex + 1
        /\ hold' = slotPayload[readSlot][wordIndex + 1] /\ shifted' = Append(shifted, hold)
    BY <1>6 DEF TxNextWord
  <2>2. /\ Len(shifted) = wordIndex /\ hold = slotPayload[readSlot][wordIndex]
        /\ \A i \in 1 .. wordIndex : shifted[i] = slotPayload[readSlot][i - 1]
        /\ activeHeader = slotHeader[readSlot] /\ wordIndex \in Nat
    BY <1>t, <1>q, <2>1 DEF Truthful, Indexes
  <2>3. /\ Len(shifted') = wordIndex + 1 /\ shifted'[wordIndex + 1] = hold
        /\ \A i \in 1 .. wordIndex : shifted'[i] = shifted[i]
    BY <1>t, <2>1, <2>2
  <2>4. ASSUME NEW i \in 1 .. wordIndex + 1
        PROVE  shifted'[i] = slotPayload[readSlot][i - 1]
    <3>1. CASE i = wordIndex + 1
      <4>1. i - 1 = wordIndex
        BY <2>2, <3>1
      <4> QED
        BY <2>2, <2>3, <3>1, <4>1
    <3>2. CASE i # wordIndex + 1
      <4>1. i \in 1 .. wordIndex
        BY <2>2, <3>2
      <4> QED
        BY <2>2, <2>3, <4>1
    <3> QED
      BY <3>1, <3>2
  <2> QED
    BY <1>t, <2>1, <2>2, <2>3, <2>4 DEF Truthful
<1>7. CASE TxLastWord(ready)
  BY <1>t, <1>q, <1>7 DEF Truthful, TxLastWord
<1> QED
  BY <1>2, <1>3, <1>4, <1>5, <1>6, <1>7 DEF TxStep

LEMMA QueueKept == FifoInv /\ QueueInv /\ [Next]_fifoVars => QueueInv'
<1> SUFFICES ASSUME FifoInv, QueueInv, [Next]_fifoVars PROVE QueueInv'
  OBVIOUS
<1>1. CASE UiIdle \/ UiBuild \/ UiBeat
  BY <1>1, UiKeepsOrder DEF UiIdle, UiBuild, UiBeat
<1>2. CASE TxEdge
  BY <1>2, TxKeepsOrder DEF TxEdge
<1>3. CASE UNCHANGED fifoVars
  BY <1>3 DEF QueueInv, InTurn, Truthful, Pending, fifoVars, uiVars, txVars
<1> QED
  BY <1>1, <1>2, <1>3 DEF Next

(* The slots are used in turn, and what has left of a frame is what its slot *)
(* holds.                                                                    *)
THEOREM QueueInvariant == Spec => []QueueInv
<1>1. FifoInit => QueueInv
  BY DEF FifoInit, QueueInv, InTurn, Truthful, Pending, Slots, Bit, Flip
<1> QED
  BY <1>1, QueueKept, FifoInvariant, PTL DEF Spec

(* The frame that is complete on the wire is the one of its slot.            *)
LEMMA WholeFrame ==
    ASSUME FifoInv, QueueInv, txState = "RECORD_DATA", wordIndex = Beats - 1
    PROVE  FrameOut = SlotFrame(readSlot)
<1>t. /\ shifted \in Seq(Words) /\ hold \in Words /\ Beats \in Nat \ {0} /\ readSlot \in Slots
      /\ slotPayload[readSlot] \in [Indexes -> Words]
  BY FifoAssumption DEF FifoAssumption, FifoInv, TypeOK
<1>1. /\ Len(shifted) = Beats - 1 /\ hold = slotPayload[readSlot][Beats - 1]
      /\ \A i \in 1 .. Beats - 1 : shifted[i] = slotPayload[readSlot][i - 1]
      /\ activeHeader = slotHeader[readSlot]
  BY DEF QueueInv, Truthful
<1> DEFINE out == Append(shifted, hold)
           words == [i \in 1 .. Beats |-> slotPayload[readSlot][i - 1]]
<1>2. /\ out \in Seq(Words) /\ Len(out) = Beats /\ out[Beats] = hold
      /\ \A i \in 1 .. Beats - 1 : out[i] = shifted[i]
  BY <1>t, <1>1
<1>3. out \in [1 .. Beats -> Words]
  BY <1>2, LenProperties
<1> HIDE DEF out
<1>4. ASSUME NEW i \in 1 .. Beats PROVE out[i] = words[i]
  <2>1. CASE i = Beats
    BY <1>1, <1>2, <2>1
  <2>2. CASE i # Beats
    <3>1. i \in 1 .. Beats - 1
      BY <1>t, <2>2
    <3> QED
      BY <1>1, <1>2, <3>1
  <2> QED
    BY <2>1, <2>2
<1>5. out = words
  <2>1. words = [i \in 1 .. Beats |-> words[i]] /\ out = [i \in 1 .. Beats |-> out[i]]
    BY <1>3
  <2> HIDE DEF words
  <2> QED
    BY <1>4, <2>1
<1> QED
  BY <1>1, <1>5 DEF FrameOut, SlotFrame, out

(* Every step is one of the queue or leaves it alone.                        *)
LEMMA UiRefines ==
    ASSUME FifoInv, FifoInv', QueueInv, NEW build, NEW data, UiStep(build, data),
           UNCHANGED txVars
    PROVE  Abstract!Publish \/ UNCHANGED <<QueueView, sentFrame>>
<1>t. /\ writeSlot \in Slots /\ readSlot \in Slots /\ Flip(readSlot) \in Slots
      /\ UNCHANGED <<readSlot, sentFrame>>
  BY DEF FifoInv, TypeOK, txVars, Slots, Bit, Flip
<1>1. \A s \in Slots : Pending(s) => SlotFrame(s)' = SlotFrame(s)
  BY UiPublishes DEF SlotFrame
<1>2. CASE ~Published(data)
  <2>1. \A s \in Slots : Pending(s)' <=> Pending(s)
    BY <1>2, UiPublishes
  <2>2. QueueView' = QueueView
    BY <1>t, <1>1, <2>1 DEF QueueView, QueueInv, InTurn
  <2> QED
    BY <1>t, <2>2
<1>3. CASE Published(data)
  <2>0. PICK w \in Slots : w = writeSlot
    BY <1>t
  <2> DEFINE frame == SlotFrame(w)'
  <2>1. /\ \A s \in Slots : Pending(s)' <=> (Pending(s) \/ s = w)
        /\ ~Pending(w)
    BY <1>3, <2>0, UiPublishes
  <2>2. frame \in [hart : Harts, number : FrameNumbers, words : [1 .. Beats -> Words]]
    <3>1. slotHeader'[w] \in Headers /\ slotPayload'[w] \in [Indexes -> Words]
      BY <2>0 DEF FifoInv, TypeOK
    <3>2. \A i \in 1 .. Beats : i - 1 \in Indexes
      BY FifoAssumption DEF FifoAssumption, Indexes
    <3> QED
      BY <3>1, <3>2 DEF SlotFrame, Headers
  <2>3. /\ Len(QueueView) < 2
        /\ QueueView' = Append(QueueView, frame)
    <3>1. CASE w = readSlot
      <4>1. ~Pending(readSlot) /\ ~Pending(Flip(readSlot))
        BY <1>t, <2>0, <2>1, <3>1 DEF QueueInv, InTurn
      <4>2. Pending(readSlot)' /\ ~Pending(Flip(readSlot))' /\ Flip(readSlot) # readSlot
        BY <1>t, <2>1, <3>1, <4>1 DEF Slots, Bit, Flip
      <4>3. QueueView = <<>> /\ QueueView' = <<SlotFrame(readSlot)'>>
        BY <1>t, <4>1, <4>2 DEF QueueView
      <4> QED
        BY <1>t, <3>1, <4>3
    <3>2. CASE w # readSlot
      <4>1. Pending(readSlot) /\ ~Pending(Flip(readSlot)) /\ w = Flip(readSlot)
        BY <1>t, <2>0, <2>1, <3>2 DEF QueueInv, InTurn, Slots, Bit, Flip
      <4>2. Pending(readSlot)' /\ Pending(Flip(readSlot))'
        BY <1>t, <2>1, <4>1
      <4>3. /\ QueueView = <<SlotFrame(readSlot)>>
            /\ QueueView' = <<SlotFrame(readSlot)', SlotFrame(Flip(readSlot))'>>
        BY <1>t, <4>1, <4>2 DEF QueueView
      <4> QED
        BY <1>t, <1>1, <4>1, <4>3
    <3> QED
      BY <3>1, <3>2
  <2> QED
    BY <1>t, <2>2, <2>3 DEF Abstract!Publish
<1> QED
  BY <1>2, <1>3

LEMMA TxRefines ==
    ASSUME FifoInv, QueueInv, NEW ready, TxStep(ready), UNCHANGED uiVars
    PROVE  Abstract!Deliver \/ UNCHANGED <<QueueView, sentFrame>>
<1>t. /\ readSlot \in Slots /\ Flip(readSlot) \in Slots /\ Flip(Flip(readSlot)) = readSlot
      /\ Flip(readSlot) # readSlot
      /\ \A s \in Slots : SlotFrame(s)' = SlotFrame(s)
  BY DEF FifoInv, TypeOK, uiVars, Slots, Bit, Flip, SlotFrame
<1>1. CASE ~TxLastWord(ready)
  BY <1>t, <1>1, TxReleases DEF QueueView
<1>2. CASE TxLastWord(ready)
  <2>1. /\ Pending(readSlot) /\ readSlot' = Flip(readSlot)
        /\ \A s \in Slots : Pending(s)' <=> (Pending(s) /\ s # readSlot)
    BY <1>2, TxReleases
  <2>2. sentFrame' = SlotFrame(readSlot)
    BY <1>2, WholeFrame DEF TxLastWord
  <2>3. CASE Pending(Flip(readSlot))
    <3>1. /\ QueueView = <<SlotFrame(readSlot), SlotFrame(Flip(readSlot))>>
          /\ QueueView' = <<SlotFrame(Flip(readSlot))>>
      BY <1>t, <2>1, <2>3 DEF QueueView
    <3> QED
      BY <2>2, <3>1 DEF Abstract!Deliver
  <2>4. CASE ~Pending(Flip(readSlot))
    <3>1. QueueView = <<SlotFrame(readSlot)>> /\ QueueView' = <<>>
      BY <1>t, <2>1, <2>4 DEF QueueView
    <3> QED
      BY <2>2, <3>1 DEF Abstract!Deliver
  <2> QED
    BY <2>3, <2>4
<1> QED
  BY <1>1, <1>2

(* The FIFO is a queue of at most two whole frames: none is sent before its  *)
(* last beat, torn by a rewrite of its slot, lost, repeated or overtaken.    *)
THEOREM FramesInOrder == Spec => ImplementsFrameQueue
<1>1. FifoInit => Abstract!Init
  BY DEF FifoInit, Abstract!Init, QueueView, Pending, Slots, Bit
<1>2. FifoInv /\ FifoInv' /\ QueueInv /\ [Next]_fifoVars
         => [Abstract!Next]_<<QueueView, sentFrame>>
  <2> SUFFICES ASSUME FifoInv, FifoInv', QueueInv, [Next]_fifoVars
               PROVE  Abstract!Next \/ UNCHANGED <<QueueView, sentFrame>>
    OBVIOUS
  <2>1. CASE UiIdle \/ UiBuild \/ UiBeat
    BY <2>1, UiRefines DEF UiIdle, UiBuild, UiBeat, Abstract!Next
  <2>2. CASE TxEdge
    BY <2>2, TxRefines DEF TxEdge, Abstract!Next
  <2>3. CASE UNCHANGED fifoVars
    BY <2>3 DEF QueueView, Pending, SlotFrame, fifoVars, uiVars, txVars
  <2> QED
    BY <2>1, <2>2, <2>3 DEF Next
<1> QED
  BY <1>1, <1>2, FifoInvariant, QueueInvariant, PTL
     DEF Spec, ImplementsFrameQueue, Abstract!Spec
=============================================================================
