-------------------------- MODULE InfoTxFrameFifo --------------------------
(* eth/info_tx_frame_fifo_2slot.sv: two complete-frame slots between the     *)
(* DDR1 user clock (UI) and the 125 MHz transmit clock (TX).                 *)
(*                                                                           *)
(* Every action is one clock edge of one domain, and every register takes    *)
(* its value from the state before the edge.  The two clocks are unrelated:  *)
(* their edges interleave freely.  The only shared state is the toggle pair  *)
(* of a slot, each toggle seen by the other side through three registers,    *)
(* and the slot storage itself, which has no synchronizer at all: it is the  *)
(* toggles that must keep the two sides apart.                               *)
(*                                                                           *)
(* A record is an abstract value.  The fourteen header bytes, the four bytes *)
(* of the frame number and the 48 bytes of a payload word each leave in one  *)
(* accepted transfer, so a frame is shorter here than on the wire and the    *)
(* slots are reused sooner.                                                  *)
EXTENDS ClockCrossing, Sequences

CONSTANTS Beats,      \* 512-bit beats, two records each, of a frame (30)
          Records,    \* what a record of a beat can be
          FrameNumbers \* numbers a frame can carry

ASSUME FifoAssumption == Beats \in Nat \ {0} /\ 0 \in FrameNumbers

Slots == Bit
Harts == Bit
Indexes == 0 .. Beats - 1
Zero == <<>>          \* the 192 zero bits stored in place of a missing record
Words == (Records \cup {Zero}) \X (Records \cup {Zero})
ValidCounts == 1 .. 2 * Beats

VARIABLES
    occupied, dirty,  \* per slot: reserved; reserved and not yet complete
    publish,          \* per slot: toggled when the slot is complete
    releaseSync,      \* three UI registers sampling release
    releaseSeen,      \* the release toggle the UI side has acted on
    writeSlot, buildActive, expectedIndex,
    frameReleased, protocolError,
    slotHeader,       \* per slot: hart, frame number, valid record count
    slotPayload       \* per slot: the words of the frame

uiVars == <<occupied, dirty, publish, releaseSync, releaseSeen, writeSlot,
            buildActive, expectedIndex, frameReleased, protocolError,
            slotHeader, slotPayload>>

VARIABLES
    txState, readSlot,
    release,          \* per slot: toggled when the frame has left
    publishSync,      \* three TX registers sampling publish
    wordIndex, hold,  \* the payload word being sent
    activeHeader,     \* header and frame number latched when a frame starts
    shifted,          \* the words of the current frame already accepted
    sentFrame         \* the last complete frame on the wire

txVars == <<txState, readSlot, release, publishSync, wordIndex, hold,
            activeHeader, shifted, sentFrame>>
fifoVars == <<uiVars, txVars>>

TxStates == {"IDLE", "HEADER", "FRAME_NUMBER", "LOAD_WORD", "RECORD_DATA"}
Headers == [hart : Harts, number : FrameNumbers, valid : ValidCounts]
NoHeader == [hart |-> 0, number |-> 0, valid |-> 1]

(* ---------------------------- UI clock side ----------------------------- *)

BuildReady == ~buildActive /\ ~occupied[writeSlot]
FullUi == \A s \in Slots : occupied[s]
ReleaseUi == SyncOut(releaseSync)
(* Slip: a release that arrives while a slot is being filled is missed.      *)
ReleasedBetweenBuilds(s) == ~buildActive /\ ReleaseUi[s] # releaseSeen[s]
Released(s) == ReleaseUi[s] # releaseSeen[s]

(* Slip: what lies beyond the last record is stored as well.                 *)
Unmasked(beat, index, valid) == beat
(* What is stored of a beat: records from `valid` on are blanked.            *)
Masked(beat, index, valid) ==
    << IF 2 * index < valid THEN beat[1] ELSE Zero,
       IF 2 * index + 1 < valid THEN beat[2] ELSE Zero >>

(* One UI edge.  build is the request of the dump sequencer and data the     *)
(* beat offered by the read DMA, each with its strobe.                       *)
UiStep(build, data) ==
    LET accepted == build.start /\ BuildReady
        stored == data.valid /\ buildActive
        last == stored /\ data.index = Beats - 1
    IN  /\ releaseSync' = Shift(releaseSync, release)
        /\ releaseSeen' = ReleaseUi
        /\ frameReleased' = (\E s \in Slots : Released(s))
        /\ occupied' = [s \in Slots |->
               (accepted /\ s = writeSlot) \/ (occupied[s] /\ ~Released(s))]
        /\ dirty' = [s \in Slots |->
               IF s = writeSlot THEN (accepted \/ dirty[s]) /\ ~last
               ELSE dirty[s]]
        /\ publish' = [s \in Slots |->
               IF last /\ s = writeSlot THEN Flip(publish[s]) ELSE publish[s]]
        /\ writeSlot' = IF last THEN Flip(writeSlot) ELSE writeSlot
        /\ buildActive' = (accepted \/ (buildActive /\ ~last))
        /\ expectedIndex' = IF accepted \/ last THEN 0
                            ELSE IF stored THEN expectedIndex + 1
                            ELSE expectedIndex
        /\ protocolError' = \/ protocolError
                            \/ build.start /\ ~BuildReady
                            \/ stored /\ data.index # expectedIndex
                            \/ stored /\ data.last # (data.index = Beats - 1)
        /\ slotHeader' = IF accepted
                         THEN [slotHeader EXCEPT ![writeSlot] = build.header]
                         ELSE slotHeader
        /\ slotPayload' =
               IF stored
               THEN [slotPayload EXCEPT ![writeSlot][data.index] =
                       Masked(data.beat, data.index, slotHeader[writeSlot].valid)]
               ELSE slotPayload

(* ---------------------------- TX clock side ----------------------------- *)

PublishTx == SyncOut(publishSync)
SlotPending == PublishTx[readSlot] # release[readSlot]
TxValid == txState \in {"HEADER", "FRAME_NUMBER", "RECORD_DATA"}
TxLast == txState = "RECORD_DATA" /\ wordIndex = Beats - 1

NoFrame == [hart |-> 0, number |-> 0, words |-> <<>>]
(* The frame that is complete on the wire once its last word is accepted.    *)
FrameOut == [hart |-> activeHeader.hart, number |-> activeHeader.number,
             words |-> Append(shifted, hold)]

TxWait ==
    /\ txState = "IDLE" /\ ~SlotPending
    /\ UNCHANGED <<txState, readSlot, release, wordIndex, hold, activeHeader,
                   shifted, sentFrame>>

TxStall(ready) ==
    /\ TxValid /\ ~ready
    /\ UNCHANGED <<txState, readSlot, release, wordIndex, hold, activeHeader,
                   shifted, sentFrame>>

(* Slip: the slot is given back when its frame starts.                       *)
TxStartReleasing ==
    /\ txState = "IDLE" /\ SlotPending
    /\ activeHeader' = slotHeader[readSlot]
    /\ shifted' = <<>>
    /\ txState' = "HEADER"
    /\ release' = [release EXCEPT ![readSlot] = PublishTx[readSlot]]
    /\ UNCHANGED <<readSlot, wordIndex, hold, sentFrame>>

TxStart ==
    /\ txState = "IDLE" /\ SlotPending
    /\ activeHeader' = slotHeader[readSlot]
    /\ shifted' = <<>>
    /\ txState' = "HEADER"
    /\ UNCHANGED <<readSlot, release, wordIndex, hold, sentFrame>>

TxHeader(ready) ==
    /\ txState = "HEADER" /\ ready
    /\ txState' = "FRAME_NUMBER"
    /\ UNCHANGED <<readSlot, release, wordIndex, hold, activeHeader, shifted,
                   sentFrame>>

TxFrameNumber(ready) ==
    /\ txState = "FRAME_NUMBER" /\ ready
    /\ wordIndex' = 0
    /\ txState' = "LOAD_WORD"
    /\ UNCHANGED <<readSlot, release, hold, activeHeader, shifted, sentFrame>>

TxLoadWord ==
    /\ txState = "LOAD_WORD"
    /\ hold' = slotPayload[readSlot][0]
    /\ txState' = "RECORD_DATA"
    /\ UNCHANGED <<readSlot, release, wordIndex, activeHeader, shifted,
                   sentFrame>>

(* Slip: the word just sent is fetched again.                                *)
TxSameWord(ready) ==
    /\ txState = "RECORD_DATA" /\ ready /\ wordIndex # Beats - 1
    /\ wordIndex' = wordIndex + 1
    /\ hold' = slotPayload[readSlot][wordIndex]
    /\ shifted' = Append(shifted, hold)
    /\ UNCHANGED <<txState, readSlot, release, activeHeader, sentFrame>>

(* Each later word is fetched at the last byte of the one before it.         *)
TxNextWord(ready) ==
    /\ txState = "RECORD_DATA" /\ ready /\ wordIndex # Beats - 1
    /\ wordIndex' = wordIndex + 1
    /\ hold' = slotPayload[readSlot][wordIndex + 1]
    /\ shifted' = Append(shifted, hold)
    /\ UNCHANGED <<txState, readSlot, release, activeHeader, sentFrame>>

TxLastWord(ready) ==
    /\ txState = "RECORD_DATA" /\ ready /\ wordIndex = Beats - 1
    /\ release' = [release EXCEPT ![readSlot] = PublishTx[readSlot]]
    /\ readSlot' = Flip(readSlot)
    /\ sentFrame' = FrameOut
    /\ shifted' = <<>>
    /\ txState' = "IDLE"
    /\ UNCHANGED <<wordIndex, hold, activeHeader>>

(* One TX edge; `ready` is m_axis_tready.                                    *)
TxStep(ready) ==
    /\ publishSync' = Shift(publishSync, publish)
    /\ \/ TxWait \/ TxStall(ready) \/ TxStart \/ TxHeader(ready)
       \/ TxFrameNumber(ready) \/ TxLoadWord
       \/ TxNextWord(ready) \/ TxLastWord(ready)

FifoInit ==
    /\ occupied = [s \in Slots |-> FALSE]
    /\ dirty = [s \in Slots |-> FALSE]
    /\ publish = [s \in Slots |-> 0]
    /\ releaseSync = ChainOf([s \in Slots |-> 0])
    /\ releaseSeen = [s \in Slots |-> 0]
    /\ writeSlot = 0
    /\ buildActive = FALSE
    /\ expectedIndex = 0
    /\ frameReleased = FALSE
    /\ protocolError = FALSE
    /\ slotHeader = [s \in Slots |-> NoHeader]
    /\ slotPayload = [s \in Slots |-> [i \in Indexes |-> <<Zero, Zero>>]]
    /\ txState = "IDLE"
    /\ readSlot = 0
    /\ release = [s \in Slots |-> 0]
    /\ publishSync = ChainOf([s \in Slots |-> 0])
    /\ wordIndex = 0
    /\ hold = <<Zero, Zero>>
    /\ activeHeader = NoHeader
    /\ shifted = <<>>
    /\ sentFrame = NoFrame
=============================================================================
