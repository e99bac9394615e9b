---------------------------- MODULE FrameFifoSpec ----------------------------
(* The two-slot frame FIFO on its own, under any clock ratio.  The DMA side  *)
(* is what info_log_dump_subsystem.sv guarantees (and InfoLogDump checks):   *)
(* a build_start only while build_ready, then the beats in order.  Every     *)
(* gap between beats, every stall of the MAC and every interleaving of the   *)
(* two clocks is allowed.                                                    *)
EXTENDS InfoTxFrameFifo

NoBuild == [start |-> FALSE, header |-> NoHeader]
NoData == [valid |-> FALSE, index |-> 0, last |-> FALSE, beat |-> <<Zero, Zero>>]
Build(header) == [start |-> TRUE, header |-> header]
Data(beat) == [valid |-> TRUE, index |-> expectedIndex,
               last |-> expectedIndex = Beats - 1, beat |-> beat]

UiIdle == UiStep(NoBuild, NoData) /\ UNCHANGED txVars

UiBuild == /\ BuildReady
           /\ \E h \in Headers : UiStep(Build(h), NoData)
           /\ UNCHANGED txVars

UiBeat == /\ buildActive
          /\ \E beat \in Records \X Records : UiStep(NoBuild, Data(beat))
          /\ UNCHANGED txVars

TxEdge == /\ \E ready \in BOOLEAN : TxStep(ready)
          /\ UNCHANGED uiVars

Next == UiIdle \/ UiBuild \/ UiBeat \/ TxEdge

Spec == FifoInit /\ [][Next]_fifoVars

---------------------------------------------------------------------------

(* Every register holds a value of its width.                                *)
TypeOK ==
    /\ occupied \in [Slots -> BOOLEAN]
    /\ dirty \in [Slots -> BOOLEAN]
    /\ publish \in [Slots -> Bit]
    /\ releaseSync \in Chain([Slots -> Bit])
    /\ releaseSeen \in [Slots -> Bit]
    /\ writeSlot \in Slots
    /\ buildActive \in BOOLEAN
    /\ expectedIndex \in Indexes
    /\ frameReleased \in BOOLEAN
    /\ protocolError \in BOOLEAN
    /\ slotHeader \in [Slots -> Headers]
    /\ slotPayload \in [Slots -> [Indexes -> Words]]
    /\ txState \in TxStates
    /\ readSlot \in Slots
    /\ release \in [Slots -> Bit]
    /\ publishSync \in Chain([Slots -> Bit])
    /\ wordIndex \in Indexes
    /\ hold \in Words
    /\ activeHeader \in Headers
    /\ shifted \in Seq(Words)

(* The transmit side is inside a frame only while the writer cannot touch    *)
(* that slot: it is reserved, complete, and not the one being filled.  The   *)
(* slot storage is read without a synchronizer, so this is what makes the    *)
(* unsynchronized read legal.                                                *)
SlotExclusive ==
    txState # "IDLE" => occupied[readSlot] /\ ~dirty[readSlot]

(* The frames inside, oldest first, as the abstract queue sees them.         *)
Pending(s) == publish[s] # release[s]
SlotFrame(s) == [hart |-> slotHeader[s].hart, number |-> slotHeader[s].number,
                 words |-> [i \in 1 .. Beats |-> slotPayload[s][i - 1]]]
QueueView ==
    IF ~Pending(readSlot) THEN <<>>
    ELSE IF ~Pending(Flip(readSlot)) THEN <<SlotFrame(readSlot)>>
    ELSE <<SlotFrame(readSlot), SlotFrame(Flip(readSlot))>>

(* The FIFO implements a two-place queue of whole frames: no frame is sent   *)
(* before its last beat, torn by a rewrite of its slot, lost, repeated or    *)
(* overtaken, whatever the clock ratio.                                      *)
Abstract == INSTANCE FrameQueue WITH
    Capacity <- 2,
    Frames <- [hart : Harts, number : FrameNumbers, words : [1 .. Beats -> Words]],
    queue <- QueueView, delivered <- sentFrame
ImplementsFrameQueue == Abstract!Spec
=============================================================================
