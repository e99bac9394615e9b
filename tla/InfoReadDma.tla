----------------------------- MODULE InfoReadDma -----------------------------
(* ddr/info_ddr_read_dma.sv and the two-entry queue info_dma_data_elastic.sv *)
(* behind it: read one frame's records from DDR1 in bursts that stay inside  *)
(* a page, then pad the stream with zero beats to the fixed frame length.    *)
(* Everything runs on the UI clock.  Addresses count 512-bit beats, and each *)
(* hart owns a region of its own, so the region base is the hart itself.     *)
EXTENDS Integers, Sequences

(* Both are positive, as InfoLogDump, which instantiates this, assumes.      *)
CONSTANTS Beats,        \* beats of a frame (30)
          PageBeats     \* beats of a 4 KiB page (64)

VARIABLES
    dmaState, dmaHart, address, beatsRemaining, burstBeats, burstIndex,
    dataIndex, dmaBusy, dmaDone, dmaAxiError, dmaProtocolError,
    elastic             \* at most two beats between the DMA and the FIFO

dmaVars == <<dmaState, dmaHart, address, beatsRemaining, burstBeats, burstIndex,
             dataIndex, dmaBusy, dmaDone, dmaAxiError, dmaProtocolError, elastic>>

DmaStates == {"IDLE", "PLAN", "AR", "R", "PAD"}

(* beats_to_4k and planned_beats: never past the page, never past the data.  *)
BeatsToPageEnd == PageBeats - (address % PageBeats)
(* Slip: the page is not looked at.                                          *)
PlannedToTheEnd == beatsRemaining
PlannedBeats == IF beatsRemaining > BeatsToPageEnd THEN BeatsToPageEnd
                ELSE beatsRemaining

(* Two records per beat: an odd count still reads its last beat whole.       *)
BeatsFor(records) == (records + 1) \div 2

(* A record in DDR1 is named by its hart and its position in the region.     *)
ZeroBeat == << <<>>, <<>> >>
MemoryBeat == << <<dmaHart, 2 * address>>, <<dmaHart, 2 * address + 1>> >>
LastIndex == dataIndex = Beats - 1
LastOfBurst == burstIndex = burstBeats - 1

(* in_ready depends on the queue only; a full queue refuses even when popped *)
ElasticReady == Len(elastic) # 2
Offer == Head(elastic)
ElasticStep(push, entry, ready) ==
    LET left == IF elastic # <<>> /\ ready THEN Tail(elastic) ELSE elastic
    IN  elastic' = IF push THEN Append(left, entry) ELSE left

Entry(beat) == [index |-> dataIndex, last |-> LastIndex, beat |-> beat]

DmaIdle(start) ==
    /\ dmaState = "IDLE" /\ ~start.valid
    /\ dmaBusy' = FALSE /\ dmaDone' = FALSE
    /\ UNCHANGED <<dmaState, dmaHart, address, beatsRemaining, burstBeats,
                   burstIndex, dataIndex, dmaAxiError, dmaProtocolError>>

DmaStart(start) ==
    /\ dmaState = "IDLE" /\ start.valid
    /\ dmaHart' = start.hart
    /\ address' = Beats * start.number
    /\ beatsRemaining' = BeatsFor(start.records)
    /\ dataIndex' = 0
    /\ dmaBusy' = TRUE /\ dmaDone' = FALSE
    /\ dmaState' = "PLAN"
    /\ UNCHANGED <<burstBeats, burstIndex, dmaAxiError, dmaProtocolError>>

DmaPlan ==
    /\ dmaState = "PLAN"
    /\ burstBeats' = PlannedBeats
    /\ burstIndex' = 0
    /\ dmaDone' = FALSE
    /\ dmaState' = "AR"
    /\ UNCHANGED <<dmaHart, address, beatsRemaining, dataIndex, dmaBusy,
                   dmaAxiError, dmaProtocolError>>

DmaAddress(axi) ==
    /\ dmaState = "AR"
    /\ burstIndex' = IF axi.arready THEN 0 ELSE burstIndex
    /\ dmaDone' = FALSE
    /\ dmaState' = IF axi.arready THEN "R" ELSE "AR"
    /\ UNCHANGED <<dmaHart, address, beatsRemaining, burstBeats, dataIndex,
                   dmaBusy, dmaAxiError, dmaProtocolError>>

DmaWait(axi) ==
    /\ \/ dmaState = "R" /\ ~(axi.rvalid /\ ElasticReady)
       \/ dmaState = "PAD" /\ ~ElasticReady
    /\ dmaDone' = FALSE
    /\ UNCHANGED <<dmaState, dmaHart, address, beatsRemaining, burstBeats,
                   burstIndex, dataIndex, dmaBusy, dmaAxiError, dmaProtocolError>>

(* A beat of the burst: errors are latched, but the beat is passed on.       *)
DmaData(axi) ==
    LET ends == LastOfBurst /\ beatsRemaining = 1
        whole == ends /\ LastIndex
    IN  /\ dmaState = "R" /\ axi.rvalid /\ ElasticReady
        /\ dmaAxiError' = (dmaAxiError \/ axi.bad)
        /\ dmaProtocolError' = (dmaProtocolError \/ (axi.rlast # LastOfBurst))
        /\ address' = address + 1
        /\ beatsRemaining' = beatsRemaining - 1
        /\ dataIndex' = IF LastIndex THEN dataIndex ELSE dataIndex + 1
        /\ burstIndex' = IF LastOfBurst THEN burstIndex ELSE burstIndex + 1
        /\ dmaBusy' = ~whole
        /\ dmaDone' = whole
        /\ dmaState' = IF whole THEN "IDLE"
                       ELSE IF ends THEN "PAD"
                       ELSE IF LastOfBurst THEN "PLAN" ELSE "R"
        /\ UNCHANGED <<dmaHart, burstBeats>>

DmaPad ==
    /\ dmaState = "PAD" /\ ElasticReady
    /\ dataIndex' = IF LastIndex THEN dataIndex ELSE dataIndex + 1
    /\ dmaBusy' = ~LastIndex
    /\ dmaDone' = LastIndex
    /\ dmaState' = IF LastIndex THEN "IDLE" ELSE "PAD"
    /\ UNCHANGED <<dmaHart, address, beatsRemaining, burstBeats, burstIndex,
                   dmaAxiError, dmaProtocolError>>

Pushes(axi) == /\ ElasticReady
               /\ dmaState = "PAD" \/ (dmaState = "R" /\ axi.rvalid)

(* One UI edge: start is the registered request of the sequencer, axi what   *)
(* the memory port answers, ready what the frame FIFO takes.                 *)
DmaStep(start, axi, ready) ==
    /\ \/ DmaIdle(start) \/ DmaStart(start) \/ DmaPlan \/ DmaAddress(axi)
       \/ DmaWait(axi) \/ DmaData(axi) \/ DmaPad
    /\ ElasticStep(Pushes(axi),
                   Entry(IF dmaState = "PAD" THEN ZeroBeat ELSE MemoryBeat),
                   ready)

DmaInit ==
    /\ dmaState = "IDLE" /\ dmaHart = 0 /\ address = 0 /\ beatsRemaining = 0
    /\ burstBeats = 0 /\ burstIndex = 0 /\ dataIndex = 0
    /\ dmaBusy = FALSE /\ dmaDone = FALSE
    /\ dmaAxiError = FALSE /\ dmaProtocolError = FALSE
    /\ elastic = <<>>
=============================================================================
