---------------------------- MODULE InfoWriteDma ----------------------------
(* ddr/info_ddr_pingpong_write_dma.sv: writes one claimed bank at a time to  *)
(* the region of its hart in DDR1, in bursts that stay inside a page, and    *)
(* gives the bank back after the response to its last burst.  Addresses      *)
(* count 512-bit beats from the base of the hart's region.                   *)
EXTENDS Integers, Sequences

CONSTANTS PageBeats,     \* beats of a 4 KiB page: 64
          RegionBeats    \* beats of a hart's region of DDR1

VARIABLES
    state, activeHart, address, planAddress, remaining, burstBeats, beatIndex,
    sent, total, batchDone, writtenRecords, axiError, regionOverflow

dmaVars == <<state, activeHart, address, planAddress, remaining, burstBeats,
             beatIndex, sent, total, batchDone, writtenRecords, axiError,
             regionOverflow>>

Harts == {0, 1}
Other(h) == 1 - h
DmaStates == {"IDLE", "PLAN", "LIMIT", "CHECK", "AW", "W", "B"}

(* The token gives a hart the priority, not the exclusive use.  valid: the   *)
(* harts that offer a bank.                                                  *)
Selects(h, valid) == /\ state = "IDLE" /\ h \in valid
                     /\ activeHart = h \/ Other(h) \notin valid

(* Slip: the page boundary is not looked at.                                 *)
PlannedToTheEnd == (remaining + 1) \div 2
PlannedBeats ==
    LET whole == (remaining + 1) \div 2
        page  == PageBeats - (planAddress % PageBeats)
    IN  IF whole > page THEN page ELSE whole

NoneDone == batchDone' = [h \in Harts |-> FALSE]

DmaIdle(valid) ==
    /\ state = "IDLE" /\ valid = {}
    /\ NoneDone
    /\ UNCHANGED <<state, activeHart, address, planAddress, remaining,
                   burstBeats, beatIndex, sent, total, writtenRecords,
                   axiError, regionOverflow>>

DmaClaim(h, valid, count) ==
    /\ Selects(h, valid)
    /\ activeHart' = h
    /\ remaining' = count
    /\ planAddress' = address[h]
    /\ state' = "PLAN"
    /\ NoneDone
    /\ UNCHANGED <<address, burstBeats, beatIndex, sent, total, writtenRecords,
                   axiError, regionOverflow>>

(* Two registered planning steps, then the check against the region.         *)
DmaPlan ==
    /\ state \in {"PLAN", "LIMIT"}
    /\ burstBeats' = IF state = "LIMIT" THEN PlannedBeats ELSE burstBeats
    /\ state' = IF state = "PLAN" THEN "LIMIT" ELSE "CHECK"
    /\ NoneDone
    /\ UNCHANGED <<activeHart, address, planAddress, remaining, beatIndex, sent,
                   total, writtenRecords, axiError, regionOverflow>>

LeavesRegion == burstBeats = 0 \/ planAddress + burstBeats > RegionBeats

DmaCheck ==
    /\ state = "CHECK"
    /\ regionOverflow' = (regionOverflow \/ LeavesRegion)
    /\ beatIndex' = IF LeavesRegion THEN beatIndex ELSE 0
    /\ sent' = IF LeavesRegion THEN sent ELSE 0
    /\ state' = IF LeavesRegion THEN "IDLE" ELSE "AW"
    /\ NoneDone
    /\ UNCHANGED <<activeHart, address, planAddress, remaining, burstBeats,
                   total, writtenRecords, axiError>>

DmaAddress(axi) ==
    /\ state = "AW"
    /\ state' = IF axi.ready THEN "W" ELSE "AW"
    /\ NoneDone
    /\ UNCHANGED <<activeHart, address, planAddress, remaining, burstBeats,
                   beatIndex, sent, total, writtenRecords, axiError,
                   regionOverflow>>

(* beats: the beats waiting in the queue of the active hart.                 *)
Takes(axi, beats) == state = "W" /\ axi.ready /\ beats # <<>>

DmaData(axi, beats) ==
    /\ Takes(axi, beats)
    /\ LET last == beatIndex = burstBeats - 1
           now  == sent + Len(Head(beats))
       IN  /\ sent' = now
           /\ address' = [address EXCEPT ![activeHart] = @ + 1]
           /\ total' = IF last THEN now ELSE total
           /\ beatIndex' = IF last THEN beatIndex ELSE beatIndex + 1
           /\ state' = IF last THEN "B" ELSE "W"
    /\ NoneDone
    /\ UNCHANGED <<activeHart, planAddress, remaining, burstBeats,
                   writtenRecords, axiError, regionOverflow>>

DmaWait(axi, beats) ==
    /\ \/ state = "W" /\ ~Takes(axi, beats)
       \/ state = "B" /\ ~axi.ready
    /\ NoneDone
    /\ UNCHANGED <<state, activeHart, address, planAddress, remaining,
                   burstBeats, beatIndex, sent, total, writtenRecords,
                   axiError, regionOverflow>>

(* A failed burst ends the bank without giving it back.                      *)
(* Slip: a failed bank is given back like any other.                         *)
DmaFailReturns(axi) ==
    /\ state = "B" /\ axi.ready /\ axi.bad
    /\ axiError' = TRUE
    /\ batchDone' = [h \in Harts |-> h = activeHart]
    /\ state' = "IDLE"
    /\ UNCHANGED <<activeHart, address, planAddress, remaining, burstBeats,
                   beatIndex, sent, total, writtenRecords, regionOverflow>>
DmaFail(axi) ==
    /\ state = "B" /\ axi.ready /\ axi.bad
    /\ axiError' = TRUE
    /\ state' = "IDLE"
    /\ NoneDone
    /\ UNCHANGED <<activeHart, address, planAddress, remaining, burstBeats,
                   beatIndex, sent, total, writtenRecords, regionOverflow>>

(* The last burst returns the bank and passes the token on, another one is   *)
(* followed by the plan of the next.                                         *)
DmaBurst(axi) ==
    /\ state = "B" /\ axi.ready /\ ~axi.bad
    /\ writtenRecords' = [writtenRecords EXCEPT ![activeHart] = @ + total]
    /\ LET whole == total >= remaining
       IN  /\ batchDone' = [h \in Harts |-> whole /\ h = activeHart]
           /\ activeHart' = IF whole THEN Other(activeHart) ELSE activeHart
           /\ remaining' = IF whole THEN remaining ELSE remaining - total
           /\ planAddress' = IF whole THEN planAddress ELSE address[activeHart]
           /\ state' = IF whole THEN "IDLE" ELSE "PLAN"
    /\ UNCHANGED <<address, burstBeats, beatIndex, sent, total, axiError,
                   regionOverflow>>

(* One UI edge: the harts that offer a bank and its record count, what the   *)
(* memory port answers, and the beats waiting for each hart.                 *)
DmaStep(valid, count, axi, beats) ==
    \/ DmaIdle(valid)
    \/ \E h \in Harts : DmaClaim(h, valid, count[h])
    \/ DmaPlan \/ DmaCheck
    \/ DmaAddress(axi)
    \/ DmaData(axi, beats[activeHart]) \/ DmaWait(axi, beats[activeHart])
    \/ DmaFail(axi) \/ DmaBurst(axi)

DmaInit ==
    /\ state = "IDLE" /\ activeHart = 0
    /\ address = [h \in Harts |-> 0] /\ planAddress = 0
    /\ remaining = 0 /\ burstBeats = 0 /\ beatIndex = 0
    /\ sent = 0 /\ total = 0
    /\ batchDone = [h \in Harts |-> FALSE]
    /\ writtenRecords = [h \in Harts |-> 0]
    /\ axiError = FALSE /\ regionOverflow = FALSE
=============================================================================
