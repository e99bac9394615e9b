----------------------- MODULE InfoLogWriteProperties -----------------------
(* What the log path must never do, and that it comes to an end.             *)
EXTENDS InfoLogWrite

(* A release is on its way: finished on the UI side, not yet freed.          *)
Returning(h) ==
    {b \in Banks : \/ b \in ui[h].release
                   \/ releaseSource[h][b].toggle # SyncOut(releaseSync[h][b])}

(* The writer and the reader each choose their next bank for themselves: as  *)
(* long as records come, the banks to be read follow the reader's pointer    *)
(* without a gap, and the bank being filled is the one after them.           *)
RingOrder ==
    \A h \in Harts : ~side[h].flushAck =>
        \E k \in 0 .. BankCount :
            /\ side[h].owned \ Returning(h)
                   = {OnFrom(ui[h].pointer, i) : i \in 0 .. k - 1}
            /\ side[h].valid => side[h].bank = OnFrom(ui[h].pointer, k)

(* A bank has one owner: while the DMA reads it, and until the release has   *)
(* crossed, the writer neither fills nor selects it; a bank the writer may   *)
(* fill holds what the writer counts and nothing left from before.           *)
BankHandedOver ==
    \A h \in Harts :
        /\ ui[h].active =>
               ui[h].bank \in (side[h].owned \intersect side[h].ready)
        /\ side[h].valid => side[h].bank \notin side[h].owned
        /\ \A b \in Banks \ side[h].owned :
               Len(lanes[h][b]) = side[h].count[b]

(* The count offered with a bank is the number of records frozen in it, even *)
(* though it crosses to the UI clock on its own.                             *)
BatchIsExact ==
    \A h \in Harts : BatchValid(ui[h]) =>
        ui[h].sample = side[h].count[ui[h].bank]

(* "All writes done" lets the controller go on to the dump: by then every    *)
(* record produced is in DDR1 and counted, those of a last bank that was     *)
(* frozen at the very end included.                                          *)
AllWrittenIsReal ==
    AllWritesDone => \A h \in Harts :
        /\ Len(memory[h]) = produced[h]
        /\ writtenRecords[h] = produced[h]

(* After a failed burst or a full region nothing is reported complete.       *)
FailedNeverComplete == axiError \/ regionOverflow => ~AllWritesDone

(* A burst stays inside its page and inside the region of its hart, and the  *)
(* beats that are still to come are those announced.                         *)
BurstsLegal ==
    state \in {"AW", "W", "B"} =>
        /\ burstBeats # 0
        /\ (planAddress % PageBeats) + burstBeats <= PageBeats
        /\ planAddress + burstBeats <= RegionBeats
        /\ address[activeHart] =
               planAddress + (IF state = "B" THEN burstBeats ELSE beatIndex)

(* The path refines the record log: in order, once each, complete when said. *)
Log == INSTANCE RecordLog WITH log <- memory, complete <- AllWritesDone
ImplementsRecordLog == Log!Spec

(* Once capture has ended, every record is written and reported, unless an   *)
(* error has been latched: no bank is stranded by a release that met a fill. *)
EveryRecordWritten ==
    captureDone ~> (AllWritesDone \/ axiError \/ regionOverflow)
=============================================================================
