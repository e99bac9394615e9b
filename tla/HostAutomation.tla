--------------------------- MODULE HostAutomation ---------------------------
(* The host's side of automated validation: rounds that follow one another,  *)
(* each a program made on the VM, run on the board, and its log compared     *)
(* (webui/eh2web/automation.py), over the service that sends and receives    *)
(* (webui/eh2web/service.py).  A step is what a thread does under a lock;    *)
(* between two steps any other thread may run.  A session has been started   *)
(* and is not started again after its end.  The state that is shown and its  *)
(* history, timings and statistics are left out, and of a failed session the *)
(* stop acknowledgement and the late close of its capture.  Board and VM are *)
(* external.                                                                 *)
EXTENDS Integers, Sequences, FiniteSets, SequencesExt

CONSTANTS Harts,          \* a hart's log is one data frame and its completion frame
          MaxRetries,     \* RESET_RECOVERY_MAX_RETRIES: 2
          MaxRounds,      \* bound: rounds of the session
          WireDepth,      \* bound: frames between the board and the RX thread
          MaxLost,        \* bounds: commands to reset and log frames that are lost,
          MaxFaults       \* failures of the VM, and other failures or a stop

Budgets == {"reset", "frame", "vm", "fault"}
Threads == {"rx", "poll", "compare"}

ASSUME HostAssumption ==
    /\ MaxRounds \in Nat \ {0} /\ WireDepth \in Nat \ {0} /\ MaxRetries \in Nat
    /\ IsFiniteSet(Harts) /\ MaxLost \in [{"reset", "frame"} -> Nat]
    /\ MaxFaults \in [{"vm", "fault"} -> Nat]

VARIABLES
    board,      \* external: its state, the round whose program it runs, what it sends
    wire,       \* frames that wait for the RX thread
    vm,         \* external: the VM job of the current round
    svc,        \* service: board_state, program_send_allowed, discard pending, data seen
    tx,         \* _tx_lock: what is being sent, for which round; the cancel event
    resets,     \* reset workers that wait for the lock, by their attempt
    watchdog,   \* the attempt whose watchdog sleeps, and the one it is about to send
    auto,       \* controller: enabled, round or 0, and its pending flags
    round,      \* the current Round
    rx, poll, compare,   \* RX, poll and compare threads
    skip,       \* per thread, where it is in discarding a round
    workers,    \* preconfig worker, waiting start workers, launch, program sender
    started, concluded, ending,   \* history: rounds installed, released; why it ended
    removed,    \* rounds whose empty capture file was unlinked
    spent       \* how much of each bound is used up

envVars == <<board, wire, vm, removed, spent>>
sendVars == <<svc, tx, resets, watchdog>>
threadVars == <<rx, poll, compare, skip, workers>>
history == <<started, concluded, ending>>
vars == <<envVars, sendVars, auto, round, threadVars, history>>

Frame(kind, hart, of) == [kind |-> kind, hart |-> hart, of |-> of]
Status(kind) == Frame(kind, 0, 0)
LogOf(r) == {Frame(k, h, r) : k \in {"DATA", "HART_DONE"}, h \in Harts}

Spend(b) == /\ spent[b] < (MaxLost @@ MaxFaults)[b]
            /\ spent' = [spent EXCEPT ![b] = @ + 1]

NoJob == [at |-> "none", failed |-> FALSE]
FreshRound(grant) ==
    [ready |-> grant, sent |-> FALSE, dones |-> {}, over |-> FALSE,
     comparing |-> FALSE, status |-> NoJob, closed |-> FALSE, log |-> {}]

Resting == [pc |-> "idle", frame |-> Status("NONE")]
RestingWorker == [pc |-> "idle", of |-> 0]

(* The click on start takes over at whatever the board last said.            *)
Init ==
    /\ wire = <<>> /\ vm = NoJob
    /\ tx = [by |-> "none", of |-> 0, cancel |-> FALSE]
    /\ resets = <<>> /\ watchdog = [asleep |-> -1, calling |-> -1]
    /\ \E last \in {"NONE", "PREINIT", "PASS", "GRANT"} :
          /\ board = [at |-> CASE last = "NONE" -> "RESET" [] last = "PREINIT" -> "WAIT_CHECK"
                               [] last = "PASS" -> "READY" [] last = "GRANT" -> "WRITE",
                      of |-> 0, out |-> <<>>]
          /\ svc = [board |-> CASE last = "NONE" -> "LISTENING" [] last = "PREINIT" -> "PRECONFIG"
                                [] last = "PASS" -> "READY" [] last = "GRANT" -> "PROGRAM_WRITE",
                    allowed |-> last = "GRANT", loss |-> FALSE, seen |-> {}]
          /\ auto = [enabled |-> TRUE, round |-> 0, preinit |-> FALSE,
                     inflight |-> last = "PREINIT", grant |-> last = "GRANT", skipping |-> FALSE]
          /\ workers = [pre |-> IF last = "PREINIT" THEN "send" ELSE "idle",
                        starters |-> IF last \in {"PASS", "GRANT"} THEN 1 ELSE 0,
                        launch |-> 0, sender |-> RestingWorker]
    /\ round = FreshRound(FALSE)
    /\ rx = Resting /\ compare = RestingWorker
    /\ poll = [pc |-> "idle", of |-> 0, status |-> NoJob]
    /\ skip = [t \in Threads |-> RestingWorker]
    /\ started = 0 /\ concluded = 0 /\ ending = "none"
    /\ removed = {} /\ spent = [b \in Budgets |-> 0]

-----------------------------------------------------------------------------
(* Sections of the controller that several threads enter.                    *)
Ended(why) == /\ auto' = [auto EXCEPT !.enabled = FALSE, !.skipping = FALSE]
              /\ ending' = IF auto.enabled THEN why ELSE ending
Fail == Ended("failed")

MaySend == /\ auto.enabled /\ auto.round # 0 /\ ~round.sent /\ round.ready
           /\ round.status.at \in {"program", "spike"}
MaybeSendProgram ==
    /\ round' = IF MaySend THEN [round EXCEPT !.sent = TRUE] ELSE round
    /\ workers' = IF MaySend
                  THEN [workers EXCEPT !.sender = [pc |-> "begin", of |-> auto.round]]
                  ELSE workers

MayCompare == /\ auto.enabled /\ auto.round # 0 /\ ~round.comparing
              /\ round.dones = Harts /\ round.over /\ round.status.at = "spike"
MaybeCompare ==
    /\ round' = IF MayCompare THEN [round EXCEPT !.comparing = TRUE, !.closed = TRUE]
                ELSE round
    /\ compare' = IF MayCompare THEN [pc |-> "compare", of |-> auto.round] ELSE compare

(* The round is detached; its VM job is no longer looked at.                 *)
Release(skipped) ==
    /\ auto' = [auto EXCEPT !.round = 0, !.preinit = FALSE, !.grant = FALSE,
                            !.skipping = skipped]
    /\ round' = FreshRound(FALSE) /\ vm' = NoJob /\ concluded' = concluded + 1

(* _send_board_reset: the worker it leaves waits for the sender's lock.      *)
SendBoardReset(attempt) ==
    /\ svc' = [svc EXCEPT !.board = "RESETTING"]
    /\ tx' = [tx EXCEPT !.cancel = TRUE]
    /\ resets' = Append(resets, attempt)

-----------------------------------------------------------------------------
(* The RX thread takes one frame after another.                              *)
RxGoes(pc) == rx' = IF pc = "idle" THEN Resting ELSE [rx EXCEPT !.pc = pc]
RxAt(pc, kinds) == rx.pc = pc /\ rx.frame.kind \in kinds

Takes(kinds, pc) ==
    /\ rx.pc = "idle" /\ wire # <<>> /\ Head(wire).kind \in kinds
    /\ wire' = Tail(wire) /\ rx' = [frame |-> Head(wire), pc |-> pc]
LogKind == {"DATA", "HART_DONE"}
StatusKind == {"PREINIT", "PASS", "GRANT", "DONE", "EXE_END", "ERROR"}
AnyKind == StatusKind \cup LogKind

StateOf(kind) ==
    CASE kind = "PREINIT" -> "PRECONFIG" [] kind = "PASS" -> "READY"
      [] kind = "GRANT" -> "PROGRAM_WRITE" [] kind = "ERROR" -> "ERROR"
      [] OTHER -> "END"

RxService ==
    /\ Takes(StatusKind, "snapshot")
    /\ LET k == Head(wire).kind
       IN  /\ svc' = [board |-> StateOf(k), allowed |-> k = "GRANT",
                      loss |-> svc.loss /\ k # "PREINIT",
                      seen |-> IF k = "GRANT" THEN {} ELSE svc.seen]
           /\ watchdog' = IF k = "PREINIT" THEN [watchdog EXCEPT !.asleep = -1] ELSE watchdog
           /\ tx' = IF k = "ERROR" THEN [tx EXCEPT !.cancel = TRUE] ELSE tx
    /\ UNCHANGED <<board, vm, removed, spent, resets, auto, round, poll, compare, skip, workers, history>>

(* The code is looked at with what was read here.                            *)
RxSnapshot ==
    /\ RxAt("snapshot", AnyKind)
    /\ RxGoes(IF \/ ~auto.enabled \/ rx.frame.kind = "DONE"
                 \/ auto.skipping /\ rx.frame.kind # "PREINIT" THEN "idle"
              ELSE IF auto.skipping THEN "gate" ELSE "act")
    /\ UNCHANGED <<envVars, sendVars, auto, round, poll, compare, skip, workers, history>>

(* Only the PREINIT of the new epoch lets a session go on after a discard.   *)
(* Slip: a grant of the old epoch is kept.                                   *)
ReopenedKeeping(a) == [a EXCEPT !.skipping = FALSE, !.preinit = TRUE]
Reopened(a) == [a EXCEPT !.skipping = FALSE, !.preinit = TRUE, !.grant = FALSE]

RxGate ==
    /\ RxAt("gate", AnyKind)
    /\ IF auto.enabled /\ auto.skipping
       THEN auto' = Reopened(auto) /\ RxGoes("preconfig")
       ELSE auto' = auto /\ RxGoes("idle")
    /\ UNCHANGED <<envVars, sendVars, round, poll, compare, skip, workers, history>>

RxPreinit ==
    /\ RxAt("act", {"PREINIT"})
    /\ auto' = [auto EXCEPT !.preinit = TRUE]
    /\ RxGoes(IF auto.round = 0 THEN "preconfig" ELSE "idle")
    /\ UNCHANGED <<envVars, sendVars, round, poll, compare, skip, workers, history>>

RxSchedulesPreconfig ==
    /\ RxAt("preconfig", AnyKind) /\ RxGoes("idle")
    /\ LET may == auto.enabled /\ auto.round = 0 /\ auto.preinit /\ ~auto.inflight
       IN  /\ auto' = IF may THEN [auto EXCEPT !.inflight = TRUE] ELSE auto
           /\ workers' = IF may THEN [workers EXCEPT !.pre = "send"] ELSE workers
    /\ UNCHANGED <<envVars, sendVars, round, poll, compare, skip, history>>

(* A grant that comes before the Round exists is latched.                    *)
(* Slip: it is lost.                                                         *)
LatchedNot(a) == a
Latched(a) == [a EXCEPT !.grant = TRUE]

RxGrant ==
    /\ RxAt("act", {"GRANT"})
    /\ IF auto.round # 0
       THEN round' = [round EXCEPT !.ready = TRUE] /\ auto' = auto /\ RxGoes("send")
       ELSE auto' = Latched(auto) /\ round' = round /\ RxGoes("start")
    /\ UNCHANGED <<envVars, sendVars, poll, compare, skip, workers, history>>

RxSchedulesStart ==
    /\ RxAt("act", {"PASS"}) \/ RxAt("start", AnyKind)
    /\ RxGoes(IF rx.pc = "start" THEN "send" ELSE "idle")
    /\ workers' = IF auto.enabled /\ ~auto.skipping /\ auto.round = 0
                  THEN [workers EXCEPT !.starters = @ + 1] ELSE workers
    /\ UNCHANGED <<envVars, sendVars, auto, round, poll, compare, skip, history>>

RxMaybeSends ==
    /\ RxAt("send", AnyKind) /\ RxGoes("idle") /\ MaybeSendProgram
    /\ UNCHANGED <<envVars, sendVars, auto, poll, compare, skip, history>>

RxExeEnd ==
    /\ RxAt("act", {"EXE_END"})
    /\ round' = IF auto.round # 0 THEN [round EXCEPT !.over = TRUE] ELSE round
    /\ RxGoes(IF auto.round # 0 /\ round.dones # Harts THEN "loss" ELSE "compare")
    /\ UNCHANGED <<envVars, sendVars, auto, poll, compare, skip, workers, history>>

RxError ==
    /\ RxAt("act", {"ERROR"}) /\ RxGoes("idle") /\ Fail
    /\ UNCHANGED <<envVars, sendVars, round, poll, compare, skip, workers, started, concluded>>

RxCaptures ==
    /\ Takes(LogKind, "check")
    /\ round' = IF auto.round # 0 /\ ~round.closed
                THEN [round EXCEPT !.log = @ \cup {Head(wire)}] ELSE round
    /\ UNCHANGED <<board, vm, removed, spent, sendVars, auto, poll, compare, skip, workers, history>>

(* Frame numbers and counts run on from the grant.                           *)
(* Slip: the counts of a completion frame are not looked at.                 *)
ContinuousOnly == rx.frame.kind = "DATA" => rx.frame.hart \notin svc.seen
Continuous == (rx.frame.hart \in svc.seen) <=> (rx.frame.kind = "HART_DONE")

RxChecks ==
    /\ RxAt("check", AnyKind)
    /\ svc' = IF rx.frame.kind = "DATA"
              THEN [svc EXCEPT !.seen = @ \cup {rx.frame.hart}] ELSE svc
    /\ RxGoes(IF ~Continuous THEN "loss"
              ELSE IF rx.frame.kind = "DATA" THEN "idle" ELSE "done")
    /\ UNCHANGED <<envVars, tx, resets, watchdog, auto, round, poll, compare, skip, workers, history>>

RxHartDone ==
    /\ RxAt("done", AnyKind) /\ RxGoes("compare")
    /\ round' = IF auto.round # 0 THEN [round EXCEPT !.dones = @ \cup {rx.frame.hart}]
                ELSE round
    /\ UNCHANGED <<envVars, sendVars, auto, poll, compare, skip, workers, history>>

RxMaybeCompares ==
    /\ RxAt("compare", AnyKind) /\ RxGoes("idle") /\ MaybeCompare
    /\ UNCHANGED <<envVars, sendVars, auto, poll, skip, workers, history>>

(* on_info_stream_loss; a loss it does not take over is the service's own.   *)
RxLoss ==
    /\ RxAt("loss", AnyKind)
    /\ IF ~auto.enabled \/ auto.round = 0 \/ auto.skipping
       THEN /\ RxGoes(IF rx.frame.kind = "EXE_END" THEN "idle" ELSE "manual")
            /\ UNCHANGED <<round, skip>>
       ELSE /\ round' = [round EXCEPT !.comparing = TRUE]
            /\ skip' = [skip EXCEPT !["rx"] = [pc |-> "save", of |-> auto.round]]
            /\ RxGoes("discard")
    /\ UNCHANGED <<envVars, sendVars, auto, poll, compare, workers, history>>

RxDiscarded ==
    /\ RxAt("discard", AnyKind) /\ skip["rx"].pc = "idle" /\ RxGoes("idle")
    /\ svc' = [svc EXCEPT !.loss = @ \/ rx.frame.kind # "EXE_END"]
    /\ UNCHANGED <<envVars, tx, resets, watchdog, auto, round, poll, compare, skip, workers, history>>

RxManual ==
    /\ RxAt("manual", AnyKind)
    /\ IF svc.loss \/ svc.board = "RESETTING"
       THEN RxGoes("idle") /\ svc' = svc
       ELSE RxGoes("stop") /\ svc' = [svc EXCEPT !.loss = TRUE]
    /\ UNCHANGED <<envVars, tx, resets, watchdog, auto, round, poll, compare, skip, workers, history>>

RxStops ==
    /\ RxAt("stop", AnyKind) /\ RxGoes("reset")
    /\ IF auto.enabled THEN Ended("discard") /\ round' = [round EXCEPT !.closed = TRUE]
       ELSE UNCHANGED <<auto, ending, round>>
    /\ UNCHANGED <<envVars, sendVars, poll, compare, skip, workers, started, concluded>>

RxResets ==
    /\ RxAt("reset", AnyKind) /\ RxGoes("idle") /\ SendBoardReset(0)
    /\ UNCHANGED <<envVars, watchdog, auto, round, poll, compare, skip, workers, history>>

RxStep == \/ RxService \/ RxSnapshot \/ RxGate \/ RxPreinit
          \/ RxSchedulesPreconfig \/ RxGrant \/ RxSchedulesStart \/ RxMaybeSends
          \/ RxExeEnd \/ RxError \/ RxCaptures \/ RxChecks \/ RxHartDone
          \/ RxMaybeCompares \/ RxLoss \/ RxDiscarded \/ RxManual \/ RxStops \/ RxResets

-----------------------------------------------------------------------------
(* The poll thread reads the status file of the round it saw.                *)
PollGoes(pc) == poll' = IF pc = "idle" THEN [pc |-> "idle", of |-> 0, status |-> NoJob]
                        ELSE [poll EXCEPT !.pc = pc]

PollReads ==
    /\ poll.pc = "idle" /\ auto.enabled /\ auto.round # 0 /\ vm # NoJob
    /\ poll' = [pc |-> "store", of |-> auto.round, status |-> vm]
    /\ UNCHANGED <<envVars, sendVars, auto, round, rx, compare, skip, workers, history>>

PollStores ==
    /\ poll.pc = "store"
    /\ IF auto.round # poll.of THEN round' = round /\ PollGoes("idle")
       ELSE /\ round' = [round EXCEPT !.status = poll.status]
            /\ PollGoes(IF poll.status.failed THEN "skip" ELSE "send")
    /\ UNCHANGED <<envVars, sendVars, auto, rx, compare, skip, workers, history>>

(* _skip_vm_failed_round closes the capture before it saves the evidence,    *)
(* and removes its file if no frame has come.                                *)
PollSkips ==
    /\ poll.pc = "skip"
    /\ IF auto.enabled /\ auto.round = poll.of /\ ~auto.skipping
       THEN /\ skip' = [skip EXCEPT !["poll"] = [pc |-> "save", of |-> poll.of]]
            /\ round' = [round EXCEPT !.closed = TRUE]
            /\ removed' = removed \cup {n \in {poll.of} : round.log = {}}
            /\ PollGoes("discard")
       ELSE PollGoes("idle") /\ UNCHANGED <<round, removed, skip>>
    /\ UNCHANGED <<board, wire, vm, spent, sendVars, auto, rx, compare, workers, history>>

PollDiscarded ==
    /\ poll.pc = "discard" /\ skip["poll"].pc = "idle" /\ PollGoes("idle")
    /\ UNCHANGED <<envVars, sendVars, auto, round, rx, compare, skip, workers, history>>

PollMaybeSends ==
    /\ poll.pc = "send" /\ PollGoes("compare") /\ MaybeSendProgram
    /\ UNCHANGED <<envVars, sendVars, auto, rx, compare, skip, history>>

PollMaybeCompares ==
    /\ poll.pc = "compare" /\ PollGoes("idle") /\ MaybeCompare
    /\ UNCHANGED <<envVars, sendVars, auto, rx, skip, workers, history>>

PollStep == \/ PollReads \/ PollStores \/ PollSkips \/ PollDiscarded
            \/ PollMaybeSends \/ PollMaybeCompares

-----------------------------------------------------------------------------
(* Discarding a round: evidence, release, reset.                             *)
SkipGoes(t, pc) == skip' = [skip EXCEPT ![t] = IF pc = "idle" THEN RestingWorker
                                               ELSE [@ EXCEPT !.pc = pc]]

(* A lost frame is reported with the readable log, made from the capture     *)
(* file; without that file the session ends (_materialize_failure_text).     *)
SkipSaves(t) ==
    /\ skip[t].pc = "save"
    /\ round' = IF auto.round = skip[t].of THEN [round EXCEPT !.closed = TRUE] ELSE round
    /\ IF t # "poll" /\ skip[t].of \in removed
       THEN Ended("missing") /\ SkipGoes(t, "idle")
       ELSE UNCHANGED <<auto, ending>> /\ SkipGoes(t, "release")
    /\ UNCHANGED <<envVars, sendVars, rx, poll, compare, workers, started, concluded>>

(* What cannot be saved is not discarded: the session ends.                  *)
SkipSaveFails(t) ==
    /\ skip[t].pc = "save" /\ Spend("fault") /\ SkipGoes(t, "idle")
    /\ IF t = "poll" /\ auto.round # skip[t].of
       THEN UNCHANGED <<auto, ending>> ELSE Fail
    /\ UNCHANGED <<board, wire, vm, removed, sendVars, round, rx, poll, compare, workers, started, concluded>>

SkipReleases(t) ==
    /\ skip[t].pc = "release"
    /\ IF auto.round = skip[t].of THEN Release(TRUE) /\ SkipGoes(t, "reset")
       ELSE SkipGoes(t, "idle") /\ UNCHANGED <<auto, round, vm, concluded>>
    /\ UNCHANGED <<board, wire, removed, spent, sendVars, rx, poll, compare, workers, started, ending>>

SkipResets(t) ==
    /\ skip[t].pc = "reset" /\ SkipGoes(t, "idle") /\ SendBoardReset(0)
    /\ UNCHANGED <<envVars, watchdog, auto, round, rx, poll, compare, workers, history>>

SkipStep(t) == SkipSaves(t) \/ SkipReleases(t) \/ SkipResets(t)

(* The comparison; one that meets an incomplete log discards the round.      *)
CompareGoes(pc) == compare' = IF pc = "idle" THEN RestingWorker ELSE [compare EXCEPT !.pc = pc]
StillCurrent(of) == auto.round = of /\ ~auto.skipping

Compares ==
    /\ compare.pc = "compare"
    /\ IF StillCurrent(compare.of) /\ round.log # LogOf(compare.of)
       THEN skip' = [skip EXCEPT !["compare"] = [pc |-> "save", of |-> compare.of]]
       ELSE skip' = skip
    /\ CompareGoes(IF StillCurrent(compare.of) /\ round.log = LogOf(compare.of)
                   THEN "release" ELSE "idle")
    /\ UNCHANGED <<envVars, sendVars, auto, round, rx, poll, workers, history>>

(* The cores went wrong, or the comparison could not be made.                *)
ComparesFail ==
    /\ compare.pc = "compare" /\ Spend("fault")
    /\ CompareGoes(IF StillCurrent(compare.of) THEN "fail" ELSE "idle")
    /\ UNCHANGED <<board, wire, vm, removed, sendVars, auto, round, rx, poll, skip, workers, history>>

CompareFails ==
    /\ compare.pc = "fail" /\ CompareGoes("idle") /\ Fail
    /\ UNCHANGED <<envVars, sendVars, round, rx, poll, skip, workers, started, concluded>>

CompareReleases ==
    /\ compare.pc = "release"
    /\ IF auto.round = compare.of THEN Release(auto.skipping) /\ CompareGoes("reset")
       ELSE CompareGoes("idle") /\ UNCHANGED <<auto, round, vm, concluded>>
    /\ UNCHANGED <<board, wire, removed, spent, sendVars, rx, poll, skip, workers, started, ending>>

CompareResets ==
    /\ compare.pc = "reset" /\ CompareGoes("idle") /\ SendBoardReset(0)
    /\ UNCHANGED <<envVars, watchdog, auto, round, rx, poll, skip, workers, history>>

CompareStep == Compares \/ CompareFails \/ CompareReleases \/ CompareResets

-----------------------------------------------------------------------------
(* The short-lived workers.                                                  *)
(* A sender's look at the board's state and its take of the lock are one step. *)
PreSends ==
    /\ workers.pre = "send"
    /\ IF svc.board = "PRECONFIG" /\ tx.by = "none"
       THEN /\ tx' = [by |-> "CHECK", of |-> 0, cancel |-> FALSE]
            /\ workers' = [workers EXCEPT !.pre = "sent"]
       ELSE workers' = [workers EXCEPT !.pre = "fail"] /\ tx' = tx
    /\ UNCHANGED <<envVars, svc, resets, watchdog, auto, round, rx, poll, compare, skip, history>>

PreSent ==
    /\ workers.pre = "sent" /\ workers' = [workers EXCEPT !.pre = "end"]
    /\ auto' = [auto EXCEPT !.preinit = FALSE]
    /\ UNCHANGED <<envVars, sendVars, round, rx, poll, compare, skip, history>>

PreFails ==
    /\ workers.pre = "fail" /\ workers' = [workers EXCEPT !.pre = "end"] /\ Fail
    /\ UNCHANGED <<envVars, sendVars, round, rx, poll, compare, skip, started, concluded>>

PreEnds ==
    /\ workers.pre = "end" /\ workers' = [workers EXCEPT !.pre = "idle"]
    /\ auto' = [auto EXCEPT !.inflight = FALSE]
    /\ UNCHANGED <<envVars, sendVars, round, rx, poll, compare, skip, history>>

(* Of several start workers one installs the Round and launches the VM job.  *)
Installs ==
    /\ workers.starters > 0
    /\ LET may == auto.enabled /\ ~auto.skipping /\ auto.round = 0 /\ started < MaxRounds
       IN  /\ workers' = [workers EXCEPT !.starters = @ - 1,
                                         !.launch = IF may THEN started + 1 ELSE @]
           /\ auto' = IF may THEN [auto EXCEPT !.round = started + 1, !.grant = FALSE] ELSE auto
           /\ round' = IF may THEN FreshRound(auto.grant) ELSE round
           /\ started' = IF may THEN started + 1 ELSE started
    /\ UNCHANGED <<envVars, sendVars, rx, poll, compare, skip, concluded, ending>>

Launches ==
    /\ workers.launch # 0 /\ workers' = [workers EXCEPT !.launch = 0]
    /\ vm' = IF auto.round = workers.launch THEN [vm EXCEPT !.at = "generating"] ELSE vm
    /\ UNCHANGED <<board, wire, removed, spent, sendVars, auto, round, rx, poll, compare, skip, history>>

LaunchFails ==
    /\ workers.launch # 0 /\ workers' = [workers EXCEPT !.launch = 0]
    /\ Spend("fault") /\ Fail
    /\ UNCHANGED <<board, wire, vm, removed, sendVars, round, rx, poll, compare, skip, started, concluded>>

(* The grant is used up when the transfer begins.                            *)
SenderBegins ==
    /\ workers.sender.pc = "begin"
    /\ IF svc.allowed /\ tx.by = "none"
       THEN /\ tx' = [by |-> "PROGRAM", of |-> workers.sender.of, cancel |-> FALSE]
            /\ svc' = [svc EXCEPT !.allowed = FALSE]
            /\ workers' = [workers EXCEPT !.sender = RestingWorker]
       ELSE /\ UNCHANGED <<tx, svc>>
            /\ workers' = [workers EXCEPT !.sender = IF auto.round = @.of
                               THEN [@ EXCEPT !.pc = "fail"] ELSE RestingWorker]
    /\ UNCHANGED <<envVars, resets, watchdog, auto, round, rx, poll, compare, skip, history>>

SenderFails ==
    /\ workers.sender.pc = "fail" /\ workers' = [workers EXCEPT !.sender = RestingWorker]
    /\ Fail
    /\ UNCHANGED <<envVars, sendVars, round, rx, poll, compare, skip, started, concluded>>

WorkerStep == \/ PreSends \/ PreSent \/ PreFails \/ PreEnds \/ Installs \/ Launches
              \/ SenderBegins \/ SenderFails

(* The bulk sender gives up the lock; a cancelled transfer may be complete.  *)
BulkEnds ==
    /\ tx.by # "none" /\ tx' = [tx EXCEPT !.by = "none", !.of = 0]
    /\ \E all \in IF tx.cancel THEN BOOLEAN ELSE {TRUE} :
          board' = IF all /\ tx.by = "CHECK" /\ board.at = "WAIT_CHECK"
                   THEN [board EXCEPT !.at = "CHECK"]
                   ELSE IF all /\ tx.by = "PROGRAM" /\ board.at = "WRITE"
                   THEN [board EXCEPT !.at = "EXEC", !.of = tx.of]
                   ELSE board
    /\ UNCHANGED <<wire, vm, removed, spent, svc, resets, watchdog, auto, round, threadVars, history>>

(* A reset worker has the lock: the command goes out, its watchdog begins.   *)
ResetGoesOut(arrives) ==
    /\ tx.by = "none" /\ resets # <<>>
    /\ resets' = Tail(resets)
    /\ watchdog' = [watchdog EXCEPT !.asleep = Head(resets)]
    /\ board' = IF arrives THEN [at |-> "RESET", of |-> 0, out |-> <<>>] ELSE board
    /\ UNCHANGED <<wire, vm, removed, svc, tx, auto, round, threadVars, history>>
ResetArrives == ResetGoesOut(TRUE) /\ spent' = spent
ResetLost == ResetGoesOut(FALSE) /\ Spend("reset")

(* Timing: the board answers a reset within the 8 s of the watchdog.         *)
Answering == board.at = "RESET" \/ \E i \in DOMAIN wire : wire[i].kind = "PREINIT"

WatchdogWakes ==
    /\ watchdog.asleep >= 0 /\ ~Answering
    /\ LET waiting == svc.board = "RESETTING"
           retry == waiting /\ watchdog.asleep < MaxRetries
       IN  /\ watchdog' = [asleep |-> -1,
                           calling |-> IF retry THEN watchdog.asleep + 1 ELSE watchdog.calling]
           /\ svc' = IF waiting /\ ~retry THEN [svc EXCEPT !.board = "RESET_TIMEOUT"] ELSE svc
    /\ UNCHANGED <<envVars, tx, resets, auto, round, threadVars, history>>

WatchdogCalls ==
    /\ watchdog.calling >= 0 /\ SendBoardReset(watchdog.calling)
    /\ watchdog' = [watchdog EXCEPT !.calling = -1]
    /\ UNCHANGED <<envVars, auto, round, threadVars, history>>

-----------------------------------------------------------------------------
(* Operator, board and VM.                                                   *)
OperatorStops ==
    /\ auto.enabled /\ Spend("fault") /\ Ended("operator")
    /\ round' = [round EXCEPT !.closed = TRUE]
    /\ UNCHANGED <<board, wire, vm, removed, sendVars, threadVars, started, concluded>>

BoardRests == UNCHANGED <<vm, removed, sendVars, auto, round, threadVars, history>>
Emits(frame) == Len(wire) < WireDepth /\ wire' = Append(wire, frame)

(* Timing: the board's own start takes seconds, so that a worker that was    *)
(* under way at the reset has come to its end.                               *)
Settled == /\ workers.pre = "idle" /\ workers.sender.pc = "idle" /\ workers.starters = 0
           /\ tx.by = "none" /\ resets = <<>> /\ watchdog.calling < 0

(* The log of round r: hart after hart, each data frame before its completion. *)
Dump(r) == [i \in 1 .. 2 * Cardinality(Harts) |->
              Frame(IF i % 2 = 1 THEN "DATA" ELSE "HART_DONE",
                    SetToSeq(Harts)[(i + 1) \div 2], r)]

BoardBoots ==
    /\ board.at = "RESET" /\ Settled /\ Emits(Status("PREINIT"))
    /\ board' = [board EXCEPT !.at = "WAIT_CHECK"]
BoardPasses ==
    /\ board.at = "CHECK" /\ Emits(Status("PASS"))
    /\ board' = [board EXCEPT !.at = "READY"]
BoardGrants ==
    /\ board.at = "READY" /\ Emits(Status("GRANT"))
    /\ board' = [board EXCEPT !.at = "WRITE"]
BoardRuns ==
    /\ board.at = "EXEC" /\ Emits(Status("DONE"))
    /\ board' = [board EXCEPT !.at = "DUMP", !.out = Dump(board.of)]
BoardDumps ==
    /\ board.at = "DUMP" /\ board.out # <<>> /\ Emits(Head(board.out))
    /\ board' = [board EXCEPT !.out = Tail(@)]
BoardFinishes ==
    /\ board.at = "DUMP" /\ board.out = <<>> /\ Emits(Status("EXE_END"))
    /\ board' = [board EXCEPT !.at = "END"]

BoardSpeaks ==
    /\ BoardBoots \/ BoardPasses \/ BoardGrants \/ BoardRuns \/ BoardDumps \/ BoardFinishes
    /\ spent' = spent /\ BoardRests

LogFrameLost ==
    /\ board.out # <<>> /\ Spend("frame") /\ BoardRests
    /\ board' = [board EXCEPT !.out = Tail(@)] /\ wire' = wire

BoardFails ==
    /\ board.at \notin {"RESET", "ERROR"} /\ Spend("fault") /\ BoardRests
    /\ Emits(Status("ERROR")) /\ board' = [at |-> "ERROR", of |-> 0, out |-> <<>>]

VmNext == [generating |-> "program", program |-> "spike", spike |-> "spike"]
(* Timing: a program takes seconds to make, a start worker gets to run.      *)
VmGoesOn ==
    /\ vm # NoJob /\ ~vm.failed /\ vm.at # "spike" /\ workers.starters = 0
    /\ vm' = [vm EXCEPT !.at = VmNext[@]]
    /\ UNCHANGED <<board, wire, removed, spent, sendVars, auto, round, threadVars, history>>
VmFails ==
    /\ vm # NoJob /\ ~vm.failed /\ vm.at # "spike" /\ Spend("vm")
    /\ vm' = [vm EXCEPT !.failed = TRUE]
    /\ UNCHANGED <<board, wire, removed, sendVars, auto, round, threadVars, history>>

Next ==
    \/ RxStep \/ PollStep \/ CompareStep \/ ComparesFail
    \/ \E t \in Threads : SkipStep(t) \/ SkipSaveFails(t)
    \/ WorkerStep \/ LaunchFails \/ BulkEnds \/ ResetArrives \/ ResetLost
    \/ WatchdogWakes \/ WatchdogCalls
    \/ OperatorStops \/ BoardSpeaks \/ LogFrameLost \/ BoardFails \/ VmGoesOn \/ VmFails

Spec == Init /\ [][Next]_vars

(* Every thread runs, the VM finishes its job and the board what it began.   *)
FairSpec ==
    /\ Spec
    /\ WF_vars(RxStep) /\ WF_vars(PollStep) /\ WF_vars(CompareStep)
    /\ \A t \in Threads : WF_vars(SkipStep(t))
    /\ WF_vars(WorkerStep) /\ WF_vars(BulkEnds) /\ WF_vars(ResetArrives)
    /\ WF_vars(WatchdogWakes) /\ WF_vars(WatchdogCalls)
    /\ WF_vars(BoardSpeaks) /\ WF_vars(VmGoesOn)

-----------------------------------------------------------------------------
(* A comparison only ever reads the whole log of the round it is for: losses *)
(* are met before, frames of another round are not in it, and a thread that  *)
(* discards the round meanwhile does not touch it (on_info_stream_loss,      *)
(* _maybe_compare, _skip_vm_failed_round).                                   *)
ComparesOwnLog == compare.pc = "compare" => round.log = LogOf(compare.of)

(* The session ends in FAILED for a failure of board, cores, disk or launch, *)
(* never because a lost frame, a lost reset or a failed VM job left its      *)
(* threads out of step: no check is sent to a board being reset, and no      *)
(* program without the grant of its own epoch (recovering_skipped_round).    *)
(* One case is left: a VM job that failed before any frame came has its      *)
(* capture file removed, and a frame is then lost, the report of which needs *)
(* that file (826-830, 1205).                                                *)
FailsForCause ==
    /\ ending = "failed" => spent["fault"] > 0
    /\ ending = "missing" => spent["vm"] > 0 /\ spent["frame"] > 0

(* What the code does not recover from: the reset after a discard is lost,   *)
(* and a status frame of the old epoch has overwritten RESETTING, so that    *)
(* the watchdog takes the board for recovered and retries nothing.           *)
Stalled ==
    /\ auto.skipping /\ spent["reset"] > 0 /\ board.at \notin {"RESET", "WAIT_CHECK"}
    /\ wire = <<>> /\ resets = <<>> /\ watchdog = [asleep |-> -1, calling |-> -1]
    /\ \A t \in Threads : skip[t].pc # "reset"

(* The watchdog gives up when the reset and all its retries are lost.        *)
GivenUp == svc.board = "RESET_TIMEOUT" /\ spent["reset"] > MaxRetries

(* Each round is concluded, compared or discarded, and the next one begun,   *)
(* until the session ends: no grant, preconfig or completion is missed by    *)
(* threads that look for it too early or too late (the strict barrier).      *)
RoundsGoOn ==
    \A n \in 0..MaxRounds - 1 :
        (auto.enabled /\ concluded = n) ~> (concluded > n \/ ~auto.enabled \/ Stalled \/ GivenUp)
=============================================================================
