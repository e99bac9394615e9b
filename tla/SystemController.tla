-------------------------- MODULE SystemController --------------------------
(* control/eh2_system_controller.sv: the six-state controller of one         *)
(* evaluation session, clocked at 100 MHz.                                   *)
(*                                                                           *)
(* All its registers are the fields of one record, ctl.  An edge first makes *)
(* the assignments the code makes before its case statement (Latched), then  *)
(* exactly one phase action overrides some of them, as the later nonblocking *)
(* assignment of a register wins.  Whatever is read is the value from before *)
(* the edge.  `in` is what the controller samples at the edge.               *)
EXTENDS Integers, FiniteSets, HostCodes

CONSTANTS
    ExecuteGuard,      \* EXECUTE_GUARD_CYCLES
    IdleGuard,         \* AXI_IDLE_GUARD_CYCLES
    CountGuard,        \* TX_COUNT_SYNC_GUARD_CYCLES
    DrainTimeout,      \* TX_DRAIN_TIMEOUT_CYCLES
    ProgramTimeout,    \* PROGRAM_TIMEOUT_CYCLES
    Counts             \* modulus of the MAC frame counters, 2^32

ASSUME ControllerAssumption ==
    /\ ExecuteGuard \in Nat \ {0} /\ IdleGuard \in Nat \ {0}
    /\ CountGuard \in Nat \ {0} /\ DrainTimeout \in Nat \ {0}
    /\ ProgramTimeout \in Nat \ {0} /\ Counts \in Nat \ {0}

VARIABLE ctl

States == {"PRECONFIG", "READY", "PROGRAM_WRITE", "EXECUTE", "END", "ERROR"}
Harts == {0, 1}

(* Of several pending statuses of the harts, the one that leaves first.       *)
Priority == [HART0_START |-> 0, HART1_START |-> 1, HART0_DONE |-> 2, HART1_DONE |-> 3]
Raised(in) ==
    {s \in HartStatuses :
        \/ s = "HART0_START" /\ 0 \in in.started
        \/ s = "HART1_START" /\ 1 \in in.started
        \/ s = "HART0_DONE" /\ 0 \in in.stopped
        \/ s = "HART1_DONE" /\ 1 \in in.stopped}

Pulses == {"atgStart", "checkStart", "zeroStart", "sessionClear", "globalReset",
           "dumpStart"}
NoCount == [frames |-> 0, total |-> 0]

InitialRegisters ==
    [state |-> "PRECONFIG", phase |-> 0,
     expected |-> NoCode, waiting |-> FALSE,
     startSeen |-> FALSE,
     preEndSeen |-> FALSE, preEnd |-> NoCount,
     progEndSeen |-> FALSE, progEnd |-> NoCount,
     timing |-> FALSE, timer |-> 0, counter |-> 0,
     fail |-> {}, captured |-> NoCode, errorSent |-> FALSE,
     pending |-> {}, queued |-> {}, sent |-> {},
     target |-> 0, targetValid |-> FALSE, drainWait |-> 0, retransmit |-> FALSE,
     push |-> NoCode, pulses |-> {},
     execute |-> FALSE, preferLog |-> FALSE, led0 |-> FALSE]

(* --------------------------- memory ownership ---------------------------- *)

Checking == ctl.phase \in {3, 4, 5}
(* Slip: the program memory is given up as soon as the session ends.         *)
Ddr0OwnerUntilEnd ==
    CASE ctl.state = "PRECONFIG" -> IF Checking THEN "CHECKER" ELSE "PROGRAM"
      [] ctl.state = "READY" -> "ZERO"
      [] ctl.state = "PROGRAM_WRITE" -> "PROGRAM"
      [] ctl.state = "EXECUTE" -> "EH2"
      [] OTHER -> "IDLE"
Ddr0Owner ==
    CASE ctl.state = "PRECONFIG" -> IF Checking THEN "CHECKER" ELSE "PROGRAM"
      [] ctl.state = "READY" -> "ZERO"
      [] ctl.state = "PROGRAM_WRITE" -> "PROGRAM"
      [] ctl.state \in {"EXECUTE", "END"} -> "EH2"
      [] OTHER -> "IDLE"
Ddr1Owner ==
    CASE ctl.state = "PRECONFIG" -> IF Checking THEN "CHECKER" ELSE "ATG"
      [] ctl.state = "EXECUTE" -> "INFO_WRITE"
      [] ctl.state = "END" -> "INFO_READ"
      [] OTHER -> "IDLE"

(* ----------------------- before the case statement ----------------------- *)

InfoDone(in) == ctl.waiting /\ in.frameDone /\ in.sentCode = ctl.expected

(* The hart tracker: at most one pending status leaves per edge.             *)
Tracking(in) == ctl.state = "EXECUTE" /\ ~in.fatal
Chosen(in) ==
    IF in.full THEN {}
    ELSE {s \in ctl.pending : \A t \in ctl.pending : Priority[s] <= Priority[t]}
Tracked(in) ==
    CASE ctl.state # "EXECUTE" ->
            [pending |-> {}, queued |-> {}, sent |-> {}, push |-> NoCode]
      [] Tracking(in) ->
            [pending |-> (ctl.pending \cup (Raised(in) \ ctl.queued)) \ Chosen(in),
             queued |-> ctl.queued \cup Chosen(in),
             sent |-> IF in.frameDone
                      THEN ctl.sent \cup ({in.sentCode} \cap HartStatuses)
                      ELSE ctl.sent,
             push |-> IF Chosen(in) = {} THEN NoCode
                      ELSE CHOOSE s \in HartStatuses : s \in Chosen(in)]
      [] OTHER ->
            [pending |-> ctl.pending, queued |-> ctl.queued, sent |-> ctl.sent,
             push |-> NoCode]

Count(in) == [frames |-> in.frameCount, total |-> in.endTotal]
Latched(in) ==
    LET preEnds == in.programEnd /\ ctl.state = "PRECONFIG"
        progEnds == in.programEnd /\ ctl.state = "PROGRAM_WRITE"
    IN  [ctl EXCEPT
           !.pulses = {},
           !.push = Tracked(in).push,
           !.pending = Tracked(in).pending,
           !.queued = Tracked(in).queued,
           !.sent = Tracked(in).sent,
           !.retransmit = @ \/ (ctl.state = "END" /\ in.retransmit),
           !.startSeen =
               @ \/ (in.firstWrite /\ ctl.state \in {"PRECONFIG", "PROGRAM_WRITE"}),
           !.preEndSeen = @ \/ preEnds,
           !.preEnd = IF preEnds THEN Count(in) ELSE @,
           !.progEndSeen = @ \/ progEnds,
           !.progEnd = IF progEnds THEN Count(in) ELSE @,
           !.waiting = @ /\ ~InfoDone(in)]

(* The counts a completion is judged by: the end frame's own if it arrives   *)
(* at this very edge.                                                        *)
PreTarget(in) == IF in.programEnd THEN Count(in) ELSE ctl.preEnd
ProgTarget(in) == IF in.programEnd THEN Count(in) ELSE ctl.progEnd

(* queue_info and the move that goes with it: nothing happens while the      *)
(* information FIFO is full.                                                 *)
Queue(r, code) == [r EXCEPT !.push = code, !.expected = code, !.waiting = TRUE]
QueueThen(in, r, code, phase) ==
    IF in.full THEN r ELSE [Queue(r, code) EXCEPT !.phase = phase]
Fail(r, code) == [r EXCEPT !.captured = code, !.state = "ERROR", !.phase = 0]
Pulse(r, p) == [r EXCEPT !.pulses = @ \cup {p}]
GoTo(r, phase) == [r EXCEPT !.phase = phase]

Normal(in, state, phase) ==
    /\ ~in.reset /\ ~(in.fatal /\ ctl.state # "ERROR")
    /\ ctl.state = state /\ ctl.phase = phase
(* Every state but EXECUTE keeps the cores in reset.                         *)
Held(in) == [Latched(in) EXCEPT !.execute = FALSE, !.preferLog = FALSE]
Stay(r) == ctl' = r
(* A phase that only queues a code, or only waits for it to have left.       *)
Report(in, r, code, phase) == ctl' = QueueThen(in, r, code, phase)
Await(in, r, phase) == ctl' = IF InfoDone(in) THEN GoTo(r, phase) ELSE r

(* The operator reset is accepted in every state, before anything else; a    *)
(* hardware failure comes before normal progress.                            *)
HostReset(in) ==
    /\ in.reset
    /\ ctl' = Pulse([Held(in) EXCEPT !.timing = FALSE, !.retransmit = FALSE],
                    "globalReset")

(* Slip: a later failure overtakes the one in hand.                          *)
LatestError(in) ==
    /\ ~in.reset /\ in.fatal
    /\ ctl' = [Fail(Held(in), in.fatalCode) EXCEPT
                 !.waiting = FALSE, !.errorSent = FALSE, !.led0 = TRUE]
FatalError(in) ==
    /\ ~in.reset /\ in.fatal /\ ctl.state # "ERROR"
    /\ ctl' = [Fail(Held(in), in.fatalCode) EXCEPT
                 !.waiting = FALSE, !.errorSent = FALSE, !.led0 = TRUE]

(* ------------------------------- PRECONFIG ------------------------------- *)

PreInit(in) ==
    /\ Normal(in, "PRECONFIG", 0)
    /\ IF in.initReady THEN Report(in, Held(in), "PREINIT_DONE", 1)
       ELSE Stay(Held(in))

PreAtg(in) ==
    /\ Normal(in, "PRECONFIG", 1)
    /\ ctl' = IF InfoDone(in) THEN Pulse(GoTo(Held(in), 2), "atgStart") ELSE Held(in)

PreStarted(in) ==
    /\ Normal(in, "PRECONFIG", 2)
    /\ IF ctl.startSeen THEN Report(in, Held(in), "PROGRAM_START", 6)
       ELSE Stay(Held(in))

PreStartSent(in) == Normal(in, "PRECONFIG", 6) /\ Await(in, Held(in), 7)

PreReceived(in) ==
    /\ Normal(in, "PRECONFIG", 7)
    /\ IF ctl.preEndSeen \/ in.programEnd
       THEN Report(in, Held(in), "RECEIVE_DONE", 8) ELSE Stay(Held(in))

PreReceiveSent(in) == Normal(in, "PRECONFIG", 8) /\ Await(in, Held(in), 9)

(* Slip: the frame's arrival is taken for its write.                         *)
PreCountArrived(in) ==
    LET t == PreTarget(in)
    IN  /\ Normal(in, "PRECONFIG", 9)
        /\ ctl' =
             CASE t.total # 1 \/ t.frames # t.total \/ in.dmaDoneCount > t.total ->
                    Fail(Held(in), "ERR_PROGRAM_COUNT")
               [] t.total = 1 /\ t.frames = t.total /\ in.atgDone ->
                    IF in.atgError THEN Fail(Held(in), "ERR_DDR_CHECK")
                    ELSE Pulse(GoTo(Held(in), 3), "checkStart")
               [] OTHER -> Held(in)

(* Exactly one frame, declared as one, written once, and the data pattern in *)
(* the other memory complete.                                                *)
PreCount(in) ==
    LET t == PreTarget(in)
    IN  /\ Normal(in, "PRECONFIG", 9)
        /\ ctl' =
             CASE t.total # 1 \/ t.frames # t.total \/ in.dmaDoneCount > t.total ->
                    Fail(Held(in), "ERR_PROGRAM_COUNT")
               [] t.total = 1 /\ t.frames = t.total /\ in.dmaDoneCount = t.total
                    /\ ~in.dmaBusy /\ in.atgDone ->
                    IF in.atgError THEN Fail(Held(in), "ERR_DDR_CHECK")
                    ELSE Pulse(GoTo(Held(in), 3), "checkStart")
               [] OTHER -> Held(in)

(* Slip: the data memory is judged by the other checker's result.            *)
PreCheckCrossed(in) ==
    /\ Normal(in, "PRECONFIG", 3)
    /\ ctl' = IF in.instrDone /\ in.dataDone
              THEN [Held(in) EXCEPT !.phase = 4,
                      !.fail = {f \in {"INSTR", "DATA"} : in.instrFail}]
              ELSE Held(in)

PreCheck(in) ==
    /\ Normal(in, "PRECONFIG", 3)
    /\ ctl' = IF in.instrDone /\ in.dataDone
              THEN [Held(in) EXCEPT !.phase = 4,
                      !.fail = {f \in {"INSTR", "DATA"} :
                                  \/ f = "INSTR" /\ in.instrFail
                                  \/ f = "DATA" /\ in.dataFail}]
              ELSE Held(in)

Verdict == IF "DATA" \in ctl.fail THEN "DATA_FAIL"
           ELSE IF "INSTR" \in ctl.fail THEN "INSTR_FAIL" ELSE "CHECK_PASS"
PreVerdict(in) == Normal(in, "PRECONFIG", 4) /\ Report(in, Held(in), Verdict, 5)

(* Both memories can fail: the data failure is reported first, then the      *)
(* instruction failure, and only then the error state.                       *)
PreVerdictSent(in) ==
    /\ Normal(in, "PRECONFIG", 5)
    /\ ctl' =
         CASE ~InfoDone(in) -> Held(in)
           [] InfoDone(in) /\ ctl.fail = {} ->
                [Held(in) EXCEPT !.state = "READY", !.phase = 0,
                                 !.preEndSeen = FALSE, !.startSeen = FALSE]
           [] InfoDone(in) /\ ctl.fail = {"INSTR", "DATA"} ->
                [Held(in) EXCEPT !.fail = {"INSTR"}, !.phase = 4]
           [] OTHER ->
                [Fail(Held(in), Verdict) EXCEPT !.fail = {}, !.errorSent = TRUE]

(* --------------------------------- READY --------------------------------- *)

Dark(in) == [Held(in) EXCEPT !.led0 = FALSE]

ReadyZero(in) ==
    /\ Normal(in, "READY", 0)
    /\ ctl' = Pulse(GoTo(Dark(in), 1), "zeroStart")

ReadyZeroed(in) ==
    /\ Normal(in, "READY", 1)
    /\ ctl' = IF ~in.zeroDone THEN Dark(in)
              ELSE IF in.zeroError THEN Fail(Dark(in), "ERR_DDR_ZERO")
              ELSE Pulse(GoTo(Dark(in), 2), "sessionClear")

ReadyCleared(in) == Normal(in, "READY", 2) /\ ctl' = GoTo(Dark(in), 3)
ReadyReport(in) == Normal(in, "READY", 3) /\ Report(in, Dark(in), "READY", 4)

ReadySent(in) ==
    /\ Normal(in, "READY", 4)
    /\ ctl' = IF InfoDone(in)
              THEN [Dark(in) EXCEPT !.state = "PROGRAM_WRITE", !.phase = 0,
                      !.startSeen = FALSE, !.progEndSeen = FALSE,
                      !.progEnd = NoCount, !.timer = 0, !.timing = FALSE]
              ELSE Dark(in)

(* ----------------------------- PROGRAM_WRITE ----------------------------- *)

(* The watchdog runs from the first write to the end frame, whatever the     *)
(* phase; its verdict is assigned before the phase's own assignments.        *)
Expires(in) == /\ ctl.timing /\ ~ctl.progEndSeen /\ ~in.programEnd
               /\ ctl.timer >= ProgramTimeout - 1
(* Slip: the watchdog is never armed.                                        *)
Unwatched(in) == Held(in)
Watched(in) ==
    IF in.firstWrite /\ ~ctl.timing
    THEN [Held(in) EXCEPT !.timing = TRUE, !.timer = 1]
    ELSE IF Expires(in)
    THEN [Fail(Held(in), "ERR_PROGRAM_OVERTIME") EXCEPT !.timing = FALSE]
    ELSE IF ctl.timing /\ ~ctl.progEndSeen /\ ~in.programEnd
    THEN [Held(in) EXCEPT !.timer = @ + 1]
    ELSE Held(in)

ProgStarted(in) ==
    /\ Normal(in, "PROGRAM_WRITE", 0)
    /\ IF ctl.startSeen THEN Report(in, Watched(in), "PROGRAM_START", 2)
       ELSE Stay(Watched(in))

ProgStartSent(in) == Normal(in, "PROGRAM_WRITE", 2) /\ Await(in, Watched(in), 3)

ProgReceived(in) ==
    /\ Normal(in, "PROGRAM_WRITE", 3)
    /\ IF ctl.progEndSeen \/ in.programEnd
       THEN Report(in, Watched(in), "RECEIVE_DONE", 4) ELSE Stay(Watched(in))

ProgReceiveSent(in) == Normal(in, "PROGRAM_WRITE", 4) /\ Await(in, Watched(in), 5)

(* Slip: the completed writes are compared with the accepted frames only.    *)
ProgCountAccepted(in) ==
    /\ Normal(in, "PROGRAM_WRITE", 5)
    /\ ctl' = IF in.dmaDoneCount = ProgTarget(in).frames /\ ~in.dmaBusy
              THEN QueueThen(in, [Watched(in) EXCEPT !.timing = FALSE],
                             "PROGRAM_DONE", 1)
              ELSE Watched(in)

(* The declared count, the accepted frames and the completed writes agree.   *)
ProgCount(in) ==
    LET t == ProgTarget(in)
    IN  /\ Normal(in, "PROGRAM_WRITE", 5)
        /\ ctl' =
             CASE t.total = 0 \/ t.frames # t.total \/ in.dmaDoneCount > t.total ->
                    Fail(Watched(in), "ERR_PROGRAM_COUNT")
               [] t.total # 0 /\ t.frames = t.total /\ in.dmaDoneCount = t.total
                    /\ ~in.dmaBusy ->
                    QueueThen(in, [Watched(in) EXCEPT !.timing = FALSE],
                              "PROGRAM_DONE", 1)
               [] OTHER -> Watched(in)

ProgDoneSent(in) ==
    /\ Normal(in, "PROGRAM_WRITE", 1)
    /\ ctl' = IF InfoDone(in)
              THEN [Watched(in) EXCEPT !.state = "EXECUTE", !.phase = 0,
                                       !.counter = 0, !.preferLog = TRUE]
              ELSE Watched(in)

(* -------------------------------- EXECUTE -------------------------------- *)

Running(in) == [Latched(in) EXCEPT !.preferLog = TRUE, !.execute = TRUE]

ExecGuard(in) ==
    /\ Normal(in, "EXECUTE", 0)
    /\ ctl' = IF ctl.counter >= ExecuteGuard - 1
              THEN [Running(in) EXCEPT !.counter = 0, !.phase = 1]
              ELSE [Latched(in) EXCEPT !.preferLog = TRUE, !.counter = @ + 1]

ExecInit(in) ==
    /\ Normal(in, "EXECUTE", 1)
    /\ ctl' = IF in.initError
              THEN [Fail(Running(in), "ERR_EH2_INIT") EXCEPT
                      !.preferLog = FALSE, !.execute = FALSE]
              ELSE IF in.initDone THEN GoTo(Running(in), 2) ELSE Running(in)

(* Slip: the bus is not waited for.                                          *)
FinishedEarly(in) == /\ in.stopped = Harts /\ in.writeDone
                     /\ ctl.sent = HartStatuses
(* The cores are kept released until every record is in memory, every hart   *)
(* status has left and the memory bus has been idle for the whole guard.     *)
Finished(in) == /\ in.stopped = Harts /\ in.writeDone
                /\ ctl.sent = HartStatuses /\ in.axiIdle
ExecFinish(in) ==
    /\ Normal(in, "EXECUTE", 2)
    /\ ctl' = IF ~Finished(in) THEN [Running(in) EXCEPT !.counter = 0]
              ELSE IF ctl.counter >= IdleGuard - 1
              THEN [Running(in) EXCEPT !.state = "END", !.phase = 0,
                                       !.preferLog = FALSE, !.counter = 0]
              ELSE [Running(in) EXCEPT !.counter = @ + 1]

(* ---------------------------------- END ---------------------------------- *)

EndReport(in) == Normal(in, "END", 0) /\ Report(in, Held(in), "EH2_DONE", 1)

EndDump(in) ==
    /\ Normal(in, "END", 1)
    /\ ctl' = IF InfoDone(in) THEN Pulse(GoTo(Held(in), 4), "dumpStart") ELSE Held(in)

EndDumped(in) ==
    /\ Normal(in, "END", 4)
    /\ ctl' = IF in.dumpDone THEN GoTo(Held(in), 2) ELSE Held(in)

EndExeEnd(in) == Normal(in, "END", 2) /\ Report(in, Held(in), "EXE_END", 3)

EndExeEndSent(in) ==
    /\ Normal(in, "END", 3)
    /\ ctl' = IF InfoDone(in)
              THEN [Held(in) EXCEPT !.counter = 0, !.targetValid = FALSE,
                                    !.drainWait = 0, !.phase = 5]
              ELSE Held(in)

(* Slip: the counters are compared as plain numbers.                         *)
ReachedPlain(completed, goal) == completed >= goal
(* The counters wrap: the completion has reached the target when it is less   *)
(* than half the range ahead of it.                                           *)
Reached(completed, goal) == (completed - goal) % Counts < Counts \div 2

(* Wait for the host.  A replay first takes a settled snapshot of the frames *)
(* submitted to the MAC, then waits until that many have physically left.    *)
EndHold(in) ==
    LET drained == ctl.targetValid /\ Reached(in.completed, ctl.target)
    IN  /\ Normal(in, "END", 5)
        /\ ctl' =
             CASE ~ctl.retransmit \/ ctl.waiting -> Held(in)
               [] ctl.retransmit /\ ~ctl.waiting /\ ~ctl.targetValid ->
                    IF ctl.counter >= CountGuard - 1
                    THEN [Held(in) EXCEPT !.target = in.submitted, !.drainWait = 0,
                                          !.targetValid = TRUE, !.counter = 0]
                    ELSE [Held(in) EXCEPT !.counter = @ + 1]
               [] ctl.retransmit /\ ~ctl.waiting /\ drained ->
                    IF in.full THEN [Held(in) EXCEPT !.targetValid = FALSE]
                    ELSE [Queue(Held(in), "RETRANSMIT_BEGIN") EXCEPT
                            !.targetValid = FALSE, !.retransmit = FALSE, !.phase = 6]
               [] OTHER ->
                    IF ctl.drainWait >= DrainTimeout - 1
                    THEN [Fail(Held(in), "ERR_TXMAC_STREAM") EXCEPT
                            !.targetValid = FALSE]
                    ELSE [Held(in) EXCEPT !.drainWait = @ + 1]

(* Slip: the announced replay is not started.                                *)
EndReplayOnlyAnnounced(in) ==
    /\ Normal(in, "END", 6)
    /\ ctl' = IF InfoDone(in) THEN GoTo(Held(in), 7) ELSE Held(in)

EndReplay(in) ==
    /\ Normal(in, "END", 6)
    /\ ctl' = IF InfoDone(in) THEN Pulse(GoTo(Held(in), 7), "dumpStart") ELSE Held(in)

(* Slip: the completion of the previous dump is taken for the new one's.     *)
EndReplayTrusting(in) == Normal(in, "END", 7) /\ ctl' = GoTo(Held(in), 8)

(* The completion level is still high from the previous dump: it must first  *)
(* be seen low.                                                              *)
EndReplayBegun(in) ==
    /\ Normal(in, "END", 7)
    /\ ctl' = IF ~in.dumpDone THEN GoTo(Held(in), 8) ELSE Held(in)

EndReplayed(in) ==
    /\ Normal(in, "END", 8)
    /\ ctl' = IF in.dumpDone THEN GoTo(Held(in), 5) ELSE Held(in)

(* --------------------------------- ERROR --------------------------------- *)

Lit(in) == [Held(in) EXCEPT !.led0 = TRUE]

(* The code is sent once; then everything is kept for the host.              *)
ErrorStep(in) ==
    /\ ~in.reset /\ ctl.state = "ERROR"
    /\ ctl' =
         CASE ~ctl.errorSent /\ ctl.phase = 0 ->
                QueueThen(in, Lit(in), ctl.captured, 1)
           [] ~ctl.errorSent /\ ctl.phase = 1 /\ InfoDone(in) ->
                [Lit(in) EXCEPT !.errorSent = TRUE, !.timing = FALSE]
           [] OTHER -> Lit(in)

(* The phases some path sets; in any other the code's default branch would   *)
(* report ERR_ILLEGAL_STATE, and here nothing is enabled.                     *)
LegalPhase ==
    CASE ctl.state = "PRECONFIG" -> ctl.phase \in 0 .. 9
      [] ctl.state = "READY" -> ctl.phase \in 0 .. 4
      [] ctl.state = "PROGRAM_WRITE" -> ctl.phase \in 0 .. 5
      [] ctl.state = "EXECUTE" -> ctl.phase \in 0 .. 2
      [] ctl.state = "END" -> ctl.phase \in 0 .. 8
      [] OTHER -> ctl.phase \in 0 .. 3

ControllerStep(in) ==
    \/ HostReset(in) \/ FatalError(in)
    \/ PreInit(in) \/ PreAtg(in) \/ PreStarted(in) \/ PreStartSent(in)
    \/ PreReceived(in) \/ PreReceiveSent(in) \/ PreCount(in) \/ PreCheck(in)
    \/ PreVerdict(in) \/ PreVerdictSent(in)
    \/ ReadyZero(in) \/ ReadyZeroed(in) \/ ReadyCleared(in) \/ ReadyReport(in)
    \/ ReadySent(in)
    \/ ProgStarted(in) \/ ProgStartSent(in) \/ ProgReceived(in)
    \/ ProgReceiveSent(in) \/ ProgCount(in) \/ ProgDoneSent(in)
    \/ ExecGuard(in) \/ ExecInit(in) \/ ExecFinish(in)
    \/ EndReport(in) \/ EndDump(in) \/ EndDumped(in) \/ EndExeEnd(in)
    \/ EndExeEndSent(in) \/ EndHold(in) \/ EndReplay(in) \/ EndReplayBegun(in)
    \/ EndReplayed(in) \/ ErrorStep(in)
=============================================================================
