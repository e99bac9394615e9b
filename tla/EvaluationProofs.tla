-------------------------- MODULE EvaluationProofs --------------------------
(* Proofs about the evaluation session for every size of the program, of the *)
(* log and of the MAC, every guard time and every subset of the failures.    *)
EXTENDS ControllerMoves, TLAPS

DumpFields == DOMAIN DumpInitial

(* What CoresOwnMemory needs to be inductive: the cores are out of reset only*)
(* in EXECUTE and at the entry to END, and while a dump is asked for or runs *)
(* they are back in reset for good.                                          *)
ExecuteInv ==
    /\ DOMAIN ctl = Fields /\ DOMAIN dump = DumpFields
    /\ ctl.execute => ctl.state \in {"EXECUTE", "END"}
    /\ Dumping => ctl.state \in {"END", "ERROR"} /\ ~ctl.execute

---------------------------------------------------------------------------

(* The fields of the controller and of the dump the proofs speak of exist.   *)
LEMMA FieldNames ==
    /\ {"state", "phase", "execute", "pulses", "captured", "preferLog", "push",
        "pending", "queued", "sent", "retransmit", "startSeen", "preEndSeen",
        "preEnd", "progEndSeen", "progEnd", "waiting"} \subseteq Fields
    /\ {"starting", "running"} \subseteq DumpFields
BY DEF Fields, InitialRegisters, DumpFields, DumpInitial

(* The assignments before the case statement leave state, phase and the code *)
(* alone and clear the pulses.                                               *)
LEMMA LatchedKeeps ==
    ASSUME NEW in, DOMAIN ctl = Fields
    PROVE  /\ DOMAIN Latched(in) = Fields
           /\ Latched(in).state = ctl.state
           /\ Latched(in).phase = ctl.phase
           /\ Latched(in).execute = ctl.execute
           /\ Latched(in).captured = ctl.captured
           /\ Latched(in).pulses = {}
BY FieldNames DEF Latched

(* Held also puts the cores in reset (eh2_execute_o low by default).         *)
LEMMA HeldKeeps ==
    ASSUME NEW in, DOMAIN ctl = Fields
    PROVE  /\ DOMAIN Held(in) = Fields
           /\ Held(in).state = ctl.state
           /\ Held(in).phase = ctl.phase
           /\ Held(in).execute = FALSE
           /\ Held(in).captured = ctl.captured
           /\ Held(in).pulses = {}
BY FieldNames, LatchedKeeps DEF Held

(* Queueing a message (queue_info) moves the phase, never the state.         *)
LEMMA QueueThenKeeps ==
    ASSUME NEW in, NEW r, NEW code, NEW phase, DOMAIN r = Fields
    PROVE  /\ DOMAIN QueueThen(in, r, code, phase) = Fields
           /\ QueueThen(in, r, code, phase).state = r.state
           /\ QueueThen(in, r, code, phase).execute = r.execute
           /\ QueueThen(in, r, code, phase).captured = r.captured
           /\ QueueThen(in, r, code, phase).pulses = r.pulses
BY FieldNames DEF QueueThen, Queue

(* Every error exit goes to ERROR and leaves the rest of the outputs.        *)
LEMMA FailKeeps ==
    ASSUME NEW r, NEW code, DOMAIN r = Fields
    PROVE  /\ DOMAIN Fail(r, code) = Fields
           /\ Fail(r, code).state = "ERROR"
           /\ Fail(r, code).execute = r.execute
           /\ Fail(r, code).pulses = r.pulses
BY FieldNames DEF Fail

(* Going to a phase changes only the phase.                                  *)
LEMMA GoToKeeps ==
    ASSUME NEW r, NEW phase, DOMAIN r = Fields
    PROVE  /\ DOMAIN GoTo(r, phase) = Fields
           /\ GoTo(r, phase).state = r.state
           /\ GoTo(r, phase).execute = r.execute
           /\ GoTo(r, phase).captured = r.captured
           /\ GoTo(r, phase).pulses = r.pulses
BY FieldNames DEF GoTo

(* Raising a pulse changes only the set of pulses.                           *)
LEMMA PulseKeeps ==
    ASSUME NEW r, NEW p, DOMAIN r = Fields
    PROVE  /\ DOMAIN Pulse(r, p) = Fields
           /\ Pulse(r, p).state = r.state
           /\ Pulse(r, p).execute = r.execute
           /\ Pulse(r, p).captured = r.captured
           /\ Pulse(r, p).pulses = r.pulses \cup {p}
BY FieldNames DEF Pulse

(* Under the 20 s watchdog the cores stay in reset and no pulse is raised.   *)
LEMMA WatchedKeeps ==
    ASSUME NEW in, DOMAIN ctl = Fields
    PROVE  /\ DOMAIN Watched(in) = Fields
           /\ Watched(in).execute = FALSE
           /\ Watched(in).pulses = {}
<1> DEFINE held == Held(in)
           late == Fail(Held(in), "ERR_PROGRAM_OVERTIME")
<1>h. DOMAIN held = Fields /\ held.execute = FALSE /\ held.pulses = {}
  BY HeldKeeps
<1>l. DOMAIN late = Fields /\ late.execute = FALSE /\ late.pulses = {}
  <2> HIDE DEF held
  <2>1. late = Fail(held, "ERR_PROGRAM_OVERTIME")
    BY DEF held
  <2> QED
    BY <1>h, <2>1, FailKeeps
<1>2. \/ Watched(in) = [held EXCEPT !.timing = TRUE, !.timer = 1]
      \/ Watched(in) = [late EXCEPT !.timing = FALSE]
      \/ Watched(in) = [held EXCEPT !.timer = @ + 1]
      \/ Watched(in) = held
  BY Zenon DEF Watched
<1> HIDE DEF held, late
<1> QED
  BY <1>h, <1>l, <1>2, FieldNames

(* What a step of the controller leaves behind, by the state it starts from. *)
InReset == DOMAIN ctl' = Fields /\ ctl'.execute = FALSE
NoDump == "dumpStart" \notin ctl'.pulses

(* In PRECONFIG the cores stay in reset and no dump is asked for.            *)
LEMMA PreconfigKeepsReset ==
    ASSUME NEW in, DOMAIN ctl = Fields,
           \/ PreInit(in) \/ PreAtg(in) \/ PreStarted(in) \/ PreStartSent(in)
           \/ PreReceived(in) \/ PreReceiveSent(in) \/ PreCount(in)
           \/ PreCheck(in) \/ PreVerdict(in) \/ PreVerdictSent(in)
    PROVE  InReset /\ NoDump /\ ctl.state = "PRECONFIG"
<1>h. DOMAIN Held(in) = Fields /\ Held(in).execute = FALSE /\ Held(in).pulses = {}
  BY HeldKeeps
<1> USE <1>h, FieldNames, QueueThenKeeps, FailKeeps, GoToKeeps, PulseKeeps
    DEF InReset, NoDump, Normal, Report, Await, Stay
<1>1. CASE PreInit(in)
  BY <1>1 DEF PreInit
<1>2. CASE PreAtg(in)
  BY <1>2 DEF PreAtg
<1>3. CASE PreStarted(in)
  BY <1>3 DEF PreStarted
<1>4. CASE PreStartSent(in)
  BY <1>4 DEF PreStartSent
<1>5. CASE PreReceived(in)
  BY <1>5 DEF PreReceived
<1>6. CASE PreReceiveSent(in)
  BY <1>6 DEF PreReceiveSent
<1>7. CASE PreCount(in)
  BY <1>7 DEF PreCount
<1>8. CASE PreCheck(in)
  BY <1>8 DEF PreCheck
<1>9. CASE PreVerdict(in)
  BY <1>9 DEF PreVerdict
<1>10. CASE PreVerdictSent(in)
  BY <1>10 DEF PreVerdictSent
<1> QED
  BY <1>1, <1>2, <1>3, <1>4, <1>5, <1>6, <1>7, <1>8, <1>9, <1>10

(* In READY the cores stay in reset and no dump is asked for.                *)
LEMMA ReadyKeepsReset ==
    ASSUME NEW in, DOMAIN ctl = Fields,
           \/ ReadyZero(in) \/ ReadyZeroed(in) \/ ReadyCleared(in)
           \/ ReadyReport(in) \/ ReadySent(in)
    PROVE  InReset /\ NoDump /\ ctl.state = "READY"
<1>d. /\ DOMAIN Dark(in) = Fields /\ Dark(in).execute = FALSE
      /\ Dark(in).pulses = {}
  BY FieldNames, HeldKeeps DEF Dark
<1> USE <1>d, FieldNames, QueueThenKeeps, FailKeeps, GoToKeeps, PulseKeeps DEF InReset, NoDump, Normal, Report
<1>1. CASE ReadyZero(in)
  BY <1>1 DEF ReadyZero
<1>2. CASE ReadyZeroed(in)
  BY <1>2 DEF ReadyZeroed
<1>3. CASE ReadyCleared(in) \/ ReadyReport(in)
  BY <1>3 DEF ReadyCleared, ReadyReport
<1>4. CASE ReadySent(in)
  BY <1>4 DEF ReadySent
<1> QED
  BY <1>1, <1>2, <1>3, <1>4

(* In PROGRAM_WRITE the cores stay in reset and no dump is asked for.        *)
LEMMA ProgramWriteKeepsReset ==
    ASSUME NEW in, DOMAIN ctl = Fields,
           \/ ProgStarted(in) \/ ProgStartSent(in) \/ ProgReceived(in)
           \/ ProgReceiveSent(in) \/ ProgCount(in) \/ ProgDoneSent(in)
    PROVE  InReset /\ NoDump /\ ctl.state = "PROGRAM_WRITE"
<1>w. /\ DOMAIN Watched(in) = Fields /\ Watched(in).execute = FALSE
      /\ Watched(in).pulses = {}
  BY WatchedKeeps
<1> USE <1>w, FieldNames, QueueThenKeeps, FailKeeps, GoToKeeps
    DEF InReset, NoDump, Normal, Report, Await, Stay
<1>1. CASE ProgStarted(in)
  BY <1>1 DEF ProgStarted
<1>2. CASE ProgStartSent(in)
  BY <1>2 DEF ProgStartSent
<1>3. CASE ProgReceived(in)
  BY <1>3 DEF ProgReceived
<1>4. CASE ProgReceiveSent(in)
  BY <1>4 DEF ProgReceiveSent
<1>5. CASE ProgCount(in)
  BY <1>5 DEF ProgCount
<1>6. CASE ProgDoneSent(in)
  BY <1>6 DEF ProgDoneSent
<1> QED
  BY <1>1, <1>2, <1>3, <1>4, <1>5, <1>6

(* EXECUTE keeps the cores running only into EXECUTE and END, and asks for   *)
(* no dump.                                                                  *)
LEMMA ExecuteEndsWell ==
    ASSUME NEW in, DOMAIN ctl = Fields, ctl.execute => ctl.state \in {"EXECUTE", "END"},
           ExecGuard(in) \/ ExecInit(in) \/ ExecFinish(in)
    PROVE  /\ DOMAIN ctl' = Fields /\ NoDump /\ ctl.state = "EXECUTE"
           /\ ctl'.execute => ctl'.state \in {"EXECUTE", "END"}
<1> DEFINE kept == Latched(in)
           running == Running(in)
<1>l. /\ DOMAIN kept = Fields /\ kept.pulses = {} /\ kept.state = ctl.state
      /\ kept.execute = ctl.execute
  BY LatchedKeeps
<1>r. DOMAIN running = Fields /\ running.pulses = {} /\ running.state = ctl.state
  <2> HIDE DEF kept
  <2>1. running = [kept EXCEPT !.preferLog = TRUE, !.execute = TRUE]
    BY DEF Running, kept
  <2> QED
    BY <1>l, <2>1, FieldNames
<1>1. CASE ExecGuard(in)
  <2>1. /\ ctl.state = "EXECUTE"
        /\ \/ ctl' = [running EXCEPT !.counter = 0, !.phase = 1]
           \/ ctl' = [kept EXCEPT !.preferLog = TRUE, !.counter = @ + 1]
    BY <1>1 DEF ExecGuard, Normal
  <2> HIDE DEF kept, running
  <2> QED
    BY <2>1, <1>l, <1>r, FieldNames DEF NoDump
<1>2. CASE ExecInit(in)
  <2>1. /\ ctl.state = "EXECUTE"
        /\ \/ ctl' = [Fail(running, "ERR_EH2_INIT") EXCEPT
                         !.preferLog = FALSE, !.execute = FALSE]
           \/ ctl' = GoTo(running, 2)
           \/ ctl' = running
    BY <1>2 DEF ExecInit, Normal
  <2> DEFINE failed == Fail(running, "ERR_EH2_INIT")
  <2> HIDE DEF running
  <2>2. DOMAIN failed = Fields /\ failed.pulses = {} /\ failed.state = "ERROR"
    BY <1>r, FailKeeps
  <2>3. /\ DOMAIN GoTo(running, 2) = Fields /\ GoTo(running, 2).pulses = {}
        /\ GoTo(running, 2).state = ctl.state
    BY <1>r, GoToKeeps
  <2> HIDE DEF failed
  <2> QED
    BY <2>1, <1>r, <2>2, <2>3, FieldNames DEF NoDump, failed
<1>3. CASE ExecFinish(in)
  <2>1. /\ ctl.state = "EXECUTE"
        /\ \/ ctl' = [running EXCEPT !.counter = 0]
           \/ ctl' = [running EXCEPT !.state = "END", !.phase = 0,
                                     !.preferLog = FALSE, !.counter = 0]
           \/ ctl' = [running EXCEPT !.counter = @ + 1]
    BY <1>3 DEF ExecFinish, Normal
  <2> HIDE DEF running
  <2> QED
    BY <2>1, <1>r, FieldNames DEF NoDump
<1> QED
  BY <1>1, <1>2, <1>3

(* END puts the cores back in reset at once, and is left only for ERROR.     *)
LEMMA EndKeepsReset ==
    ASSUME NEW in, DOMAIN ctl = Fields,
           \/ EndReport(in) \/ EndDump(in) \/ EndDumped(in) \/ EndExeEnd(in)
           \/ EndExeEndSent(in) \/ EndHold(in) \/ EndReplay(in)
           \/ EndReplayBegun(in) \/ EndReplayed(in)
    PROVE  InReset /\ ctl.state = "END" /\ ctl'.state \in {"END", "ERROR"}
<1>h. /\ DOMAIN Held(in) = Fields /\ Held(in).execute = FALSE
      /\ Held(in).state = ctl.state
  BY HeldKeeps
<1> USE <1>h, FieldNames, QueueThenKeeps, FailKeeps, GoToKeeps, PulseKeeps
    DEF InReset, Normal, Report
<1>1. CASE EndReport(in)
  BY <1>1 DEF EndReport
<1>2. CASE EndDump(in)
  BY <1>2 DEF EndDump
<1>3. CASE EndDumped(in)
  BY <1>3 DEF EndDumped
<1>4. CASE EndExeEnd(in)
  BY <1>4 DEF EndExeEnd
<1>5. CASE EndExeEndSent(in)
  BY <1>5 DEF EndExeEndSent
<1>6. CASE EndHold(in)
  BY <1>6 DEF EndHold, Queue
<1>7. CASE EndReplay(in)
  BY <1>7 DEF EndReplay
<1>8. CASE EndReplayBegun(in)
  BY <1>8 DEF EndReplayBegun
<1>9. CASE EndReplayed(in)
  BY <1>9 DEF EndReplayed
<1> QED
  BY <1>1, <1>2, <1>3, <1>4, <1>5, <1>6, <1>7, <1>8, <1>9

(* ERROR is absorbing, keeps the cores in reset and the code it captured.    *)
LEMMA ErrorKeepsReset ==
    ASSUME NEW in, DOMAIN ctl = Fields, ErrorStep(in)
    PROVE  /\ InReset /\ ctl.state = "ERROR" /\ ctl'.state = "ERROR"
           /\ ctl'.captured = ctl.captured
<1>1. /\ DOMAIN Lit(in) = Fields /\ Lit(in).execute = FALSE
      /\ Lit(in).state = ctl.state /\ Lit(in).captured = ctl.captured
  BY HeldKeeps, FieldNames DEF Lit
<1> QED
  BY <1>1, FieldNames, QueueThenKeeps DEF ErrorStep, InReset

(* The host reset branch holds the state and puts the cores in reset.        *)
LEMMA ResetKeepsReset ==
    ASSUME NEW in, DOMAIN ctl = Fields, HostReset(in)
    PROVE  /\ InReset /\ NoDump /\ ctl'.state = ctl.state
           /\ ctl'.captured = ctl.captured
<1> DEFINE held == [Held(in) EXCEPT !.timing = FALSE, !.retransmit = FALSE]
<1>1. /\ DOMAIN held = Fields /\ held.execute = FALSE /\ held.pulses = {}
      /\ held.state = ctl.state /\ held.captured = ctl.captured
  BY HeldKeeps, FieldNames
<1>2. ctl' = Pulse(held, "globalReset")
  BY DEF HostReset
<1> HIDE DEF held
<1> QED
  BY <1>1, <1>2, PulseKeeps DEF InReset, NoDump

(* The fatal branch goes to ERROR, once, with the cores in reset.            *)
LEMMA FatalKeepsReset ==
    ASSUME NEW in, DOMAIN ctl = Fields, FatalError(in)
    PROVE  InReset /\ NoDump /\ ctl'.state = "ERROR" /\ ctl.state # "ERROR"
<1> DEFINE held == Held(in)
           failed == Fail(held, in.fatalCode)
<1>h. DOMAIN held = Fields /\ held.execute = FALSE /\ held.pulses = {}
  BY HeldKeeps
<1>1. /\ DOMAIN failed = Fields /\ failed.execute = FALSE /\ failed.pulses = {}
      /\ failed.state = "ERROR"
  <2> HIDE DEF held
  <2> QED
    BY <1>h, FailKeeps
<1>2. /\ ctl.state # "ERROR"
      /\ ctl' = [failed EXCEPT !.waiting = FALSE, !.errorSent = FALSE, !.led0 = TRUE]
  BY DEF FatalError
<1> HIDE DEF failed
<1> QED
  BY <1>1, <1>2, FieldNames DEF InReset, NoDump

(* A clock edge of the controller, by the state it starts from: the cores run*)
(* only into EXECUTE and END, and a dump is asked for only in END and ERROR. *)
LEMMA ControllerKeeps ==
    ASSUME NEW in, DOMAIN ctl = Fields, ctl.execute => ctl.state \in {"EXECUTE", "END"},
           ControllerStep(in)
    PROVE  /\ DOMAIN ctl' = Fields
           /\ ctl'.execute => ctl'.state \in {"EXECUTE", "END"}
           /\ ctl.state \in {"END", "ERROR"} =>
                 ~ctl'.execute /\ ctl'.state \in {"END", "ERROR"}
           /\ ctl.state \notin {"END", "ERROR"} => NoDump
<1> USE DEF InReset
<1>1. CASE HostReset(in)
  BY <1>1, ResetKeepsReset
<1>2. CASE FatalError(in)
  BY <1>2, FatalKeepsReset
<1>3. CASE \/ PreInit(in) \/ PreAtg(in) \/ PreStarted(in) \/ PreStartSent(in)
           \/ PreReceived(in) \/ PreReceiveSent(in) \/ PreCount(in)
           \/ PreCheck(in) \/ PreVerdict(in) \/ PreVerdictSent(in)
  BY <1>3, PreconfigKeepsReset
<1>4. CASE \/ ReadyZero(in) \/ ReadyZeroed(in) \/ ReadyCleared(in)
           \/ ReadyReport(in) \/ ReadySent(in)
  BY <1>4, ReadyKeepsReset
<1>5. CASE \/ ProgStarted(in) \/ ProgStartSent(in) \/ ProgReceived(in)
           \/ ProgReceiveSent(in) \/ ProgCount(in) \/ ProgDoneSent(in)
  BY <1>5, ProgramWriteKeepsReset
<1>6. CASE ExecGuard(in) \/ ExecInit(in) \/ ExecFinish(in)
  BY <1>6, ExecuteEndsWell
<1>7. CASE \/ EndReport(in) \/ EndDump(in) \/ EndDumped(in) \/ EndExeEnd(in)
           \/ EndExeEndSent(in) \/ EndHold(in) \/ EndReplay(in)
           \/ EndReplayBegun(in) \/ EndReplayed(in)
  BY <1>7, EndKeepsReset
<1>8. CASE ErrorStep(in)
  BY <1>8, ErrorKeepsReset
<1> QED
  BY <1>1, <1>2, <1>3, <1>4, <1>5, <1>6, <1>7, <1>8 DEF ControllerStep

(* What the steps of the rest of the board do to the controller's outputs.   *)
Elapse == \/ UNCHANGED <<ctl, dump>>
          \/ DumpBegins \/ SendLog \/ DumpEnds

(* Every step but a clock edge of the controller and a restart leaves the    *)
(* controller alone, and starts a dump only when one has been asked for.     *)
LEMMA OtherSteps == Work \/ Option => Elapse
<1> USE DEF Elapse, Elsewhere, CoreStep
<1>1. Receive => Elapse
  BY DEF Receive, ReceiveFrame, WriteBegins, PayloadMoved, WriteEnds
<1>2. Transmit => Elapse
  BY DEF Transmit, SendInfo, FrameLeaves
<1>3. Operate => Elapse
  BY DEF Operate, BringUp, FinishOp
<1>4. Compute => Elapse
  BY DEF Compute, InitCores, InfoWritten, StartHart, StopHart
<1>5. SendTest \/ SendProgram => Elapse
  BY DEF SendTest, SendProgram, Deliver
<1>6. Option => Elapse
  BY DEF Option, Access, AccessEnds, OtherFault, RequestReplay, RequestReset, Command
<1> QED
  BY <1>1, <1>2, <1>3, <1>4, <1>5, <1>6 DEF Work

(* After reset the cores are held and nothing is dumped.                     *)
LEMMA InitExecuteInv == Init => ExecuteInv
BY DEF Init, ExecuteInv, InitialRegisters, DumpInitial, Dumping, Fields, DumpFields

(* Every step keeps the strengthened invariant.                              *)
LEMMA NextExecuteInv == ExecuteInv /\ [Next]_vars => ExecuteInv'
<1> SUFFICES ASSUME ExecuteInv, [Next]_vars PROVE ExecuteInv'
  OBVIOUS
<1> USE FieldNames
<1>1. CASE Tick
  <2>1. PICK in : ControllerStep(in)
    BY <1>1, Zenon DEF Tick
  <2>2. /\ DOMAIN ctl' = Fields
        /\ ctl'.execute => ctl'.state \in {"EXECUTE", "END"}
        /\ ctl.state \in {"END", "ERROR"} =>
              ~ctl'.execute /\ ctl'.state \in {"END", "ERROR"}
        /\ ctl.state \notin {"END", "ERROR"} => NoDump
    BY <2>1, ControllerKeeps DEF ExecuteInv
  <2>3. dump' = [dump EXCEPT !.starting = @ \/ "dumpStart" \in ctl.pulses,
                            !.sync = <<dump.done, @[1]>>]
    BY <1>1 DEF Tick, DumpEdge
  <2>4. /\ DOMAIN dump' = DumpFields /\ dump'.running = dump.running
        /\ dump'.starting => dump.starting \/ "dumpStart" \in ctl.pulses
    BY <2>3 DEF ExecuteInv
  <2> QED
    BY <2>2, <2>4 DEF ExecuteInv, Dumping, NoDump
<1>2. CASE Restart
  BY <1>2 DEF Restart, ExecuteInv, InitialRegisters, DumpInitial, Dumping, Fields,
              DumpFields
<1>3. CASE Elapse
  <2>1. CASE UNCHANGED <<ctl, dump>>
    BY <2>1 DEF ExecuteInv, Dumping
  <2>2. CASE DumpBegins
    BY <2>2 DEF DumpBegins, ExecuteInv, Dumping
  <2>3. CASE SendLog
    BY <2>3 DEF SendLog, ExecuteInv, Dumping
  <2>4. CASE DumpEnds
    BY <2>4 DEF DumpEnds, ExecuteInv, Dumping
  <2> QED
    BY <1>3, <2>1, <2>2, <2>3, <2>4 DEF Elapse
<1>4. CASE UNCHANGED vars
  BY <1>4 DEF vars, board, ExecuteInv, Dumping
<1> QED
  BY <1>1, <1>2, <1>3, <1>4, OtherSteps DEF Next, Clock

(* In every session the invariant holds.                                     *)
THEOREM ExecuteInvariant == Spec => []ExecuteInv
BY InitExecuteInv, NextExecuteInv, PTL DEF Spec

(* Whenever the cores are out of reset they own the program memory and the   *)
(* log memory takes their records, or is being handed over with no dump      *)
(* asked for (the owner tables of eh2_system_controller.sv:138-179 against   *)
(* its phases).                                                              *)
THEOREM CoresOwn == Spec => []CoresOwnMemory
<1>1. ExecuteInv => CoresOwnMemory
  BY DEF ExecuteInv, CoresOwnMemory, Ddr0Owner, Ddr1Owner
<1> QED
  BY <1>1, ExecuteInvariant, PTL

(* One step's worth of FirstErrorKept.                                       *)
KeepsError ==
    ctl.state = "ERROR" => \/ ctl'.state = "ERROR" /\ ctl'.captured = ctl.captured
                           \/ ctl' = InitialRegisters

(* Every step keeps the ERROR state and its code, or is a reset of the board.*)
LEMMA NextKeepsError == ExecuteInv /\ [Next]_vars => KeepsError
<1> SUFFICES ASSUME ExecuteInv, [Next]_vars, ctl.state = "ERROR"
             PROVE  \/ ctl'.state = "ERROR" /\ ctl'.captured = ctl.captured
                    \/ ctl' = InitialRegisters
  BY DEF KeepsError
<1>1. CASE Tick
  <2>1. PICK in : ControllerStep(in)
    BY <1>1, Zenon DEF Tick
  <2>2. DOMAIN ctl = Fields
    BY DEF ExecuteInv
  <2>3. CASE HostReset(in)
    BY <2>2, <2>3, ResetKeepsReset
  <2>4. CASE ErrorStep(in)
    BY <2>2, <2>4, ErrorKeepsReset
  <2>5. CASE FatalError(in)
    BY <2>2, <2>5, FatalKeepsReset
  <2> QED
    BY <2>1, <2>2, <2>3, <2>4, <2>5, PreconfigKeepsReset, ReadyKeepsReset,
       ProgramWriteKeepsReset, EndKeepsReset
       DEF ControllerStep, ExecGuard, ExecInit, ExecFinish, Normal
<1>2. CASE Restart
  BY <1>2 DEF Restart
<1>3. CASE Elapse
  BY <1>3 DEF Elapse, DumpBegins, SendLog, DumpEnds
<1>4. CASE UNCHANGED vars
  BY <1>4 DEF vars, board
<1> QED
  BY <1>1, <1>2, <1>3, <1>4, OtherSteps DEF Next, Clock

(* Once in ERROR the controller keeps its code and its state until a reset of*)
(* the board, whatever else fails afterwards.                                *)
THEOREM ErrorKept == Spec => FirstErrorKept
<1>1. ExecuteInv /\ [Next]_vars => KeepsError
  BY NextKeepsError
<1>2. KeepsError => [ctl.state = "ERROR" =>
                       \/ ctl'.state = "ERROR" /\ ctl'.captured = ctl.captured
                       \/ ctl' = InitialRegisters]_vars
  BY DEF KeepsError
<1> QED
  BY <1>1, <1>2, ExecuteInvariant, PTL DEF Spec, FirstErrorKept

(* The fields the moves speak of exist. *)
Spoken == {"state", "phase", "pulses", "counter", "fail", "target", "targetValid",
           "captured", "startSeen", "preEndSeen", "progEndSeen", "progEnd", "expected",
           "waiting", "push", "pending", "queued", "sent", "execute", "preferLog",
           "preEnd", "timing", "timer", "drainWait", "retransmit", "led0", "errorSent"}

(* The fields the move table speaks of exist.                               *)
LEMMA SpokenFields == Spoken \subseteq Fields
BY DEF Fields, InitialRegisters, Spoken

(* r is what the assignments before the case statement leave. *)
Latches(in, r) ==
    /\ DOMAIN r = Fields /\ r.state = ctl.state /\ r.phase = ctl.phase
    /\ r.pulses = {} /\ r.counter = ctl.counter /\ r.fail = ctl.fail
    /\ r.target = ctl.target /\ (r.targetValid <=> ctl.targetValid)
    /\ r.captured = ctl.captured /\ r.expected = ctl.expected
    /\ r.waiting <=> (ctl.waiting /\ ~InfoDone(in))
    /\ r.push = Tracked(in).push /\ r.pending = Tracked(in).pending
    /\ r.queued = Tracked(in).queued /\ r.sent = Tracked(in).sent
    /\ r.startSeen <=>
          (ctl.startSeen \/ (in.firstWrite /\ ctl.state \in {"PRECONFIG", "PROGRAM_WRITE"}))
    /\ r.preEndSeen <=> (ctl.preEndSeen \/ Ends(in, "PRECONFIG"))
    /\ r.progEndSeen <=> (ctl.progEndSeen \/ Ends(in, "PROGRAM_WRITE"))
    /\ r.progEnd = IF Ends(in, "PROGRAM_WRITE") THEN Count(in) ELSE ctl.progEnd

(* q is r but for the phase, the pulses and the code. *)
Same(q, r) ==
    /\ DOMAIN q = Fields /\ q.execute = r.execute
    /\ q.counter = r.counter /\ q.fail = r.fail /\ q.target = r.target
    /\ (q.targetValid <=> r.targetValid) /\ (q.startSeen <=> r.startSeen)
    /\ (q.preEndSeen <=> r.preEndSeen) /\ (q.progEndSeen <=> r.progEndSeen)
    /\ q.progEnd = r.progEnd /\ q.pending = r.pending /\ q.queued = r.queued
    /\ q.sent = r.sent

(* The code queued is r's.                                                  *)
SameCode(q, r) == q.push = r.push /\ q.expected = r.expected /\ (q.waiting <=> r.waiting)

(* The assignments before the case statement leave the rest alone.          *)
LEMMA LatchedFields ==
    ASSUME NEW in, DOMAIN ctl = Fields
    PROVE  Latches(in, Latched(in)) /\ Latched(in).execute = ctl.execute
<1> USE DEF Latched, Fields, InitialRegisters, Ends
<1> DEFINE r == Latched(in)
<1>1. /\ DOMAIN r = Fields /\ r.state = ctl.state /\ r.phase = ctl.phase
      /\ r.pulses = {} /\ r.execute = ctl.execute /\ r.captured = ctl.captured
      /\ r.counter = ctl.counter /\ r.fail = ctl.fail /\ r.target = ctl.target
  OBVIOUS
<1>2. (r.waiting <=> (ctl.waiting /\ ~InfoDone(in))) /\ (r.targetValid <=> ctl.targetValid)
  OBVIOUS
<1>3. /\ r.expected = ctl.expected
      /\ r.push = Tracked(in).push /\ r.pending = Tracked(in).pending
      /\ r.queued = Tracked(in).queued /\ r.sent = Tracked(in).sent
  OBVIOUS
<1>4. r.startSeen <=>
          (ctl.startSeen \/ (in.firstWrite /\ ctl.state \in {"PRECONFIG", "PROGRAM_WRITE"}))
  OBVIOUS
<1>5. /\ r.preEndSeen <=> (ctl.preEndSeen \/ Ends(in, "PRECONFIG"))
      /\ r.progEndSeen <=> (ctl.progEndSeen \/ Ends(in, "PROGRAM_WRITE"))
      /\ r.progEnd = IF Ends(in, "PROGRAM_WRITE") THEN Count(in) ELSE ctl.progEnd
  OBVIOUS
<1> HIDE DEF r
<1> QED
  BY <1>1, <1>2, <1>3, <1>4, <1>5 DEF Latches, r

(* So they do where the cores are put back into reset.                      *)
LEMMA HeldFields ==
    ASSUME NEW in, DOMAIN ctl = Fields
    PROVE  Latches(in, Held(in)) /\ Held(in).execute = FALSE
<1> DEFINE l == Latched(in)
<1>1. Latches(in, l)
  BY LatchedFields
<1>2. Held(in) = [l EXCEPT !.execute = FALSE, !.preferLog = FALSE]
  BY DEF Held
<1>3. Fields = DOMAIN l /\ {"execute", "preferLog"} \subseteq DOMAIN l
  BY <1>1, FieldNames DEF Latches
<1> HIDE DEF l
<1> QED
  BY <1>1, <1>2, <1>3 DEF Latches

(* queue_info with its move either does nothing, the FIFO being full, or    *)
(* queues the code and moves.                                               *)
LEMMA QueuedFields ==
    ASSUME NEW in, NEW r, NEW code, NEW phase, DOMAIN r = Fields
    PROVE  LET q == QueueThen(in, r, code, phase) IN
           \/ q = r
           \/ /\ ~in.full /\ Same(q, r) /\ q.captured = r.captured /\ q.state = r.state
              /\ q.pulses = r.pulses /\ q.phase = phase
              /\ q.push = code /\ q.expected = code /\ q.waiting
BY SpokenFields DEF Spoken, QueueThen, Queue, Same

(* A move changes the phase only.                                           *)
LEMMA GoneFields ==
    ASSUME NEW r, NEW phase, DOMAIN r = Fields
    PROVE  LET q == GoTo(r, phase) IN
           /\ Same(q, r) /\ SameCode(q, r) /\ q.captured = r.captured /\ q.state = r.state
           /\ q.pulses = r.pulses /\ q.phase = phase
BY SpokenFields DEF Spoken, GoTo, Same, SameCode

(* A pulse changes the pulses only.                                         *)
LEMMA PulsedFields ==
    ASSUME NEW r, NEW p, DOMAIN r = Fields
    PROVE  LET q == Pulse(r, p) IN
           /\ Same(q, r) /\ SameCode(q, r) /\ q.captured = r.captured /\ q.state = r.state
           /\ (r.pulses = {} => q.pulses = {p}) /\ q.phase = r.phase
BY SpokenFields DEF Spoken, Pulse, Same, SameCode

(* A failure changes the state, the phase and the captured code only.       *)
LEMMA FailedFields ==
    ASSUME NEW r, NEW code, DOMAIN r = Fields
    PROVE  LET q == Fail(r, code) IN
           /\ Same(q, r) /\ SameCode(q, r) /\ q.captured = code /\ q.state = "ERROR"
           /\ q.pulses = r.pulses /\ q.phase = 0
BY SpokenFields DEF Spoken, Fail, Same, SameCode

(* Outside EXECUTE the tracker of the harts is cleared. *)
LEMMA Untracked ==
    ASSUME NEW in, ctl.state # "EXECUTE"
    PROVE  /\ Tracked(in).push = NoCode /\ Tracked(in).pending = {}
           /\ Tracked(in).queued = {} /\ Tracked(in).sent = {}
BY DEF Tracked, Tracking

(* The actions of PRECONFIG make the moves of PRECONFIG.                    *)
LEMMA PreMove ==
    ASSUME NEW in, DOMAIN ctl = Fields, ctl.fail \subseteq {"INSTR", "DATA"},
           \/ PreInit(in) \/ PreAtg(in) \/ PreStarted(in) \/ PreStartSent(in)
           \/ PreReceived(in) \/ PreReceiveSent(in) \/ PreCount(in)
           \/ PreCheck(in) \/ PreVerdict(in) \/ PreVerdictSent(in)
    PROVE  PreMoves(in)
<1> DEFINE h == Held(in)
<1>h. Latches(in, h) /\ h.execute = FALSE
  BY HeldFields
<1>v. ASSUME PreVerdictSent(in)
      PROVE  \/ ctl' = h /\ ~InfoDone(in)
             \/ /\ InfoDone(in) /\ ctl.fail = {}
                /\ ctl' = [h EXCEPT !.state = "READY", !.phase = 0,
                                    !.preEndSeen = FALSE, !.startSeen = FALSE]
             \/ /\ InfoDone(in) /\ ctl.fail = {"INSTR", "DATA"}
                /\ ctl' = [h EXCEPT !.fail = {"INSTR"}, !.phase = 4]
             \/ /\ InfoDone(in) /\ ctl.fail # {}
                /\ ctl' = [Fail(h, Verdict) EXCEPT !.fail = {}, !.errorSent = TRUE]
  BY <1>v DEF PreVerdictSent
<1> HIDE DEF h
<1> USE <1>h, Untracked, QueuedFields, GoneFields, PulsedFields, FailedFields
    DEF Same, SameCode, Normal, Latches, PreMoves, Moves, Stays, Enters, Sends, Recalls, Captures, SameCounter,
        Aims, Judges, Cleared, Report, Await, Stay, Awaiting, In, NoCode
<1>1. CASE PreInit(in)
  BY <1>1 DEF PreInit, h
<1>2. CASE PreAtg(in)
  BY SMTT(30), <1>2 DEF PreAtg, h
<1>3. CASE PreStarted(in)
  BY SMTT(30), <1>3 DEF PreStarted, h
<1>4. CASE PreStartSent(in)
  BY SMTT(30), <1>4 DEF PreStartSent, h
<1>5. CASE PreReceived(in)
  BY <1>5 DEF PreReceived, h
<1>6. CASE PreReceiveSent(in)
  BY <1>6 DEF PreReceiveSent, h
<1>7. CASE PreCount(in)
  BY SMTT(30), <1>7 DEF PreCount, h, Errs, ErrorCodes
<1>8. CASE PreCheck(in)
  BY <1>8, SpokenFields DEF Spoken, PreCheck, h
<1>9. CASE PreVerdict(in)
  BY SMTT(30), <1>9 DEF PreVerdict, h, Verdict
<1>10. CASE PreVerdictSent(in)
  <2>1. Normal(in, "PRECONFIG", 5)
    BY <1>10 DEF PreVerdictSent
  <2>2. CASE ctl' = h /\ ~InfoDone(in)
    BY SMTT(30), <2>1, <2>2
  <2>3. CASE /\ InfoDone(in)
             /\ ctl' = [h EXCEPT !.state = "READY", !.phase = 0,
                                 !.preEndSeen = FALSE, !.startSeen = FALSE]
             /\ ctl.fail = {}
    BY <2>1, <2>3, SpokenFields DEF Spoken
  <2>4. CASE /\ InfoDone(in) /\ ctl.fail = {"INSTR", "DATA"}
             /\ ctl' = [h EXCEPT !.fail = {"INSTR"}, !.phase = 4]
    BY <2>1, <2>4, SpokenFields DEF Spoken
  <2>5. CASE /\ InfoDone(in) /\ ctl.fail # {}
             /\ ctl' = [Fail(h, Verdict) EXCEPT !.fail = {}, !.errorSent = TRUE]
    <3> DEFINE f == Fail(h, Verdict)
    <3>1. /\ DOMAIN f = Fields /\ f.state = "ERROR" /\ f.phase = 0 /\ f.captured = Verdict
          /\ f.push = NoCode /\ f.pulses = {}
          /\ f.counter = ctl.counter /\ f.target = ctl.target
          /\ f.targetValid <=> ctl.targetValid
          /\ f.pending = {} /\ f.queued = {} /\ f.sent = {}
      BY <2>1
    <3>2. ctl' = [f EXCEPT !.fail = {}, !.errorSent = TRUE]
      BY <2>5
    <3> HIDE DEF f
    <3>3. Verdict \in {"INSTR_FAIL", "DATA_FAIL"}
      BY <2>5 DEF Verdict
    <3>4. Errs
      BY <3>1, <3>2, <3>3, SpokenFields DEF Spoken, Errs
    <3>5. ctl'.fail = {} /\ DOMAIN ctl' = Fields /\ SameCounter /\ Aims /\ Cleared /\ Captures
      BY <3>1, <3>2, SpokenFields DEF Spoken
    <3> QED
      BY <2>1, <3>4, <3>5
  <2> QED
    BY <1>10, <1>v, <2>2, <2>3, <2>4, <2>5
<1> QED
  BY <1>1, <1>2, <1>3, <1>4, <1>5, <1>6, <1>7, <1>8, <1>9, <1>10

(* In READY LED 0 is switched off besides. *)
LEMMA DarkFields ==
    ASSUME NEW in, DOMAIN ctl = Fields
    PROVE  Latches(in, Dark(in))
<1> DEFINE h == Held(in)
<1>1. Latches(in, h)
  BY HeldFields
<1>2. Dark(in) = [h EXCEPT !.led0 = FALSE]
  BY DEF Dark
<1> HIDE DEF h
<1> QED
  BY <1>1, <1>2, SpokenFields DEF Latches, Spoken

(* The actions of READY make the moves of READY.                            *)
LEMMA ReadyMove ==
    ASSUME NEW in, DOMAIN ctl = Fields,
           \/ ReadyZero(in) \/ ReadyZeroed(in) \/ ReadyCleared(in)
           \/ ReadyReport(in) \/ ReadySent(in)
    PROVE  ReadyMoves(in)
<1> DEFINE h == Dark(in)
<1>h. Latches(in, h)
  BY DarkFields
<1> HIDE DEF h
<1> USE <1>h, Untracked, QueuedFields, GoneFields, PulsedFields, FailedFields
    DEF Same, SameCode, Normal, Latches, ReadyMoves, Moves, Stays, Enters, Sends, Recalls, Captures, SameCounter,
        Aims, Judges, Cleared, Report, Await, Stay, Awaiting, In, NoCode
<1>1. CASE ReadyZero(in)
  BY <1>1 DEF ReadyZero, h
<1>2. CASE ReadyZeroed(in)
  BY <1>2 DEF ReadyZeroed, h, Errs, ErrorCodes
<1>3. CASE ReadyCleared(in)
  BY <1>3 DEF ReadyCleared, h
<1>4. CASE ReadyReport(in)
  BY <1>4 DEF ReadyReport, h
<1>5. CASE ReadySent(in)
  BY <1>5, SpokenFields DEF Spoken, ReadySent, h
<1> QED
  BY <1>1, <1>2, <1>3, <1>4, <1>5

(* Under the watchdog an edge latches as ever, or ends in ERROR. *)
LEMMA WatchedFields ==
    ASSUME NEW in, DOMAIN ctl = Fields
    PROVE  \/ Latches(in, Watched(in))
           \/ /\ Expires(in) /\ DOMAIN Watched(in) = Fields
              /\ Watched(in).state = "ERROR" /\ Watched(in).phase = 0
              /\ Watched(in).captured = "ERR_PROGRAM_OVERTIME"
              /\ Watched(in).push = Tracked(in).push /\ Watched(in).pulses = {}
              /\ Watched(in).counter = ctl.counter /\ Watched(in).fail = ctl.fail
              /\ Watched(in).target = ctl.target
              /\ Watched(in).targetValid <=> ctl.targetValid
              /\ Watched(in).pending = Tracked(in).pending
              /\ Watched(in).queued = Tracked(in).queued
              /\ Watched(in).sent = Tracked(in).sent
<1> DEFINE h == Held(in)
           f == Fail(h, "ERR_PROGRAM_OVERTIME")
<1>h. Latches(in, h)
  BY HeldFields
<1>f. Same(f, h) /\ SameCode(f, h) /\ f.captured = "ERR_PROGRAM_OVERTIME" /\ f.state = "ERROR"
      /\ f.pulses = h.pulses /\ f.phase = 0
  <2> HIDE DEF h
  <2> QED
    BY <1>h, FailedFields DEF Latches
<1>1. \/ Watched(in) = [h EXCEPT !.timing = TRUE, !.timer = 1]
      \/ Watched(in) = [f EXCEPT !.timing = FALSE] /\ Expires(in)
      \/ Watched(in) = [h EXCEPT !.timer = @ + 1]
      \/ Watched(in) = h
  BY Zenon DEF Watched
<1> HIDE DEF h, f
<1>2. CASE Watched(in) = [f EXCEPT !.timing = FALSE] /\ Expires(in)
  BY <1>2, <1>h, <1>f, SpokenFields DEF Spoken, Latches, Same, SameCode
<1>3. CASE Watched(in) = [h EXCEPT !.timing = TRUE, !.timer = 1]
  BY <1>3, <1>h, SpokenFields DEF Spoken, Latches
<1>4. CASE Watched(in) = [h EXCEPT !.timer = @ + 1]
  BY <1>4, <1>h, SpokenFields DEF Spoken, Latches
<1> QED
  BY <1>h, <1>1, <1>2, <1>3, <1>4

(* The actions of PROGRAM_WRITE, under the watchdog, make its moves.        *)
LEMMA ProgMove ==
    ASSUME NEW in, DOMAIN ctl = Fields,
           ctl.phase \in {1, 4, 5} => ctl.progEndSeen,
           \/ ProgStarted(in) \/ ProgStartSent(in) \/ ProgReceived(in)
           \/ ProgReceiveSent(in) \/ ProgCount(in) \/ ProgDoneSent(in)
    PROVE  ProgMoves(in)
<1> DEFINE h == Watched(in)
<1>s. ctl.state = "PROGRAM_WRITE"
  BY DEF ProgStarted, ProgStartSent, ProgReceived, ProgReceiveSent, ProgCount, ProgDoneSent, Normal
<1>h. \/ Latches(in, h)
      \/ /\ Expires(in) /\ DOMAIN h = Fields /\ h.state = "ERROR" /\ h.phase = 0
         /\ h.captured = "ERR_PROGRAM_OVERTIME" /\ h.push = NoCode /\ h.pulses = {}
         /\ h.counter = ctl.counter /\ h.fail = ctl.fail /\ h.target = ctl.target
         /\ h.targetValid <=> ctl.targetValid
         /\ h.pending = {} /\ h.queued = {} /\ h.sent = {}
  BY <1>s, WatchedFields, Untracked
<1>t. Tracked(in).push = NoCode /\ Tracked(in).pending = {} /\ Tracked(in).queued = {} /\ Tracked(in).sent = {}
  BY <1>s, Untracked
<1>d. DOMAIN h = Fields
  BY <1>h DEF Latches
<1>e. Expires(in) => ~ctl.progEndSeen /\ ~in.programEnd
  BY DEF Expires
<1> HIDE DEF h
<1>1. CASE ~Latches(in, h)
  <2> USE <1>1, <1>h, <1>d, <1>e, QueuedFields, GoneFields
      DEF ProgMoves, Errs, ErrorCodes, Same, SameCode, Normal, SameCounter, Aims, Judges, Cleared, NoCode, Report, Await, Stay
  <2>1. CASE ProgStarted(in)
    BY <2>1 DEF ProgStarted, h
  <2>2. CASE ProgStartSent(in)
    BY <2>2 DEF ProgStartSent, h
  <2>3. CASE ProgReceived(in)
    BY <2>3 DEF ProgReceived, h
  <2>4. CASE ProgReceiveSent(in)
    BY <2>4 DEF ProgReceiveSent, h
  <2>5. CASE ProgCount(in)
    BY <2>5 DEF ProgCount, h
  <2>6. CASE ProgDoneSent(in)
    BY <2>6 DEF ProgDoneSent, h
  <2> QED
    BY <2>1, <2>2, <2>3, <2>4, <2>5, <2>6
<1>2. CASE Latches(in, h)
  <2> USE <1>2, <1>t, <1>d, QueuedFields, GoneFields, FailedFields
    DEF Same, SameCode, Normal, Latches, ProgMoves, Moves, Stays, Enters, Sends, Recalls, Captures, SameCounter,
        Aims, Judges, Cleared, Report, Await, Stay, Awaiting, In, NoCode
  <2>1. CASE ProgStarted(in)
    BY <2>1 DEF ProgStarted, h
  <2>2. CASE ProgStartSent(in)
    BY <2>2 DEF ProgStartSent, h
  <2>3. CASE ProgReceived(in)
    BY <2>3 DEF ProgReceived, h
  <2>4. CASE ProgReceiveSent(in)
    BY <2>4 DEF ProgReceiveSent, h
  <2>5. CASE ProgCount(in)
    <3> DEFINE q == [h EXCEPT !.timing = FALSE]
    <3>1. Latches(in, q)
      BY <1>2, SpokenFields DEF Spoken
    <3>2. Normal(in, "PROGRAM_WRITE", 5)
      BY <2>5 DEF ProgCount
    <3>3. \/ ctl' = Fail(h, "ERR_PROGRAM_COUNT")
          \/ /\ ctl' = QueueThen(in, q, "PROGRAM_DONE", 1)
             /\ ProgTarget(in).total = in.dmaDoneCount /\ ~in.dmaBusy
          \/ ctl' = h
      BY <2>5 DEF ProgCount, h
    <3> HIDE DEF q
    <3>4. CASE ctl' = Fail(h, "ERR_PROGRAM_COUNT")
      BY <3>2, <3>4 DEF Errs, ErrorCodes
    <3>5. CASE /\ ctl' = QueueThen(in, q, "PROGRAM_DONE", 1)
               /\ ProgTarget(in).total = in.dmaDoneCount /\ ~in.dmaBusy
      BY <3>1, <3>2, <3>5
    <3>6. CASE ctl' = h
      BY <3>2, <3>6
    <3> QED
      BY <3>3, <3>4, <3>5, <3>6
  <2>6. CASE ProgDoneSent(in)
    BY <2>6, SpokenFields DEF Spoken, ProgDoneSent, h
  <2> QED
    BY <2>1, <2>2, <2>3, <2>4, <2>5, <2>6
<1> QED
  BY <1>1, <1>2

(* The actions of EXECUTE make the moves of EXECUTE.                        *)
LEMMA ExecMove ==
    ASSUME NEW in, DOMAIN ctl = Fields, ExecGuard(in) \/ ExecInit(in) \/ ExecFinish(in)
    PROVE  ExecMoves(in)
<1> DEFINE l == Latched(in)
           r == Running(in)
<1>l. Latches(in, l)
  BY LatchedFields
<1>r. Latches(in, r)
  <2>1. r = [l EXCEPT !.preferLog = TRUE, !.execute = TRUE]
    BY DEF Running
  <2> HIDE DEF l, r
  <2> QED
    BY <2>1, <1>l, SpokenFields DEF Spoken, Latches
<1> HIDE DEF l, r
<1>s. ctl.state = "EXECUTE" /\ ~in.fatal
  BY DEF ExecGuard, ExecInit, ExecFinish, Normal
<1> USE <1>s, <1>l, <1>r, SpokenFields
    DEF Spoken, Latches, ExecMoves, ExecPhase, Tracks, Recalls, Captures, SameCounter, Aims, Judges
<1>1. CASE ExecGuard(in)
  <2>1. /\ ctl.phase = 0
        /\ \/ ctl' = [r EXCEPT !.counter = 0, !.phase = 1]
           \/ ctl' = [l EXCEPT !.preferLog = TRUE, !.counter = @ + 1]
    BY <1>1 DEF ExecGuard, Normal, l, r
  <2>2. CASE ctl' = [r EXCEPT !.counter = 0, !.phase = 1]
    BY <2>1, <2>2
  <2>3. CASE ctl' = [l EXCEPT !.preferLog = TRUE, !.counter = @ + 1]
    BY <2>1, <2>3
  <2> QED
    BY <2>1, <2>2, <2>3
<1>2. CASE ExecInit(in)
  <2> DEFINE f == Fail(r, "ERR_EH2_INIT")
  <2>1. /\ ctl.phase = 1
        /\ \/ ctl' = [f EXCEPT !.preferLog = FALSE, !.execute = FALSE]
           \/ ctl' = GoTo(r, 2)
           \/ ctl' = r
    BY <1>2 DEF ExecInit, Normal, r
  <2>2. Same(f, r) /\ SameCode(f, r) /\ f.captured = "ERR_EH2_INIT" /\ f.state = "ERROR"
        /\ f.pulses = r.pulses /\ f.phase = 0
    BY FailedFields
  <2> HIDE DEF f
  <2>3. CASE ctl' = [f EXCEPT !.preferLog = FALSE, !.execute = FALSE]
    BY <2>1, <2>2, <2>3 DEF Same, SameCode
  <2>4. CASE ctl' = GoTo(r, 2)
    BY <2>1, <2>4, GoneFields DEF Same, SameCode
  <2>5. CASE ctl' = r
    BY <2>1, <2>5
  <2> QED
    BY <2>1, <2>3, <2>4, <2>5
<1>3. CASE ExecFinish(in)
  <2>1. /\ ctl.phase = 2
        /\ \/ ctl' = [r EXCEPT !.counter = 0]
           \/ /\ ctl' = [r EXCEPT !.state = "END", !.phase = 0,
                                     !.preferLog = FALSE, !.counter = 0]
              /\ Finished(in) /\ ctl.counter >= IdleGuard - 1
           \/ ctl' = [r EXCEPT !.counter = @ + 1] /\ Finished(in)
    BY <1>3 DEF ExecFinish, Normal, r
  <2>2. CASE ctl' = [r EXCEPT !.counter = 0]
    BY <2>1, <2>2
  <2>3. CASE /\ ctl' = [r EXCEPT !.state = "END", !.phase = 0,
                                     !.preferLog = FALSE, !.counter = 0]
             /\ Finished(in) /\ ctl.counter >= IdleGuard - 1
    BY <2>1, <2>3
  <2>4. CASE ctl' = [r EXCEPT !.counter = @ + 1] /\ Finished(in)
    BY <2>1, <2>4
  <2> QED
    BY <2>1, <2>2, <2>3, <2>4
<1> QED
  BY <1>1, <1>2, <1>3

(* The actions of END make the moves of END.                                *)
LEMMA EndMove ==
    ASSUME NEW in, DOMAIN ctl = Fields, ctl.counter \in Nat, CountGuard \in Nat \ {0},
           \/ EndReport(in) \/ EndDump(in) \/ EndDumped(in) \/ EndExeEnd(in)
           \/ EndExeEndSent(in) \/ EndHold(in) \/ EndReplay(in)
           \/ EndReplayBegun(in) \/ EndReplayed(in)
    PROVE  EndMoves(in)
<1> DEFINE h == Held(in)
<1>h. Latches(in, h)
  BY HeldFields
<1>5. ASSUME EndHold(in)
      PROVE  /\ Normal(in, "END", 5)
             /\ \/ ctl' = h
                \/ /\ ~ctl.waiting /\ ~ctl.targetValid /\ ctl.counter >= CountGuard - 1
                   /\ ctl' = [h EXCEPT !.target = in.submitted, !.drainWait = 0,
                                       !.targetValid = TRUE, !.counter = 0]
                \/ /\ ~ctl.waiting /\ ~ctl.targetValid /\ ~(ctl.counter >= CountGuard - 1)
                   /\ ctl' = [h EXCEPT !.counter = @ + 1]
                \/ ctl.targetValid /\ ctl' = [h EXCEPT !.targetValid = FALSE]
                \/ /\ ~ctl.waiting /\ ctl.targetValid /\ Reached(in.completed, ctl.target)
                   /\ ctl' = [Queue(h, "RETRANSMIT_BEGIN") EXCEPT
                                !.targetValid = FALSE, !.retransmit = FALSE, !.phase = 6]
                \/ ctl' = [Fail(h, "ERR_TXMAC_STREAM") EXCEPT !.targetValid = FALSE]
                \/ ctl.targetValid /\ ctl' = [h EXCEPT !.drainWait = @ + 1]
  BY <1>5 DEF EndHold
<1> HIDE DEF h
<1> USE <1>h, Untracked, QueuedFields, GoneFields, PulsedFields
    DEF Same, SameCode, Normal, Latches, EndMoves, Moves, Stays, Enters, Sends, Recalls, Captures, SameCounter,
        Aims, Judges, Cleared, Report, Await, Stay, Awaiting, In, NoCode
<1>1. CASE EndReport(in)
  BY <1>1 DEF EndReport, h
<1>2. CASE EndDump(in)
  BY <1>2 DEF EndDump, h
<1>3. CASE EndDumped(in)
  BY <1>3 DEF EndDumped, h
<1>4. CASE EndExeEnd(in)
  BY <1>4 DEF EndExeEnd, h
<1>6. CASE EndExeEndSent(in)
  BY <1>6, SpokenFields DEF Spoken, EndExeEndSent, h
<1>7. CASE EndHold(in)
  <2>n. Normal(in, "END", 5)
    BY <1>5, <1>7
  <2> USE <2>n, SpokenFields DEF Spoken
  <2>1. CASE ctl' = h
    BY <2>1
  <2>2. CASE /\ ~ctl.waiting /\ ~ctl.targetValid /\ ctl.counter >= CountGuard - 1
             /\ ctl' = [h EXCEPT !.target = in.submitted, !.drainWait = 0,
                                 !.targetValid = TRUE, !.counter = 0]
    BY <2>2
  <2>3. CASE /\ ~ctl.waiting /\ ~ctl.targetValid /\ ~(ctl.counter >= CountGuard - 1)
             /\ ctl' = [h EXCEPT !.counter = @ + 1]
    BY <2>3
  <2>4. CASE ctl.targetValid /\ ctl' = [h EXCEPT !.targetValid = FALSE]
    BY <2>4
  <2>5. CASE /\ ~ctl.waiting /\ ctl.targetValid /\ Reached(in.completed, ctl.target)
             /\ ctl' = [Queue(h, "RETRANSMIT_BEGIN") EXCEPT
                          !.targetValid = FALSE, !.retransmit = FALSE, !.phase = 6]
    BY <2>5 DEF Queue
  <2>6. CASE ctl' = [Fail(h, "ERR_TXMAC_STREAM") EXCEPT !.targetValid = FALSE]
    BY <2>6 DEF Fail, Errs, ErrorCodes
  <2>7. CASE ctl.targetValid /\ ctl' = [h EXCEPT !.drainWait = @ + 1]
    BY <2>7
  <2> QED
    BY <1>5, <1>7, <2>1, <2>2, <2>3, <2>4, <2>5, <2>6, <2>7
<1>8. CASE EndReplay(in)
  BY <1>8 DEF EndReplay, h
<1>9. CASE EndReplayBegun(in)
  BY <1>9 DEF EndReplayBegun, h
<1>10. CASE EndReplayed(in)
  BY <1>10 DEF EndReplayed, h
<1> QED
  BY <1>1, <1>2, <1>3, <1>4, <1>6, <1>7, <1>8, <1>9, <1>10

(* What the tracker of the harts pushes is a status of a hart. *)
LEMMA TrackedPush == ASSUME NEW in PROVE Tracked(in).push \in HartStatuses \cup {NoCode}
<1>1. CASE Chosen(in) = {}
  BY <1>1 DEF Tracked
<1>2. CASE Chosen(in) # {} /\ Tracked(in).push # NoCode
  <2>1. Tracked(in).push = CHOOSE s \in HartStatuses : s \in Chosen(in)
    BY <1>2 DEF Tracked
  <2> QED
    BY <2>1, <1>2 DEF Chosen
<1> QED
  BY <1>1, <1>2

(* The operator's reset makes its move.                                     *)
LEMMA ResetMove ==
    ASSUME NEW in, DOMAIN ctl = Fields, HostReset(in)
    PROVE  ResetMoves(in)
<1> DEFINE h == Held(in)
           q == [h EXCEPT !.timing = FALSE, !.retransmit = FALSE]
<1>h. Latches(in, h)
  BY HeldFields
<1>1. ctl' = Pulse(q, "globalReset")
  BY DEF HostReset
<1>q. Latches(in, q)
  <2> HIDE DEF h
  <2> QED
    BY <1>h, SpokenFields DEF Spoken, Latches
<1>e. DOMAIN q = Fields /\ q.execute = FALSE /\ q.errorSent = ctl.errorSent
  <2>1. DOMAIN h = Fields /\ h.execute = FALSE
    BY HeldKeeps
  <2>2. Latched(in).errorSent = ctl.errorSent /\ DOMAIN Latched(in) = Fields
    BY SpokenFields, LatchedFields DEF Spoken, Latched, Latches
  <2>3. h.errorSent = ctl.errorSent
    BY <2>2, SpokenFields DEF Spoken, Held
  <2> HIDE DEF h
  <2> QED
    BY <2>1, <2>3, FieldNames
<1> HIDE DEF h, q
<1>2. ctl'.execute = FALSE
  BY <1>1, <1>e, PulseKeeps
<1>3. ctl'.errorSent = ctl.errorSent
  BY <1>1, <1>e, FieldNames DEF Pulse
<1> QED
  BY <1>1, <1>2, <1>3, <1>q, PulsedFields, TrackedPush
     DEF Latches, Same, SameCode, ResetMoves, SameCounter, Aims, Judges

(* A failure of the hardware makes its move.                                *)
LEMMA FatalMove ==
    ASSUME NEW in, DOMAIN ctl = Fields, FatalError(in)
    PROVE  FatalMoves(in)
<1> DEFINE h == Held(in)
           f == Fail(h, in.fatalCode)
<1>h. Latches(in, h)
  BY HeldFields
<1>1. /\ in.fatal /\ ctl.state # "ERROR"
      /\ ctl' = [f EXCEPT !.waiting = FALSE, !.errorSent = FALSE, !.led0 = TRUE]
  BY DEF FatalError
<1>f. Same(f, h) /\ SameCode(f, h) /\ f.captured = in.fatalCode /\ f.state = "ERROR"
      /\ f.pulses = h.pulses /\ f.phase = 0
  <2> HIDE DEF h
  <2> QED
    BY <1>h, FailedFields DEF Latches
<1> HIDE DEF h, f
<1> QED
  BY <1>1, <1>h, <1>f, TrackedPush, SpokenFields
     DEF Spoken, Latches, Same, SameCode, FatalMoves, SameCounter, Aims, Judges

(* The action of ERROR makes the moves of ERROR.                            *)
LEMMA ErrorMove ==
    ASSUME NEW in, DOMAIN ctl = Fields, ErrorStep(in)
    PROVE  ErrorMoves(in)
<1> DEFINE h == Held(in)
           l == Lit(in)
<1>h. Latches(in, h)
  BY HeldFields
<1>e. l.errorSent = ctl.errorSent
  <2>1. Latched(in).errorSent = ctl.errorSent /\ DOMAIN Latched(in) = Fields
    BY SpokenFields, LatchedFields DEF Spoken, Latched, Latches
  <2> QED
    BY <2>1, SpokenFields DEF Spoken, Lit, Held
<1>l. Latches(in, l)
  <2>1. l = [h EXCEPT !.led0 = TRUE]
    BY DEF Lit
  <2> HIDE DEF h, l
  <2> QED
    BY <2>1, <1>h, SpokenFields DEF Spoken, Latches
<1> HIDE DEF h
<1>1. /\ ctl.state = "ERROR"
      /\ \/ ~ctl.errorSent /\ ctl.phase = 0 /\ ctl' = QueueThen(in, l, ctl.captured, 1)
         \/ ctl' = [l EXCEPT !.errorSent = TRUE, !.timing = FALSE]
         \/ ctl' = l
  BY DEF ErrorStep
<1> HIDE DEF l
<1> USE <1>1, <1>e, <1>l, Untracked DEF Latches, ErrorMoves, SameCounter, Aims, Judges
<1>2. CASE ~ctl.errorSent /\ ctl.phase = 0 /\ ctl' = QueueThen(in, l, ctl.captured, 1)
  <2>1. CASE ctl' = l
    BY <2>1
  <2>2. CASE /\ Same(ctl', l) /\ ctl'.captured = l.captured /\ ctl'.state = l.state
             /\ ctl'.pulses = l.pulses /\ ctl'.phase = 1 /\ ctl'.push = ctl.captured
    BY <1>2, <2>2 DEF Same
  <2> QED
    BY <1>2, <2>1, <2>2, QueuedFields
<1>3. CASE ctl' = [l EXCEPT !.errorSent = TRUE, !.timing = FALSE]
  BY <1>3, SpokenFields DEF Spoken
<1>4. CASE ctl' = l
  BY <1>4
<1> QED
  BY <1>2, <1>3, <1>4

(* Every edge of the controller is a move of the table. *)
LEMMA ControllerMove ==
    ASSUME NEW in, DOMAIN ctl = Fields, ctl.counter \in Nat,
           ctl.fail \subseteq {"INSTR", "DATA"},
           ctl.state = "PROGRAM_WRITE" /\ ctl.phase \in {1, 4, 5} => ctl.progEndSeen,
           ControllerStep(in)
    PROVE  Moved(in)
<1> USE DEF Moved
<1>0. CountGuard \in Nat \ {0}
  BY ControllerAssumption
<1>1. CASE HostReset(in)
  BY <1>1, ResetMove
<1>2. CASE FatalError(in)
  BY <1>2, FatalMove
<1>3. CASE \/ PreInit(in) \/ PreAtg(in) \/ PreStarted(in) \/ PreStartSent(in)
           \/ PreReceived(in) \/ PreReceiveSent(in) \/ PreCount(in)
           \/ PreCheck(in) \/ PreVerdict(in) \/ PreVerdictSent(in)
  BY <1>3, PreMove
<1>4. CASE \/ ReadyZero(in) \/ ReadyZeroed(in) \/ ReadyCleared(in)
           \/ ReadyReport(in) \/ ReadySent(in)
  BY <1>4, ReadyMove
<1>5. CASE \/ ProgStarted(in) \/ ProgStartSent(in) \/ ProgReceived(in)
           \/ ProgReceiveSent(in) \/ ProgCount(in) \/ ProgDoneSent(in)
  <2>1. ctl.state = "PROGRAM_WRITE"
    BY <1>5 DEF ProgStarted, ProgStartSent, ProgReceived, ProgReceiveSent, ProgCount,
                ProgDoneSent, Normal
  <2> QED
    BY <1>5, <2>1, ProgMove
<1>6. CASE ExecGuard(in) \/ ExecInit(in) \/ ExecFinish(in)
  BY <1>6, ExecMove
<1>7. CASE \/ EndReport(in) \/ EndDump(in) \/ EndDumped(in) \/ EndExeEnd(in)
           \/ EndExeEndSent(in) \/ EndHold(in) \/ EndReplay(in)
           \/ EndReplayBegun(in) \/ EndReplayed(in)
  BY <1>0, <1>7, EndMove
<1>8. CASE ErrorStep(in)
  BY <1>8, ErrorMove
<1> QED
  BY <1>1, <1>2, <1>3, <1>4, <1>5, <1>6, <1>7, <1>8 DEF ControllerStep

(* What holds between the controller and the rest of the board in every     *)
(* session, whatever the network loses and whatever fails; each part needs  *)
(* some of the others.                                                      *)
SessionInv ==
    /\ Shapes /\ Registers /\ Codes /\ Traffic /\ Engines /\ Asked
    /\ Received /\ Arrivals /\ Stores /\ Path /\ Dumps

(* What the controller sees of the board. *)
LEMMA Sampling ==
    ASSUME NEW late
    PROVE  LET in == Sampled(late) IN
           /\ in.programEnd = rx.end /\ in.endTotal = rx.total /\ in.frameCount = rx.frames
           /\ in.dmaDoneCount = rx.doneCount /\ in.firstWrite = rx.firstWrite
           /\ in.dmaBusy <=> DmaBusy
           /\ in.atgDone <=> ops.atg \in Ended
           /\ in.instrDone => ops.instr \in Ended
           /\ in.dataDone => ops.data \in Ended
           /\ in.zeroDone <=> ops.zero \in Ended
           /\ in.stopped = {h \in Harts : cores.hart[h] = "STOPPED"}
           /\ in.axiIdle = cores.idle[2] /\ in.writeDone = cores.written
           /\ in.dumpDone = dump.sync[2]
           /\ in.fatal <=> alarm.pending # NoCode
           /\ in.fatalCode = alarm.pending
           /\ in.full <=> Len(link.fifo) = InfoDepth
           /\ in.frameDone <=> link.acks # <<>>
           /\ in.sentCode = IF link.acks = <<>> THEN NoCode ELSE Head(link.acks)
           /\ in.completed = mac.completed /\ in.submitted = mac.sync[3]
BY DEF Sampled, Seen

(* Whatever happens between the edges leaves the controller alone. *)
Receiving == Receive /\ UNCHANGED <<link, mac, ops, cores, dump, alarm, host, heard>>
Operating == Operate /\ UNCHANGED <<rx, link, mac, cores, dump, alarm, host, heard>>
Computing ==
    /\ ctl.execute /\ (Compute \/ Access \/ AccessEnds)
    /\ UNCHANGED <<rx, link, mac, ops, dump, alarm, host, heard>>
Answers ==
    /\ SendTest \/ SendProgram \/ RequestReplay \/ RequestReset
    /\ UNCHANGED <<link, mac, ops, cores, dump, alarm, heard>>
Faulting == OtherFault /\ UNCHANGED <<rx, link, mac, ops, cores, dump, host, heard>>
Between ==
    /\ UNCHANGED ctl
    /\ \/ Receiving \/ SendInfo \/ FrameLeaves \/ DumpBegins \/ SendLog \/ DumpEnds
       \/ Operating \/ Computing \/ Answers \/ Faulting

(* A step between two clock edges leaves the controller alone, and all of   *)
(* the board that its action does not name.                                 *)
LEMMA OtherStep == Work \/ Option => Between
<1> USE DEF Between, Elsewhere, CoreStep
<1>1. Receive => Between
  BY DEF Receive, ReceiveFrame, WriteBegins, PayloadMoved, WriteEnds, Receiving
<1>2. Transmit => Between
  BY DEF Transmit, SendInfo, FrameLeaves, DumpBegins, SendLog, DumpEnds
<1>3. Operate => Between
  BY DEF Operate, BringUp, FinishOp, Operating
<1>4. Compute => Between
  BY DEF Compute, InitCores, InfoWritten, StartHart, StopHart, Computing
<1>5. SendTest \/ SendProgram => Between
  BY DEF SendTest, SendProgram, Deliver, Answers
<1>6. Option => Between
  BY DEF Option, Access, AccessEnds, OtherFault, RequestReplay, RequestReset, Command, Answers,
         Computing, Faulting
<1> QED
  BY <1>1, <1>2, <1>3, <1>4, <1>5, <1>6 DEF Work

(* After reset the invariant holds.                                         *)
LEMMA InitSession == Init => SessionInv
<1> SUFFICES ASSUME Init PROVE SessionInv
  OBVIOUS
<1> USE DEF Init, InitialRegisters, RxInitial, LinkInitial, MacInitial, OpsInitial, CoresInitial,
            DumpInitial, AlarmInitial, HostInitial, Silence
<1>1. Shapes
  BY DEF Shapes, Fields
<1>2. Registers
  BY DEF Registers, LegalPhase, States
<1>3. Codes
  BY DEF Codes, InfoDepth
<1>4. Traffic
  BY SystemAssumption, ControllerAssumption DEF Traffic
<1>5. Engines /\ Asked
  BY DEF Engines, Asked, In, Checking
<1>6. Received
  BY SystemAssumption DEF Received, Counting, Pending, DmaBusy, NoData, Dataless, Ordered, Announced, NoCode
<1>7. Arrivals
  BY DEF Arrivals, Checked, Resting, Untouched, In, NoData, Dataless, NoFrame, Control
<1>8. Stores
  BY DEF Stores
<1>9. Path
  BY DEF Path, PathEmpty, Awaiting, In, NoCode
<1>10. Dumps
  BY DEF Dumps, AtRest, DumpAsked, Low, In
<1> QED
  BY <1>1, <1>2, <1>3, <1>4, <1>5, <1>6, <1>7, <1>8, <1>9, <1>10 DEF SessionInv

(* The move of the controller behind an edge. *)
LEMMA TickMove ==
    ASSUME SessionInv, Tick
    PROVE  \E late \in Skews : Moved(Sampled(late))
<1>1. PICK late \in Skews : ControllerStep(Sampled(late))
  BY DEF Tick
<1>2. Alive \/ ctl.state = "ERROR"
  BY DEF Tick, Alive
<1>3. ctl.state = "PROGRAM_WRITE" /\ ctl.phase \in {1, 4, 5} => ctl.progEndSeen
  BY <1>2 DEF SessionInv, Stores
<1> QED
  BY <1>1, <1>3, ControllerMove DEF SessionInv, Shapes, Registers

(* A move keeps the registers.                                              *)
LEMMA MovedShape == ASSUME NEW in, Moved(in) PROVE DOMAIN ctl' = Fields
BY DEF Moved, PreMoves, ReadyMoves, ProgMoves, ExecMoves, EndMoves, ResetMoves, FatalMoves, ErrorMoves

(* Every step keeps the fields of the records.                              *)
LEMMA NextShapes == SessionInv /\ [Next]_vars => Shapes'
<1> SUFFICES ASSUME SessionInv, [Next]_vars PROVE Shapes'
  OBVIOUS
<1> USE DEF SessionInv, Shapes
<1>1. CASE Tick
  <2>1. DOMAIN ctl' = Fields
    BY <1>1, TickMove, MovedShape
  <2>2. DOMAIN rx' = DOMAIN RxInitial
    BY <1>1 DEF Tick, RxEdge
  <2> QED
    BY <1>1, <2>1, <2>2 DEF Tick, LinkEdge, MacEdge, OpsEdge, CoresEdge, DumpEdge, AlarmEdge
<1>2. CASE Restart
  BY <1>2 DEF Restart, Fields
<1>3. CASE Between
  <2> USE DEF Between
  <2>1. CASE Receiving
    BY <2>1, <1>3 DEF Receiving, Receive, ReceiveFrame, SwallowProgram, TakeProgram, TakeControl, WriteBegins, AcceptWrite,
           PayloadMoved, MovePayload, WriteEnds, TakeStatus
  <2>2. CASE SendInfo
    <3>1. DOMAIN heard' = DOMAIN heard
      BY <2>2 DEF SendInfo, Hear
    <3> QED
      BY <2>2, <1>3, <3>1 DEF SendInfo, Submit, LinkInitial
  <2>3. CASE FrameLeaves
    BY <2>3, <1>3 DEF FrameLeaves
  <2>4. CASE DumpBegins \/ SendLog \/ DumpEnds
    <3>1. DOMAIN heard' = DOMAIN heard
      BY <2>4 DEF DumpBegins, SendLog, DumpEnds, Hear
    <3> QED
      BY <2>4, <1>3, <3>1 DEF DumpBegins, SendLog, DumpEnds, Submit
  <2>5. CASE Operating
    BY <2>5, <1>3 DEF Operating, Operate, BringUp, FinishOp
  <2>6. CASE Computing
    BY <2>6, <1>3 DEF Computing, Compute, InitCores, StartHart, StopHart, InfoWritten, Access, AccessEnds, CoreStep
  <2>7. CASE Answers
    BY <2>7, <1>3 DEF Answers, SendTest, SendProgram, Deliver, RequestReplay, RequestReset, Command
  <2>8. CASE Faulting
    BY <2>8, <1>3 DEF Faulting, OtherFault
  <2> QED
    BY <1>3, <2>1, <2>2, <2>3, <2>4, <2>5, <2>6, <2>7, <2>8
<1>4. CASE UNCHANGED vars
  BY <1>4 DEF vars, board
<1> QED
  BY <1>1, <1>2, <1>3, <1>4, OtherStep DEF Next, Clock

(* A set of errors has a first in the monitor's list. *)
LEMMA FirstError ==
    ASSUME Errors # {}
    PROVE  \E c \in Errors : \A d \in Errors : Rank[c] <= Rank[d]
<1>1. Errors \subseteq {"ERR_OTHER", "ERR_INFO_TX_FIFO", "ERR_DDR_ZERO", "ERR_EH2_INIT",
                        "ERR_PROGRAM_SEQUENCE", "ERR_PROGRAM_WRITE"}
  BY DEF Errors
<1>2. /\ Rank["ERR_OTHER"] = 0 /\ Rank["ERR_INFO_TX_FIFO"] = 1 /\ Rank["ERR_DDR_ZERO"] = 2
      /\ Rank["ERR_EH2_INIT"] = 3 /\ Rank["ERR_PROGRAM_SEQUENCE"] = 4 /\ Rank["ERR_PROGRAM_WRITE"] = 5
  BY DEF Rank
<1>3. CASE "ERR_OTHER" \in Errors
  BY <1>1, <1>2, <1>3
<1>4. CASE "ERR_OTHER" \notin Errors /\ "ERR_INFO_TX_FIFO" \in Errors
  BY <1>1, <1>2, <1>4
<1>5. CASE {"ERR_OTHER", "ERR_INFO_TX_FIFO"} \cap Errors = {} /\ "ERR_DDR_ZERO" \in Errors
  BY <1>1, <1>2, <1>5
<1>6. CASE /\ {"ERR_OTHER", "ERR_INFO_TX_FIFO", "ERR_DDR_ZERO"} \cap Errors = {}
           /\ "ERR_EH2_INIT" \in Errors
  BY <1>1, <1>2, <1>6
<1>7. CASE /\ {"ERR_OTHER", "ERR_INFO_TX_FIFO", "ERR_DDR_ZERO", "ERR_EH2_INIT"} \cap Errors = {}
           /\ "ERR_PROGRAM_SEQUENCE" \in Errors
  BY <1>1, <1>2, <1>7
<1>8. CASE Errors \subseteq {"ERR_PROGRAM_WRITE"}
  <2>1. PICK c \in Errors : c = "ERR_PROGRAM_WRITE"
    BY <1>8
  <2> QED
    BY <1>2, <1>8, <2>1
<1> QED
  BY <1>1, <1>3, <1>4, <1>5, <1>6, <1>7, <1>8

(* The tracker holds statuses of the harts only.                            *)
LEMMA TrackedSets ==
    ASSUME NEW in, ctl.pending \subseteq HartStatuses, ctl.sent \subseteq HartStatuses
    PROVE  Tracked(in).pending \subseteq HartStatuses /\ Tracked(in).sent \subseteq HartStatuses
BY DEF Tracked, Raised

(* A move keeps every register in its range.                                *)
LEMMA MovedRegisters ==
    ASSUME Registers, NEW late, Moved(Sampled(late)), IdleGuard \in Nat, CountGuard \in Nat
    PROVE  /\ ctl'.state \in States
           /\ ctl'.pulses \subseteq Pulses /\ ctl'.push \in StatusCodes \cup {NoCode}
           /\ ctl'.counter \in Nat
           /\ ctl'.fail \subseteq {"INSTR", "DATA"}
           /\ ctl'.pending \subseteq HartStatuses /\ ctl'.sent \subseteq HartStatuses
           /\ ctl'.captured \in ErrorCodes \cup {NoCode, "INSTR_FAIL", "DATA_FAIL"}
           /\ ctl'.state = "ERROR" => ctl'.captured # NoCode
           /\ LegalPhase'
<1> DEFINE in == Sampled(late)
<1>0. (in.fatal <=> alarm.pending # NoCode) /\ in.fatalCode = alarm.pending
  BY Sampling
<1>m. Moved(in)
  OBVIOUS
<1> HIDE DEF in
<1>t. Tracked(in).pending \subseteq HartStatuses /\ Tracked(in).sent \subseteq HartStatuses
  BY TrackedSets DEF Registers
<1>p. Tracked(in).push \in HartStatuses \cup {NoCode}
  BY TrackedPush
<1> USE <1>m DEF Moved, PreMoves, ReadyMoves, ProgMoves, ExecMoves, EndMoves, ResetMoves, FatalMoves, ErrorMoves
<1>s. ctl'.state \in States
  BY DEF Moves, Enters, Stays, Errs, ExecPhase, States, Registers
<1>1. ctl'.pulses \subseteq Pulses
  BY DEF Moves, Enters, Stays, Errs, ExecPhase, Pulses
<1>2. ctl'.push \in StatusCodes \cup {NoCode}
  BY <1>p DEF Moves, Enters, Stays, Errs, ExecPhase, Tracks, Sends, StatusCodes, Verdict, Registers
<1>3. ctl'.counter \in Nat
  BY SMTT(30) DEF Registers, SameCounter
<1>5. ctl'.fail \subseteq {"INSTR", "DATA"}
  BY DEF Registers, Judges
<1>6. ctl'.pending \subseteq HartStatuses /\ ctl'.sent \subseteq HartStatuses
  BY <1>t DEF Registers, Cleared, Tracks
<1>7. ctl'.captured \in ErrorCodes \cup {NoCode, "INSTR_FAIL", "DATA_FAIL"}
  BY <1>0 DEF Registers, Captures, Errs, ErrorCodes, Moves, Enters, Stays, ExecPhase
<1>8. ctl'.state = "ERROR" => ctl'.captured # NoCode
  BY <1>0 DEF Registers, Captures, Errs, ErrorCodes, NoCode, Moves, Enters, Stays, ExecPhase
<1>9. LegalPhase'
  BY SMTT(30) DEF Registers, LegalPhase, Moves, Enters, Stays, Errs, ExecPhase
<1> QED
  BY <1>s, <1>1, <1>2, <1>3, <1>5, <1>6, <1>7, <1>8, <1>9

(* Every step keeps every register in its range.                            *)
LEMMA NextRegisters == SessionInv /\ [Next]_vars => Registers'
<1> SUFFICES ASSUME SessionInv, [Next]_vars PROVE Registers'
  OBVIOUS
<1>1. CASE Tick
  <2>1. PICK late \in Skews : Moved(Sampled(late))
    BY <1>1, TickMove
  <2>2. alarm'.pending \in ErrorCodes \cup {NoCode}
    <3>1. alarm'.pending = IF alarm.pending # NoCode \/ Errors = {} THEN alarm.pending
                           ELSE CHOOSE c \in Errors : \A d \in Errors : Rank[c] <= Rank[d]
      BY <1>1 DEF Tick, AlarmEdge, SessionInv, Shapes, AlarmInitial
    <3>2. Errors \subseteq ErrorCodes
      BY DEF Errors
    <3>3. Errors # {} => (CHOOSE c \in Errors : \A d \in Errors : Rank[c] <= Rank[d]) \in Errors
      BY FirstError
    <3> QED
      BY <3>1, <3>2, <3>3 DEF SessionInv, Registers
  <2> QED
    BY <2>1, <2>2, MovedRegisters, ControllerAssumption DEF Registers, SessionInv, LegalPhase
<1>2. CASE Restart
  BY <1>2 DEF Restart, Registers, InitialRegisters, AlarmInitial, LegalPhase, NoCode, States
<1>3. CASE Between
  <2>1. alarm'.pending = alarm.pending
    BY <1>3 DEF SessionInv, Shapes, Between, Receiving, SendInfo, FrameLeaves, DumpBegins, SendLog, DumpEnds,
                Operating, Computing, Answers, Faulting, OtherFault, AlarmInitial
  <2> QED
    BY <1>3, <2>1 DEF Between, SessionInv, Registers, LegalPhase
<1>4. CASE UNCHANGED vars
  BY <1>4 DEF vars, board, Registers, SessionInv, LegalPhase
<1> QED
  BY <1>1, <1>2, <1>3, <1>4, OtherStep DEF Next, Clock

(* A sequence with one more element.                                        *)
LEMMA Appended ==
    ASSUME NEW S, NEW s \in Seq(S), NEW x \in S
    PROVE  Append(s, x) \in Seq(S) /\ Len(Append(s, x)) = Len(s) + 1
OBVIOUS

(* A queue that is not full has room for one more.                          *)
LEMMA Room ==
    ASSUME NEW n \in Nat, n <= InfoDepth, n # InfoDepth
    PROVE  n + 1 <= InfoDepth
BY DEF InfoDepth

(* Every step keeps the information path within its depth.                  *)
LEMMA NextCodes == SessionInv /\ [Next]_vars => Codes'
<1> SUFFICES ASSUME SessionInv, [Next]_vars PROVE Codes'
  OBVIOUS
<1>0. /\ link.fifo \in Seq(StatusCodes) /\ link.acks \in Seq(StatusCodes)
      /\ Len(link.fifo) <= InfoDepth
  BY DEF SessionInv, Codes
<1> USE <1>0 DEF Codes
<1>1. CASE Tick
  <2>1. /\ link'.fifo = IF ctl.push = NoCode \/ Len(link.fifo) = InfoDepth THEN link.fifo
                        ELSE Append(link.fifo, ctl.push)
        /\ link'.acks = IF link.acks = <<>> THEN link.acks ELSE Tail(link.acks)
    BY <1>1 DEF Tick, LinkEdge, SessionInv, Shapes, LinkInitial
  <2>2. CASE ctl.push = NoCode \/ Len(link.fifo) = InfoDepth
    BY <2>1, <2>2
  <2>3. CASE ctl.push # NoCode /\ Len(link.fifo) # InfoDepth
    <3>1. ctl.push \in StatusCodes /\ link'.fifo = Append(link.fifo, ctl.push)
      BY <2>1, <2>3 DEF Registers, SessionInv
    <3>2. link'.fifo \in Seq(StatusCodes) /\ Len(link'.fifo) = Len(link.fifo) + 1
      BY <3>1, Appended
    <3>3. Len(link.fifo) \in Nat
      OBVIOUS
    <3>4. Len(link'.fifo) <= InfoDepth
      BY <2>3, <3>2, <3>3, Room
    <3> QED
      BY <2>1, <3>2, <3>4
  <2> QED
    BY <2>2, <2>3
<1>2. CASE Restart
  BY <1>2 DEF Restart, LinkInitial, InfoDepth
<1>3. CASE SendInfo
  <2>1. /\ link.fifo # <<>> /\ link'.fifo = Tail(link.fifo)
        /\ link'.acks = Append(link.acks, Head(link.fifo))
    BY <1>3 DEF SendInfo
  <2> QED
    BY <2>1 DEF InfoDepth
<1>4. CASE UNCHANGED link
  BY <1>4
<1> QED
  BY <1>1, <1>2, <1>3, <1>4, OtherStep
     DEF Next, Clock, vars, board, Between, Receiving, FrameLeaves, DumpBegins, SendLog, DumpEnds,
         Operating, Computing, Answers, Faulting

(* ----------------------------- arithmetic of the counters ---------------- *)

(* One more frame submitted, one more completed: the distance, modulo Counts,*)
(* grows and shrinks by one.                                                 *)
LEMMA Distance ==
    ASSUME NEW a \in 0 .. Counts - 1, NEW b \in 0 .. Counts - 1
    PROVE  (a - b) % Counts = IF a >= b THEN a - b ELSE a - b + Counts
BY ControllerAssumption

(* A frame counter wraps at its modulus.                                    *)
LEMMA Successor ==
    ASSUME NEW a \in 0 .. Counts - 1
    PROVE  (a + 1) % Counts = IF a = Counts - 1 THEN 0 ELSE a + 1
BY ControllerAssumption

(* Handing a frame over keeps the distance of the counters within the depth. *)
LEMMA OneMore ==
    ASSUME NEW a \in 0 .. Counts - 1, NEW b \in 0 .. Counts - 1, (a - b) % Counts < MacDepth,
           NEW c, c = (a + 1) % Counts
    PROVE  c \in 0 .. Counts - 1 /\ (c - b) % Counts <= MacDepth
<1>1. Counts \in Nat \ {0} /\ MacDepth \in Nat \ {0} /\ Counts > 2 * MacDepth
  BY ControllerAssumption, SystemAssumption
<1>2. (a - b) % Counts = IF a >= b THEN a - b ELSE a - b + Counts
  BY Distance
<1>3. c = IF a = Counts - 1 THEN 0 ELSE a + 1
  BY Successor
<1>4. c \in 0 .. Counts - 1
  BY <1>1, <1>3
<1>5. (c - b) % Counts = IF c >= b THEN c - b ELSE c - b + Counts
  BY <1>4, Distance
<1> QED
  BY <1>1, <1>2, <1>3, <1>4, <1>5

(* A frame that leaves keeps it, too.                                       *)
LEMMA OneLess ==
    ASSUME NEW a \in 0 .. Counts - 1, NEW b \in 0 .. Counts - 1, a # b,
           (a - b) % Counts <= MacDepth, NEW c, c = (b + 1) % Counts
    PROVE  c \in 0 .. Counts - 1 /\ (a - c) % Counts <= MacDepth
<1>1. Counts \in Nat \ {0} /\ MacDepth \in Nat \ {0} /\ Counts > 2 * MacDepth
  BY ControllerAssumption, SystemAssumption
<1>2. (a - b) % Counts = IF a >= b THEN a - b ELSE a - b + Counts
  BY Distance
<1>3. c = IF b = Counts - 1 THEN 0 ELSE b + 1
  BY Successor
<1>4. c \in 0 .. Counts - 1
  BY <1>1, <1>3
<1>5. (a - c) % Counts = IF a >= c THEN a - c ELSE a - c + Counts
  BY <1>4, Distance
<1> QED
  BY <1>1, <1>2, <1>3, <1>4, <1>5

(* Every step keeps the frame counters within the depth of the MAC, also    *)
(* when one has wrapped and the other has not.                              *)
LEMMA NextTraffic == SessionInv /\ [Next]_vars => Traffic'
<1> SUFFICES ASSUME SessionInv, [Next]_vars PROVE Traffic'
  OBVIOUS
<1> USE DEF SessionInv, Traffic
<1>1. CASE Tick
  BY <1>1 DEF Tick, MacEdge, Shapes, MacInitial
<1>2. CASE Restart
  BY <1>2, ControllerAssumption, SystemAssumption DEF Restart, MacInitial
<1>3. CASE SendInfo \/ SendLog
  <2>1. /\ mac'.submitted = (mac.submitted + 1) % Counts /\ mac'.completed = mac.completed
        /\ (mac.submitted - mac.completed) % Counts < MacDepth
    BY <1>3 DEF SendInfo, SendLog, Submit, Shapes, MacInitial
  <2> QED
    BY <2>1, OneMore
<1>4. CASE FrameLeaves
  <2>1. /\ mac'.completed = (mac.completed + 1) % Counts /\ mac'.submitted = mac.submitted
        /\ mac.completed # mac.submitted
    BY <1>4 DEF FrameLeaves, Shapes, MacInitial
  <2> QED
    BY <2>1, OneLess
<1>5. CASE UNCHANGED mac
  BY <1>5
<1> QED
  BY <1>1, <1>2, <1>3, <1>4, <1>5, OtherStep
     DEF Next, Clock, vars, board, Between, Receiving, DumpBegins, DumpEnds,
         Operating, Computing, Answers, Faulting

(* An engine that ends has run. *)
LEMMA EngineEnds ==
    ASSUME NEW op \in DOMAIN FaultOf, FinishOp(op), DOMAIN ops = DOMAIN OpsInitial
    PROVE  \A o \in {"atg", "instr", "data", "zero"} :
              ops'[o] = ops[o] \/ (ops[o] = "RUN" /\ ops'[o] \in Ended)
<1>1. PICK r : r \in Ended /\ ops' = [ops EXCEPT ![op] = r, !.fresh = @ \cup {op}]
  BY DEF FinishOp, Outcomes, Ended
<1>2. op \in {"atg", "instr", "data", "zero"} /\ ops[op] = "RUN"
  BY DEF FaultOf, FinishOp
<1>3. {"atg", "instr", "data", "zero"} \subseteq DOMAIN ops
  BY DEF OpsInitial
<1> QED
  BY <1>1, <1>2, <1>3

(* Every step keeps the engines with the phases that steer them.            *)
LEMMA NextEngines == SessionInv /\ [Next]_vars => Engines' /\ Asked'
<1> SUFFICES ASSUME SessionInv, [Next]_vars PROVE Engines' /\ Asked'
  OBVIOUS
<1>0. Engines /\ Asked /\ DOMAIN ops = DOMAIN OpsInitial
  BY DEF SessionInv, Shapes
<1>1. CASE Tick
  <2>1. PICK late : Moved(Sampled(late))
    BY <1>1, TickMove
  <2> DEFINE in == Sampled(late)
  <2>2. /\ in.atgDone <=> ops.atg \in Ended
        /\ in.instrDone => ops.instr \in Ended
        /\ in.dataDone => ops.data \in Ended
        /\ in.zeroDone <=> ops.zero \in Ended
    BY Sampling
  <2>m. Moved(in)
    BY <2>1
  <2> HIDE DEF in
  <2>3. /\ ops'.atg = IF "atgStart" \in ctl.pulses THEN "RUN" ELSE ops.atg
        /\ ops'.instr = IF "checkStart" \in ctl.pulses THEN "RUN" ELSE ops.instr
        /\ ops'.data = IF "checkStart" \in ctl.pulses THEN "RUN" ELSE ops.data
        /\ ops'.zero = IF "zeroStart" \in ctl.pulses THEN "RUN" ELSE ops.zero
    BY <1>0, <1>1 DEF Tick, OpsEdge, Launch, OpsInitial
  <2> USE <1>0, <2>2, <2>3, <2>m DEF Moved, PreMoves, ReadyMoves, ProgMoves, ExecMoves, EndMoves, ResetMoves, FatalMoves, ErrorMoves, Moves, Stays, Enters, Errs, ExecPhase, Engines, Asked, In, Checking, Ended
  <2>4. /\ ops'.atg \in {"IDLE", "RUN", "PASS", "FAIL"}
        /\ ops'.instr \in {"IDLE", "RUN", "PASS", "FAIL"}
        /\ ops'.data \in {"IDLE", "RUN", "PASS", "FAIL"}
        /\ ops'.zero \in {"IDLE", "RUN", "PASS", "FAIL"}
    OBVIOUS
  <2>5. ctl'.state = "PRECONFIG" =>
          /\ ctl'.phase \in {0, 1} => ops'.atg = "IDLE"
          /\ Checking' => ops'.atg \in Ended
    OBVIOUS
  <2>6. ctl'.state = "PRECONFIG" =>
          /\ ~Checking' => ops'.instr = "IDLE" /\ ops'.data = "IDLE"
          /\ ctl'.phase \in {4, 5} => ops'.instr \in Ended /\ ops'.data \in Ended
          /\ ops'.zero = "IDLE"
    OBVIOUS
  <2>7. ctl'.state \notin {"PRECONFIG", "ERROR"} =>
          ops'.atg \in Ended /\ ops'.instr \in Ended /\ ops'.data \in Ended
    OBVIOUS
  <2>8. /\ In("READY", {0})' => ops'.zero = "IDLE"
        /\ ctl'.state = "READY" => ctl'.phase \in {0, 1} \/ ops'.zero \in Ended
    OBVIOUS
  <2>9. ctl'.state \in {"PROGRAM_WRITE", "EXECUTE", "END"} => ops'.zero \in Ended
    OBVIOUS
  <2>10. Asked'
    OBVIOUS
  <2> QED
    BY <2>4, <2>5, <2>6, <2>7, <2>8, <2>9, <2>10
<1>2. CASE Restart
  BY <1>2 DEF Restart, InitialRegisters, OpsInitial, Engines, Asked, In, Checking
<1>3. CASE BringUp \/ \E op \in DOMAIN FaultOf : FinishOp(op)
  <2>1. UNCHANGED ctl
    BY <1>3 DEF BringUp, FinishOp
  <2>2. /\ ops'.atg = ops.atg \/ (ops.atg = "RUN" /\ ops'.atg \in Ended)
        /\ ops'.instr = ops.instr \/ (ops.instr = "RUN" /\ ops'.instr \in Ended)
        /\ ops'.data = ops.data \/ (ops.data = "RUN" /\ ops'.data \in Ended)
        /\ ops'.zero = ops.zero \/ (ops.zero = "RUN" /\ ops'.zero \in Ended)
    <3>1. CASE BringUp
      BY <1>0, <3>1 DEF BringUp, OpsInitial
    <3>2. CASE \E op \in DOMAIN FaultOf : FinishOp(op)
      <4>1. \A o \in {"atg", "instr", "data", "zero"} :
              ops'[o] = ops[o] \/ (ops[o] = "RUN" /\ ops'[o] \in Ended)
        BY <1>0, <3>2, EngineEnds
      <4> QED
        BY <4>1
    <3> QED
      BY <1>3, <3>1, <3>2
  <2> QED
    BY <1>0, <2>1, <2>2 DEF Engines, Asked, In, Checking, Ended
<1>4. CASE UNCHANGED <<ctl, ops>>
  BY <1>0, <1>4 DEF Engines, Asked, In, Checking
<1> QED
  BY <1>1, <1>2, <1>3, <1>4, OtherStep
     DEF Next, Clock, vars, board, Between, Receiving, SendInfo, FrameLeaves, DumpBegins, SendLog, DumpEnds,
         Operating, Operate, Computing, Answers, Faulting

(* ---- the receive FIFO as a sequence ---- *)
LEMMA HeadAndTail ==
    ASSUME NEW S, NEW s \in Seq(S), s # <<>>
    PROVE  /\ Tail(s) \in Seq(S) /\ Len(Tail(s)) = Len(s) - 1 /\ Len(s) \in Nat \ {0}
           /\ Head(s) = s[1] /\ s[1] \in S
           /\ \A i \in 1 .. Len(s) - 1 : Tail(s)[i] = s[i + 1]
OBVIOUS

(* What is left of a queue of frames is in order; its end frame was the     *)
(* last.                                                                    *)
LEMMA OrderedTail ==
    ASSUME NEW s, Ordered(s), s # <<>>
    PROVE  /\ Ordered(Tail(s)) /\ Head(s) \in Frames
           /\ Head(s).kind = "PROGRAM" => Head(s).number < ProgramFrames
           /\ Head(s).kind = "END" => Dataless(Tail(s))
           /\ Dataless(s) => Dataless(Tail(s)) /\ ~DataFrame(Head(s))
           /\ Len(Tail(s)) = Len(s) - 1 /\ Len(s) \in Nat \ {0}
           /\ \A i \in 1 .. Len(s) - 1 : Tail(s)[i] = s[i + 1]
<1>0. s \in Seq(Frames)
  BY DEF Ordered
<1>1. /\ Tail(s) \in Seq(Frames) /\ Len(Tail(s)) = Len(s) - 1 /\ Len(s) \in Nat \ {0}
      /\ Head(s) = s[1] /\ s[1] \in Frames
      /\ \A i \in 1 .. Len(s) - 1 : Tail(s)[i] = s[i + 1]
  BY <1>0, HeadAndTail
<1>2. Ordered(Tail(s))
  <2>1. \A i \in 1 .. Len(Tail(s)) : Tail(s)[i].kind = "PROGRAM" => Tail(s)[i].number < ProgramFrames
    BY <1>1 DEF Ordered
  <2>2. ASSUME NEW i \in 1 .. Len(Tail(s)), Tail(s)[i].kind = "END", NEW j \in i + 1 .. Len(Tail(s))
        PROVE  ~DataFrame(Tail(s)[j])
    <3>1. i + 1 \in 1 .. Len(s) /\ j + 1 \in (i + 1) + 1 .. Len(s)
      BY <1>1
    <3>2. Tail(s)[i] = s[i + 1] /\ Tail(s)[j] = s[j + 1]
      BY <1>1
    <3> QED
      BY <2>2, <3>1, <3>2 DEF Ordered
  <2> QED
    BY <1>1, <2>1, <2>2 DEF Ordered
<1>3. Head(s).kind = "PROGRAM" => Head(s).number < ProgramFrames
  BY <1>1 DEF Ordered
<1>4. Head(s).kind = "END" => Dataless(Tail(s))
  <2>1. ASSUME s[1].kind = "END", NEW i \in 1 .. Len(Tail(s)) PROVE ~DataFrame(Tail(s)[i])
    <3>1. i + 1 \in 1 + 1 .. Len(s) /\ 1 \in 1 .. Len(s) /\ Tail(s)[i] = s[i + 1]
      BY <1>1
    <3> QED
      BY <2>1, <3>1 DEF Ordered
  <2> QED
    BY <1>1, <2>1 DEF Dataless
<1>5. Dataless(s) => Dataless(Tail(s)) /\ ~DataFrame(Head(s))
  BY <1>1 DEF Dataless
<1> QED
  BY <1>1, <1>2, <1>3, <1>4, <1>5

(* A control frame of the host does not disturb the order.                  *)
LEMMA OrderedAppend ==
    ASSUME NEW s, Ordered(s), NEW f \in Frames, ~DataFrame(f)
    PROVE  /\ Ordered(Append(s, f))
           /\ Dataless(s) => Dataless(Append(s, f))
           /\ Len(Append(s, f)) = Len(s) + 1 /\ Len(s) \in Nat
           /\ \A i \in 1 .. Len(s) : Append(s, f)[i] = s[i]
           /\ Append(s, f)[Len(s) + 1] = f
<1> DEFINE t == Append(s, f)
<1>1. /\ t \in Seq(Frames) /\ Len(t) = Len(s) + 1 /\ Len(s) \in Nat
      /\ \A i \in 1 .. Len(s) : t[i] = s[i]
      /\ t[Len(s) + 1] = f
  BY DEF Ordered
<1> HIDE DEF t
<1>2. \A i \in 1 .. Len(t) : t[i].kind = "PROGRAM" => t[i].number < ProgramFrames
  <2>1. ASSUME NEW i \in 1 .. Len(t), t[i].kind = "PROGRAM" PROVE t[i].number < ProgramFrames
    <3>1. i \in 1 .. Len(s) /\ t[i] = s[i]
      BY <1>1, <2>1 DEF DataFrame
    <3> QED
      BY <2>1, <3>1 DEF Ordered
  <2> QED
    BY <2>1
<1>3. ASSUME NEW i \in 1 .. Len(t), t[i].kind = "END", NEW j \in i + 1 .. Len(t)
      PROVE  ~DataFrame(t[j])
  <2>1. i \in 1 .. Len(s) /\ t[i] = s[i]
    BY <1>1, <1>3 DEF DataFrame
  <2>2. CASE j = Len(s) + 1
    BY <1>1, <2>2
  <2>3. CASE j # Len(s) + 1
    <3>1. j \in i + 1 .. Len(s) /\ t[j] = s[j]
      BY <1>1, <1>3, <2>1, <2>3
    <3> QED
      BY <1>3, <2>1, <3>1 DEF Ordered
  <2> QED
    BY <2>2, <2>3
<1>4. Dataless(s) => Dataless(t)
  BY <1>1 DEF Dataless
<1> QED
  BY <1>1, <1>2, <1>3, <1>4 DEF Ordered, t

(* A program behind frames that carry no data is in order.                  *)
LEMMA OrderedConcat ==
    ASSUME NEW s, Ordered(s), Dataless(s), NEW t, Ordered(t)
    PROVE  /\ Ordered(s \o t) /\ Len(s \o t) = Len(s) + Len(t) /\ Len(s) \in Nat /\ Len(t) \in Nat
           /\ \A i \in 1 .. Len(s) : (s \o t)[i] = s[i]
           /\ \A i \in 1 .. Len(t) : (s \o t)[Len(s) + i] = t[i]
<1> DEFINE u == s \o t
<1>0. s \in Seq(Frames) /\ t \in Seq(Frames)
  BY DEF Ordered
<1>1. /\ u \in Seq(Frames) /\ Len(u) = Len(s) + Len(t) /\ Len(s) \in Nat /\ Len(t) \in Nat
      /\ \A i \in 1 .. Len(s) + Len(t) : u[i] = IF i <= Len(s) THEN s[i] ELSE t[i - Len(s)]
  BY <1>0
<1>2. \A i \in 1 .. Len(t) : u[Len(s) + i] = t[i]
  BY <1>1
<1> HIDE DEF u
<1>3. ASSUME NEW i \in 1 .. Len(u), u[i].kind = "PROGRAM" PROVE u[i].number < ProgramFrames
  <2>1. CASE i <= Len(s)
    BY <1>1, <1>3, <2>1 DEF Ordered
  <2>2. CASE ~(i <= Len(s))
    <3>1. i - Len(s) \in 1 .. Len(t) /\ u[i] = t[i - Len(s)]
      BY <1>1, <2>2
    <3> QED
      BY <1>3, <3>1 DEF Ordered
  <2> QED
    BY <2>1, <2>2
<1>4. ASSUME NEW i \in 1 .. Len(u), u[i].kind = "END", NEW j \in i + 1 .. Len(u)
      PROVE  ~DataFrame(u[j])
  <2>1. ~(i <= Len(s))
    BY <1>1, <1>4 DEF Dataless, DataFrame
  <2>2. /\ i - Len(s) \in 1 .. Len(t) /\ u[i] = t[i - Len(s)]
        /\ j - Len(s) \in (i - Len(s)) + 1 .. Len(t) /\ u[j] = t[j - Len(s)]
    BY <1>1, <2>1
  <2> QED
    BY <1>4, <2>2 DEF Ordered
<1> QED
  BY <1>1, <1>2, <1>3, <1>4 DEF Ordered, u

(* What is left of a sequence of frames that the network thinned out. *)
LEMMA OrderedThinned ==
    ASSUME NEW s, Ordered(s), NEW n \in 0 .. Len(s), NEW pick \in Thinnings(n, Len(s)),
           NEW t, t = [i \in 1 .. n |-> s[pick[i]]]
    PROVE  /\ Ordered(t) /\ Len(t) = n
           /\ \A i \in 1 .. n : pick[i] \in 1 .. Len(s) /\ t[i] = s[pick[i]]
<1>0. s \in Seq(Frames) /\ Len(s) \in Nat /\ n \in Nat
  BY DEF Ordered
<1>1. /\ pick \in [1 .. n -> 1 .. Len(s)]
      /\ \A i, j \in 1 .. n : i < j => pick[i] < pick[j]
  BY DEF Thinnings
<1>2. \A i \in 1 .. n : pick[i] \in 1 .. Len(s) /\ t[i] = s[pick[i]] /\ t[i] \in Frames
  BY <1>0, <1>1
<1>3. t \in Seq(Frames) /\ Len(t) = n
  BY <1>0, <1>2
<1>4. ASSUME NEW i \in 1 .. n, t[i].kind = "PROGRAM" PROVE t[i].number < ProgramFrames
  BY <1>2, <1>4 DEF Ordered
<1>5. ASSUME NEW i \in 1 .. n, t[i].kind = "END", NEW j \in i + 1 .. n
      PROVE  ~DataFrame(t[j])
  <2>1. /\ j \in 1 .. n /\ pick[i] \in 1 .. Len(s) /\ pick[j] \in 1 .. Len(s)
        /\ pick[i] < pick[j]
    BY <1>0, <1>1
  <2>2. pick[j] \in pick[i] + 1 .. Len(s)
    BY <2>1, <1>0
  <2> QED
    BY <1>2, <1>5, <2>1, <2>2 DEF Ordered
<1> QED
  BY <1>2, <1>3, <1>4, <1>5 DEF Ordered

(* A command of the host is a frame.                                        *)
LEMMA ControlFrame ==
    ASSUME NEW k \in {"END", "RESET", "RETRANSMIT"} PROVE Control(k) \in Frames
BY DEF Control, Frames

(* What the host sends is in order. *)
LEMMA TestOrdered ==
    /\ Ordered(<<Test(0), End(1)>>) /\ Len(<<Test(0), End(1)>>) = 2
    /\ <<Test(0), End(1)>>[1] = Test(0) /\ <<Test(0), End(1)>>[2] = End(1)
<1> DEFINE s == <<Test(0), End(1)>>
<1>1. Len(s) = 2 /\ s[1] = Test(0) /\ s[2] = End(1)
  OBVIOUS
<1>2. Test(0) \in Frames /\ End(1) \in Frames
  BY DEF Test, End, Frames
<1>3. s \in Seq(Frames)
  BY <1>2
<1> HIDE DEF s
<1> QED
  BY <1>1, <1>3, SystemAssumption DEF s, Ordered, Test, End

(* The program as the host sends it.                                        *)
SentProgram == [i \in 1 .. ProgramFrames + 1 |->
                  IF i <= ProgramFrames THEN Program(i - 1) ELSE End(ProgramFrames)]

(* It is in order.                                                          *)
LEMMA ProgramOrdered ==
    /\ Ordered(SentProgram) /\ Len(SentProgram) = ProgramFrames + 1
    /\ \A i \in 1 .. ProgramFrames + 1 :
          SentProgram[i] = IF i <= ProgramFrames THEN Program(i - 1) ELSE End(ProgramFrames)
<1>0. ProgramFrames \in Nat
  BY SystemAssumption
<1>1. ASSUME NEW i \in 1 .. ProgramFrames + 1 PROVE SentProgram[i] \in Frames
  BY <1>0, <1>1 DEF SentProgram, Program, End, Frames
<1>2. SentProgram \in Seq(Frames) /\ Len(SentProgram) = ProgramFrames + 1
  BY <1>0, <1>1 DEF SentProgram
<1>3. ASSUME NEW i \in 1 .. Len(SentProgram), SentProgram[i].kind = "PROGRAM"
      PROVE  SentProgram[i].number < ProgramFrames
  BY <1>0, <1>2, <1>3 DEF SentProgram, Program, End
<1>4. ASSUME NEW i \in 1 .. Len(SentProgram), SentProgram[i].kind = "END",
             NEW j \in i + 1 .. Len(SentProgram)
      PROVE  FALSE
  BY <1>0, <1>2, <1>4 DEF SentProgram, Program, End
<1> QED
  BY <1>0, <1>2, <1>3, <1>4 DEF Ordered, SentProgram

(* A write puts one frame in its place and leaves the others.               *)
LEMMA StoredType ==
    ASSUME NEW S, NEW d \in Seq(S), NEW f, f.number \in Nat, f.image \in S, "NONE" \in S
    PROVE  /\ Stored(d, f) \in Seq(S)
           /\ Len(Stored(d, f)) = IF Len(d) > f.number THEN Len(d) ELSE f.number + 1
           /\ Len(d) \in Nat
           /\ \A i \in 1 .. Len(Stored(d, f)) :
                 Stored(d, f)[i] = IF i = f.number + 1 THEN f.image
                                   ELSE IF i <= Len(d) THEN d[i] ELSE "NONE"
<1> DEFINE n == IF Len(d) > f.number THEN Len(d) ELSE f.number + 1
<1>1. n \in Nat /\ Len(d) \in Nat
  OBVIOUS
<1>2. Stored(d, f) = [i \in 1 .. n |-> IF i = f.number + 1 THEN f.image
                                      ELSE IF i <= Len(d) THEN d[i] ELSE "NONE"]
  BY DEF Stored
<1> HIDE DEF n
<1>3. ASSUME NEW i \in 1 .. n PROVE Stored(d, f)[i] \in S
  <2>1. i <= Len(d) => d[i] \in S
    BY <1>1, <1>3
  <2> QED
    BY <1>2, <1>3, <2>1
<1>4. Stored(d, f) \in Seq(S) /\ Len(Stored(d, f)) = n
  BY <1>1, <1>2, <1>3
<1> QED
  BY <1>1, <1>2, <1>4 DEF n

(* Each frame that was taken is moved, stored and counted once.             *)
LEMMA NextCounting ==
    ASSUME DOMAIN rx = DOMAIN RxInitial, Counting, Ordered(rx.inbox),
           \/ Receiving \/ Answers \/ (\E clear \in BOOLEAN : RxEdge(clear)) \/ UNCHANGED rx
    PROVE  Counting'
<1> USE SystemAssumption DEF Counting, RxInitial, DmaBusy, Pending
<1>1. CASE SwallowProgram(Open)
  BY <1>1 DEF SwallowProgram
<1>2. CASE TakeProgram(Open)
  <2>1. /\ Head(rx.inbox) \in Frames
        /\ Head(rx.inbox).kind = "PROGRAM" => Head(rx.inbox).number < ProgramFrames
    BY <1>2, OrderedTail DEF TakeProgram, Waiting
  <2> DEFINE f == Head(rx.inbox)
  <2>2. f.kind = "PROGRAM" /\ ~DmaBusy
    BY <1>2 DEF TakeProgram, Waiting
  <2>3. \/ f.number = rx.frames /\ rx' = [rx EXCEPT !.inbox = Tail(@), !.dma = "MOVE", !.frame = f, !.wrote = FALSE]
        \/ rx' = [rx EXCEPT !.inbox = Tail(@), !.errors = @ \cup {"SEQUENCE"}]
    BY <1>2 DEF TakeProgram
  <2> HIDE DEF f
  <2>4. CASE f.number = rx.frames /\ rx' = [rx EXCEPT !.inbox = Tail(@), !.dma = "MOVE", !.frame = f, !.wrote = FALSE]
    BY <2>1, <2>2, <2>4 DEF f
  <2>5. CASE rx' = [rx EXCEPT !.inbox = Tail(@), !.errors = @ \cup {"SEQUENCE"}]
    BY <2>5
  <2> QED
    BY <2>3, <2>4, <2>5
<1>3. CASE TakeControl
  <2>1. Head(rx.inbox) \in Frames
    BY <1>3, OrderedTail DEF TakeControl, Waiting
  <2>2. Head(rx.inbox).number \in Nat
    BY <2>1 DEF Frames
  <2> QED
    BY <1>3, <2>2 DEF TakeControl
<1>4. CASE AcceptWrite
  BY <1>4 DEF AcceptWrite
<1>5. CASE MovePayload
  BY <1>5 DEF MovePayload
<1>6. CASE \E r \in Outcomes("STATUS") : TakeStatus(r = "PASS")
  <2>1. PICK ok \in BOOLEAN : TakeStatus(ok)
    BY <1>6
  <2>2. rx.frame.number \in Nat /\ rx.frame.image \in {"TEST", "PROGRAM", "NONE"}
    BY DEF Frames, NoFrame, Control
  <2>3. Stored(rx.ddr0, rx.frame) \in Seq({"TEST", "PROGRAM", "NONE"})
    BY <2>2, StoredType
  <2>4. NoFrame \in Frames \cup {NoFrame}
    OBVIOUS
  <2>5. CASE ok
    BY <2>1, <2>3, <2>4, <2>5 DEF TakeStatus
  <2>6. CASE ~ok
    BY <2>1, <2>4, <2>6 DEF TakeStatus
  <2> QED
    BY <2>5, <2>6
<1>7. CASE Answers
  <2>1. rx' = [rx EXCEPT !.inbox = rx'.inbox]
    BY <1>7 DEF Answers, SendTest, SendProgram, Deliver, RequestReplay, RequestReset, Command
  <2> QED
    BY <2>1
<1>8. ASSUME NEW clear \in BOOLEAN, RxEdge(clear) PROVE Counting'
  <2> DEFINE e == [rx EXCEPT
                !.firstWrite = FALSE, !.done = FALSE, !.end = FALSE, !.reset = FALSE,
                !.doneCount = IF rx.done /\ "WRITE" \notin rx.errors THEN @ + 1 ELSE @]
  <2>1. rx' = IF clear
              THEN [e EXCEPT !.dma = "IDLE", !.frame = NoFrame, !.wrote = FALSE,
                             !.frames = 0, !.doneCount = 0, !.errors = {}]
              ELSE e
    BY <1>8 DEF RxEdge
  <2>2. CASE ~clear
    BY <2>1, <2>2
  <2>3. CASE clear
    BY <2>1, <2>3
  <2> QED
    BY <2>2, <2>3
<1>9. CASE UNCHANGED rx
  BY <1>9
<1> QED
  BY <1>1, <1>2, <1>3, <1>4, <1>5, <1>6, <1>7, <1>8, <1>9
     DEF Receiving, Receive, ReceiveFrame, WriteBegins, PayloadMoved, WriteEnds

(* What the host sends arrives behind what is waiting, in order. *)
LEMMA Delivery ==
    ASSUME NEW frames, Ordered(frames), Deliver(frames), Ordered(rx.inbox), NoData,
           DOMAIN rx = DOMAIN RxInitial, DOMAIN host = DOMAIN HostInitial
    PROVE  /\ Ordered(rx'.inbox) /\ Len(rx.inbox) \in Nat
           /\ \A i \in 1 .. Len(rx'.inbox) :
                 \/ i \in 1 .. Len(rx.inbox) /\ rx'.inbox[i] = rx.inbox[i]
                 \/ \E k \in 1 .. Len(frames) : rx'.inbox[i] = frames[k]
           /\ host'.test = TRUE /\ host'.program = (heard.last = "READY")
<1>1. PICK n \in 0 .. Len(frames) : \E pick \in Thinnings(n, Len(frames)) :
        /\ rx' = [rx EXCEPT !.inbox = @ \o [i \in 1 .. n |-> frames[pick[i]]]]
        /\ host' = [host EXCEPT !.lost = @ + Len(frames) - n,
                                !.test = TRUE, !.program = heard.last = "READY"]
  BY DEF Deliver
<1>2. PICK pick \in Thinnings(n, Len(frames)) :
        /\ rx' = [rx EXCEPT !.inbox = @ \o [i \in 1 .. n |-> frames[pick[i]]]]
        /\ host' = [host EXCEPT !.lost = @ + Len(frames) - n,
                                !.test = TRUE, !.program = heard.last = "READY"]
  BY <1>1
<1> DEFINE t == [i \in 1 .. n |-> frames[pick[i]]]
<1>3. /\ Ordered(t) /\ Len(t) = n
      /\ \A i \in 1 .. n : pick[i] \in 1 .. Len(frames) /\ t[i] = frames[pick[i]]
  BY OrderedThinned
<1>4. rx'.inbox = rx.inbox \o t
  BY <1>2 DEF RxInitial
<1> HIDE DEF t
<1>5. /\ Ordered(rx.inbox \o t) /\ Len(rx.inbox \o t) = Len(rx.inbox) + Len(t)
      /\ Len(rx.inbox) \in Nat /\ Len(t) \in Nat
      /\ \A i \in 1 .. Len(rx.inbox) : (rx.inbox \o t)[i] = rx.inbox[i]
      /\ \A i \in 1 .. Len(t) : (rx.inbox \o t)[Len(rx.inbox) + i] = t[i]
  <2> DEFINE s == rx.inbox
  <2>1. Ordered(s) /\ Dataless(s) /\ Ordered(t)
    BY <1>3 DEF NoData
  <2> HIDE DEF s
  <2>2. /\ Ordered(s \o t) /\ Len(s \o t) = Len(s) + Len(t)
        /\ Len(s) \in Nat /\ Len(t) \in Nat
        /\ \A i \in 1 .. Len(s) : (s \o t)[i] = s[i]
        /\ \A i \in 1 .. Len(t) : (s \o t)[Len(s) + i] = t[i]
    BY <2>1, OrderedConcat
  <2> QED
    BY <2>2 DEF s
<1>6. ASSUME NEW i \in 1 .. Len(rx'.inbox)
      PROVE  \/ i \in 1 .. Len(rx.inbox) /\ rx'.inbox[i] = rx.inbox[i]
             \/ \E k \in 1 .. Len(frames) : rx'.inbox[i] = frames[k]
  <2>1. CASE i <= Len(rx.inbox)
    BY <1>4, <1>5, <1>6, <2>1
  <2>2. CASE ~(i <= Len(rx.inbox))
    <3>1. i - Len(rx.inbox) \in 1 .. Len(t) /\ i = Len(rx.inbox) + (i - Len(rx.inbox))
      BY <1>4, <1>5, <1>6, <2>2
    <3>2. rx'.inbox[i] = t[i - Len(rx.inbox)]
      BY <1>4, <1>5, <3>1
    <3> QED
      BY <1>3, <3>1, <3>2
  <2> QED
    BY <2>1, <2>2
<1>7. host'.test = TRUE /\ host'.program = (heard.last = "READY")
  BY <1>2 DEF HostInitial
<1> QED
  BY <1>4, <1>5, <1>6, <1>7

(* What arrives of the test leaves the receiver as it was.                  *)
LEMMA TestArrives ==
    ASSUME SendTest, Ordered(rx.inbox), NoData,
           DOMAIN rx = DOMAIN RxInitial, DOMAIN host = DOMAIN HostInitial
    PROVE  /\ Ordered(rx'.inbox) /\ ~host.test /\ heard.last = "PREINIT_DONE"
           /\ host'.test /\ ~host'.program
           /\ \A f \in DOMAIN rx : f # "inbox" => rx'[f] = rx[f]
<1>1. Deliver(<<Test(0), End(1)>>) /\ ~host.test /\ heard.last = "PREINIT_DONE"
  BY DEF SendTest
<1>2. Ordered(rx'.inbox) /\ host'.test = TRUE /\ host'.program = (heard.last = "READY")
  BY <1>1, TestOrdered, Delivery
<1> QED
  BY <1>1, <1>2 DEF Deliver

(* What arrives of the program is of the program and declares its length.   *)
LEMMA ProgramArrives ==
    ASSUME SendProgram, Ordered(rx.inbox), NoData,
           DOMAIN rx = DOMAIN RxInitial, DOMAIN host = DOMAIN HostInitial
    PROVE  /\ Ordered(rx'.inbox) /\ ~host.program /\ heard.last = "READY"
           /\ host'.test /\ host'.program
           /\ \A i \in 1 .. Len(rx'.inbox) :
                 /\ rx'.inbox[i].kind = "PROGRAM" => rx'.inbox[i].image = "PROGRAM"
                 /\ rx'.inbox[i].kind = "END" => rx'.inbox[i].number = ProgramFrames
           /\ \A f \in DOMAIN rx : f # "inbox" => rx'[f] = rx[f]
<1>1. Deliver(SentProgram) /\ ~host.program /\ heard.last = "READY"
  BY DEF SendProgram, SentProgram
<1>2. /\ Ordered(rx'.inbox) /\ Len(rx.inbox) \in Nat
      /\ \A i \in 1 .. Len(rx'.inbox) :
            \/ i \in 1 .. Len(rx.inbox) /\ rx'.inbox[i] = rx.inbox[i]
            \/ \E k \in 1 .. Len(SentProgram) : rx'.inbox[i] = SentProgram[k]
      /\ host'.test = TRUE /\ host'.program = (heard.last = "READY")
  BY <1>1, ProgramOrdered, Delivery
<1>3. ASSUME NEW i \in 1 .. Len(rx'.inbox)
      PROVE  /\ rx'.inbox[i].kind = "PROGRAM" => rx'.inbox[i].image = "PROGRAM"
             /\ rx'.inbox[i].kind = "END" => rx'.inbox[i].number = ProgramFrames
  <2>1. CASE i \in 1 .. Len(rx.inbox) /\ rx'.inbox[i] = rx.inbox[i]
    BY <2>1 DEF NoData, Dataless, DataFrame
  <2>2. CASE \E k \in 1 .. Len(SentProgram) : rx'.inbox[i] = SentProgram[k]
    BY <2>2, ProgramOrdered DEF Program, End
  <2> QED
    BY <1>2, <1>3, <2>1, <2>2
<1> QED
  BY <1>1, <1>2, <1>3 DEF Deliver

(* A command adds no data.                                                  *)
LEMMA CommandArrives ==
    ASSUME RequestReplay \/ RequestReset, Ordered(rx.inbox),
           DOMAIN rx = DOMAIN RxInitial, DOMAIN host = DOMAIN HostInitial
    PROVE  /\ Ordered(rx'.inbox)
           /\ NoData => NoData'
           /\ \A i \in 1 .. Len(rx'.inbox) :
                 \/ ~DataFrame(rx'.inbox[i])
                 \/ i \in 1 .. Len(rx.inbox) /\ rx'.inbox[i] = rx.inbox[i]
           /\ host'.test = host.test /\ host'.program = host.program
           /\ \A f \in DOMAIN rx : f # "inbox" => rx'[f] = rx[f]
<1>1. PICK kind \in {"RETRANSMIT", "RESET"} : Command(kind)
  BY DEF RequestReplay, RequestReset
<1> DEFINE c == Control(kind)
<1>2. c \in Frames /\ ~DataFrame(c)
  BY ControlFrame DEF DataFrame, Control
<1>3. rx' = [rx EXCEPT !.inbox = Append(@, c)]
  BY <1>1 DEF Command
<1> HIDE DEF c
<1>4. rx'.inbox = Append(rx.inbox, c)
  BY <1>3 DEF RxInitial
<1>5. /\ Ordered(Append(rx.inbox, c))
      /\ Dataless(rx.inbox) => Dataless(Append(rx.inbox, c))
      /\ Len(Append(rx.inbox, c)) = Len(rx.inbox) + 1 /\ Len(rx.inbox) \in Nat
      /\ \A i \in 1 .. Len(rx.inbox) : Append(rx.inbox, c)[i] = rx.inbox[i]
      /\ Append(rx.inbox, c)[Len(rx.inbox) + 1] = c
  BY <1>2, OrderedAppend
<1>6. host'.test = host.test /\ host'.program = host.program
  BY DEF RequestReplay, RequestReset, HostInitial
<1>7. \A f \in DOMAIN rx : f # "inbox" => rx'[f] = rx[f]
  BY <1>3
<1>8. ASSUME NEW i \in 1 .. Len(rx'.inbox)
      PROVE  \/ ~DataFrame(rx'.inbox[i])
             \/ i \in 1 .. Len(rx.inbox) /\ rx'.inbox[i] = rx.inbox[i]
  <2>1. CASE i = Len(rx.inbox) + 1
    BY <1>2, <1>4, <1>5, <2>1
  <2>2. CASE i # Len(rx.inbox) + 1
    BY <1>4, <1>5, <1>8, <2>2
  <2> QED
    BY <2>1, <2>2
<1> QED
  BY <1>4, <1>5, <1>6, <1>7, <1>8 DEF NoData

(* A step of the receive side takes frames from the front. *)
LEMMA ReceiveInbox ==
    ASSUME Receiving, Ordered(rx.inbox), rx.end => NoData, DOMAIN rx = DOMAIN RxInitial
    PROVE  /\ Ordered(rx'.inbox)
           /\ NoData => NoData'
           /\ rx'.end => NoData'
           /\ NoData /\ ~rx.end => ~rx'.end
           /\ rx'.inbox = rx.inbox \/ (rx.inbox # <<>> /\ rx'.inbox = Tail(rx.inbox))
<1> USE DEF NoData
<1>1. CASE SwallowProgram(Open) \/ TakeProgram(Open)
  <2>1. rx.inbox # <<>> /\ rx'.inbox = Tail(rx.inbox) /\ rx'.end = rx.end
    BY <1>1 DEF SwallowProgram, TakeProgram, Waiting, RxInitial
  <2> QED
    BY <2>1, OrderedTail
<1>2. CASE TakeControl
  <2>1. /\ rx.inbox # <<>> /\ rx'.inbox = Tail(rx.inbox)
        /\ rx'.end = (Head(rx.inbox).kind = "END")
    BY <1>2 DEF TakeControl, Waiting, RxInitial
  <2>2. NoData => Head(rx.inbox).kind # "END"
    BY <2>1, HeadAndTail DEF Dataless, DataFrame, Ordered
  <2>3. NoData => NoData'
    BY <2>1, OrderedTail
  <2> QED
    BY <2>1, <2>2, <2>3, OrderedTail
<1>3. CASE rx'.inbox = rx.inbox /\ rx'.end = rx.end
  BY <1>3
<1>4. AcceptWrite \/ MovePayload \/ (\E r \in Outcomes("STATUS") : TakeStatus(r = "PASS"))
         => rx'.inbox = rx.inbox /\ rx'.end = rx.end
  BY DEF AcceptWrite, MovePayload, TakeStatus, RxInitial
<1> QED
  BY <1>1, <1>2, <1>3, <1>4 DEF Receiving, Receive, ReceiveFrame, WriteBegins, PayloadMoved, WriteEnds

(* The code READY is pushed in READY only. *)
LEMMA ReadyPushed ==
    ASSUME Registers, NEW in, Moved(in), ctl'.push = "READY"
    PROVE  ctl.state = "READY"
BY TrackedPush DEF Registers, Moved, PreMoves, ReadyMoves, ProgMoves, ExecMoves, EndMoves, ResetMoves,
       FatalMoves, ErrorMoves, Moves, Stays, Enters, Errs, Sends, Tracks, Verdict, NoCode, HartStatuses, ErrorCodes

(* What a clock edge does to the receive side.                              *)
LEMMA EdgeFields ==
    ASSUME Tick, DOMAIN rx = DOMAIN RxInitial
    PROVE  /\ rx'.inbox = rx.inbox /\ rx'.end = FALSE /\ rx'.done = FALSE /\ rx'.firstWrite = FALSE
           /\ rx'.ddr0 = rx.ddr0 /\ rx'.total = rx.total
           /\ "sessionClear" \notin ctl.pulses =>
                 /\ rx'.dma = rx.dma /\ rx'.frame = rx.frame /\ rx'.frames = rx.frames
                 /\ rx'.errors = rx.errors
                 /\ rx'.doneCount = IF rx.done /\ "WRITE" \notin rx.errors THEN rx.doneCount + 1
                                    ELSE rx.doneCount
           /\ "sessionClear" \in ctl.pulses =>
                 rx'.dma = "IDLE" /\ rx'.frames = 0 /\ rx'.doneCount = 0
<1> DEFINE e == [rx EXCEPT
                !.firstWrite = FALSE, !.done = FALSE, !.end = FALSE, !.reset = FALSE,
                !.doneCount = IF rx.done /\ "WRITE" \notin rx.errors THEN @ + 1 ELSE @]
           clear == "sessionClear" \in ctl.pulses
<1>1. rx' = IF clear
              THEN [e EXCEPT !.dma = "IDLE", !.frame = NoFrame, !.wrote = FALSE,
                             !.frames = 0, !.doneCount = 0, !.errors = {}]
              ELSE e
  BY DEF Tick, RxEdge
<1>2. CASE clear
  BY <1>1, <1>2 DEF RxInitial
<1>3. CASE ~clear
  BY <1>1, <1>3 DEF RxInitial
<1> QED
  BY <1>2, <1>3

(* A clock edge adds to the code FIFO at most the code that was pushed.     *)
LEMMA FifoEdge ==
    ASSUME Tick, Codes, Registers, DOMAIN link = DOMAIN LinkInitial
    PROVE  /\ Len(link.fifo) \in Nat
           /\ \A i \in 1 .. Len(link'.fifo) :
                 \/ i \in 1 .. Len(link.fifo) /\ link'.fifo[i] = link.fifo[i]
                 \/ ctl.push # NoCode /\ i = Len(link.fifo) + 1 /\ link'.fifo[i] = ctl.push
<1>1. link'.fifo = IF ctl.push = NoCode \/ Len(link.fifo) = InfoDepth THEN link.fifo
                   ELSE Append(link.fifo, ctl.push)
  BY DEF Tick, LinkEdge, LinkInitial
<1>2. link.fifo \in Seq(StatusCodes)
  BY DEF Codes
<1>3. CASE ctl.push = NoCode \/ Len(link.fifo) = InfoDepth
  BY <1>1, <1>2, <1>3
<1>4. CASE ctl.push # NoCode /\ Len(link.fifo) # InfoDepth
  BY <1>1, <1>2, <1>4 DEF Registers
<1> QED
  BY <1>3, <1>4

(* What a listener hears last. *)
LEMMA HeardLast ==
    ASSUME NEW h, DOMAIN h = DOMAIN Silence, NEW code
    PROVE  /\ Hear(h, code).last \in {h.last, code}
           /\ code = "LOG" => Hear(h, code).last = h.last
<1> DEFINE g == [h EXCEPT !.turn = ~@]
<1>1. DOMAIN g = DOMAIN Silence /\ g.last = h.last
  BY DEF Silence
<1>2. \/ Hear(h, code) = [g EXCEPT !.harts = @ \cup {code}]
      \/ Hear(h, code) = [g EXCEPT !.error = code]
      \/ Hear(h, code) = [g EXCEPT !.logs = @ + 1]
      \/ Hear(h, code) = [g EXCEPT !.last = code, !.logs = 0] /\ code = "RETRANSMIT_BEGIN"
      \/ Hear(h, code) = [g EXCEPT !.last = code, !.ready = @ \/ code = "READY"] /\ code # "LOG"
  BY DEF Hear
<1> HIDE DEF g
<1> QED
  BY <1>1, <1>2 DEF Silence

(* Every step keeps what has arrived in order: the end frame comes last, and *)
(* a program only after READY.                                              *)
LEMMA NextReceived == SessionInv /\ [Next]_vars => Received'
<1> SUFFICES ASSUME SessionInv, [Next]_vars PROVE Received'
  OBVIOUS
<1>0. /\ DOMAIN rx = DOMAIN RxInitial /\ DOMAIN link = DOMAIN LinkInitial
      /\ DOMAIN heard = DOMAIN Silence /\ DOMAIN host = DOMAIN HostInitial
      /\ Ordered(rx.inbox) /\ Counting /\ (rx.end => NoData)
      /\ (~host.test => NoData /\ ~rx.end)
      /\ (Announced => host.test /\ (host.program \/ (NoData /\ ~rx.end)))
      /\ Registers /\ Codes
  BY DEF SessionInv, Shapes, Received
<1>1. CASE Tick
  <2>1. rx'.inbox = rx.inbox /\ rx'.end = FALSE
    BY <1>0, <1>1, EdgeFields
  <2>2. Counting'
    <3>1. RxEdge("sessionClear" \in ctl.pulses)
      BY <1>1 DEF Tick
    <3>2. ("sessionClear" \in ctl.pulses) \in BOOLEAN
      OBVIOUS
    <3> QED
      BY <1>0, <3>1, <3>2, NextCounting
  <2>3. UNCHANGED <<host, heard>>
    BY <1>1 DEF Tick
  <2>4. Announced' => Announced \/ ctl'.push = "READY"
    BY <1>0, <1>1, <2>3, FifoEdge DEF Announced
  <2>5. ctl'.push = "READY" => host.test /\ NoData
    <3>1. ctl'.push = "READY" => ctl.state = "READY"
      BY <1>0, <1>1, TickMove, ReadyPushed
    <3> QED
      BY <1>1, <3>1 DEF SessionInv, Arrivals, Alive, Tick, In
  <2> QED
    BY <1>0, <2>1, <2>2, <2>3, <2>4, <2>5 DEF Received, NoData
<1>2. CASE Restart
  BY <1>2, SystemAssumption DEF Restart, Received, Counting, Pending, DmaBusy, NoData, Dataless, Ordered, Announced,
     NoCode, InitialRegisters, RxInitial, LinkInitial, HostInitial, Silence
<1>3. CASE UNCHANGED ctl /\ Receiving
  <2>1. /\ Ordered(rx'.inbox)
        /\ NoData => NoData'
        /\ rx'.end => NoData'
        /\ NoData /\ ~rx.end => ~rx'.end
    BY <1>0, <1>3, ReceiveInbox
  <2>2. Counting'
    BY <1>0, <1>3, NextCounting
  <2>3. Announced' => Announced
    BY <1>3 DEF Receiving, Announced
  <2> QED
    BY <1>0, <1>3, <2>1, <2>2, <2>3 DEF Received, Receiving
<1>4. CASE UNCHANGED ctl /\ SendInfo
  <2>1. UNCHANGED rx
    BY <1>4 DEF SendInfo
  <2>2. Counting'
    BY <1>0, <2>1, NextCounting
  <2>3. /\ link.fifo # <<>> /\ link'.fifo = Tail(link.fifo)
        /\ heard'.last \in {heard.last, Head(link.fifo)}
    BY <1>0, <1>4, HeardLast DEF SendInfo
  <2>4. /\ Len(Tail(link.fifo)) = Len(link.fifo) - 1 /\ Len(link.fifo) \in Nat \ {0}
        /\ Head(link.fifo) = link.fifo[1]
        /\ \A i \in 1 .. Len(link.fifo) - 1 : Tail(link.fifo)[i] = link.fifo[i + 1]
    BY <1>0, <2>3, HeadAndTail DEF Codes
  <2>5. Announced' => Announced
    <3>1. CASE ctl'.push = "READY"
      BY <1>4, <3>1 DEF Announced
    <3>2. CASE heard'.last = "READY"
      BY <2>3, <2>4, <3>2 DEF Announced
    <3>3. CASE \E i \in 1 .. Len(link'.fifo) : link'.fifo[i] = "READY"
      <4>1. PICK i \in 1 .. Len(link'.fifo) : link'.fifo[i] = "READY"
        BY <3>3
      <4>2. i + 1 \in 1 .. Len(link.fifo) /\ link.fifo[i + 1] = "READY"
        BY <2>3, <2>4, <4>1
      <4> QED
        BY <4>2 DEF Announced
    <3> QED
      BY <3>1, <3>2, <3>3 DEF Announced
  <2>6. host'.test = host.test /\ host'.program = host.program
    BY <1>0, <1>4 DEF SendInfo, HostInitial
  <2> QED
    BY <1>0, <2>1, <2>2, <2>5, <2>6 DEF Received, NoData
<1>5. CASE UNCHANGED ctl /\ (SendLog \/ FrameLeaves \/ DumpBegins \/ DumpEnds)
  <2>1. UNCHANGED <<rx, link, host>> /\ heard'.last = heard.last
    BY ZenonT(60), <1>0, <1>5, HeardLast DEF SendLog, FrameLeaves, DumpBegins, DumpEnds
  <2>2. Counting'
    BY <1>0, <2>1, NextCounting
  <2> QED
    BY <1>0, <1>5, <2>1, <2>2 DEF Received, NoData, Announced
<1>6. CASE UNCHANGED ctl /\ (Operating \/ Computing \/ Faulting)
  <2>1. UNCHANGED <<rx, link, host, heard>>
    BY <1>6 DEF Operating, Computing, Faulting
  <2>2. Counting'
    BY <1>0, <2>1, NextCounting
  <2> QED
    BY <1>0, <1>6, <2>1, <2>2 DEF Received, NoData, Announced
<1>7. CASE UNCHANGED ctl /\ Answers
  <2>1. UNCHANGED <<link, heard>>
    BY <1>7 DEF Answers
  <2>2. Counting'
    BY <1>0, <1>7, NextCounting
  <2>3. Announced' <=> Announced
    BY <1>7, <2>1 DEF Announced
  <2>4. CASE SendTest
    <3>1. Ordered(rx'.inbox) /\ ~host.test /\ host'.test /\ rx'.end = rx.end
          /\ heard.last = "PREINIT_DONE"
      <4>1. ~host.test
        BY <2>4 DEF SendTest
      <4> QED
        BY <1>0, <2>4, <4>1, TestArrives DEF RxInitial
    <3>2. ~Announced
      BY <1>0, <3>1
    <3>3. ~rx.end
      BY <1>0, <3>1
    <3> QED
      BY <2>2, <2>3, <3>1, <3>2, <3>3 DEF Received
  <2>5. CASE SendProgram
    <3>1. ~host.program /\ heard.last = "READY"
      BY <2>5 DEF SendProgram
    <3>2. NoData /\ ~rx.end
      BY <1>0, <3>1 DEF Announced
    <3>3. Ordered(rx'.inbox) /\ host'.test /\ host'.program /\ rx'.end = rx.end
      BY <1>0, <2>5, <3>2, ProgramArrives DEF RxInitial
    <3> QED
      BY <2>2, <2>3, <3>2, <3>3 DEF Received
  <2>6. CASE RequestReplay \/ RequestReset
    <3>1. /\ Ordered(rx'.inbox)
          /\ NoData => NoData'
          /\ host'.test = host.test /\ host'.program = host.program
          /\ rx'.end = rx.end
      BY <1>0, <2>6, CommandArrives DEF RxInitial
    <3> QED
      BY <1>0, <2>2, <2>3, <3>1 DEF Received
  <2> QED
    BY <1>7, <2>4, <2>5, <2>6 DEF Answers
<1>8. CASE UNCHANGED vars
  <2>1. Counting'
    BY <1>0, <1>8, NextCounting DEF vars, board
  <2> QED
    BY <1>0, <1>8, <2>1 DEF vars, board, Received, NoData, Announced
<1> QED
  BY <1>1, <1>2, <1>3, <1>4, <1>5, <1>6, <1>7, <1>8, OtherStep DEF Next, Clock, Between

(* The receive side may be busy with one frame at a time, and what it takes is *)
(* the owner's.                                                                *)
LEMMA QuietReceive ==
    ASSUME Receiving, rx.dma = "IDLE", ~Open \/ NoData, Ordered(rx.inbox), DOMAIN rx = DOMAIN RxInitial
    PROVE  /\ rx'.dma = "IDLE" /\ rx'.firstWrite = rx.firstWrite /\ rx'.done = rx.done
           /\ rx'.frames = rx.frames /\ rx'.doneCount = rx.doneCount /\ rx'.ddr0 = rx.ddr0
           /\ rx'.errors = rx.errors
<1> USE DEF RxInitial
<1>1. NoData /\ rx.inbox # <<>> => Head(rx.inbox).kind # "PROGRAM"
  BY OrderedTail DEF NoData, DataFrame
<1>2. ~TakeProgram(Open)
  BY <1>1 DEF TakeProgram, Waiting
<1>3. ~AcceptWrite /\ ~MovePayload /\ \A ok : ~TakeStatus(ok)
  BY DEF AcceptWrite, MovePayload, TakeStatus, DmaBusy
<1>4. CASE SwallowProgram(Open)
  BY <1>4 DEF SwallowProgram
<1>5. CASE TakeControl
  BY <1>5 DEF TakeControl
<1> QED
  BY <1>2, <1>3, <1>4, <1>5
     DEF Receiving, Receive, ReceiveFrame, WriteBegins, PayloadMoved, WriteEnds

(* A clock edge opens a phase only when what the host may send in it has not *)
(* arrived.                                                                 *)
LEMMA TickArrives == SessionInv /\ Tick => Arrivals'
<1> SUFFICES ASSUME SessionInv, Tick PROVE Arrivals'
  OBVIOUS
<1>1. PICK late : Moved(Sampled(late))
  BY TickMove
<1> DEFINE in == Sampled(late)
<1>2. /\ in.programEnd = rx.end /\ in.firstWrite = rx.firstWrite /\ (in.dmaBusy <=> DmaBusy)
  BY Sampling
<1>m. Moved(in)
  BY <1>1
<1> HIDE DEF in
<1>3. /\ rx'.inbox = rx.inbox /\ rx'.end = FALSE /\ rx'.done = FALSE /\ rx'.firstWrite = FALSE
      /\ "sessionClear" \notin ctl.pulses =>
           /\ rx'.dma = rx.dma /\ rx'.frames = rx.frames
           /\ ~rx.done => rx'.doneCount = rx.doneCount
      /\ "sessionClear" \in ctl.pulses => rx'.dma = "IDLE" /\ rx'.frames = 0 /\ rx'.doneCount = 0
  BY EdgeFields DEF SessionInv, Shapes
<1>4. /\ Arrivals /\ (rx.end => NoData) /\ (NoData' <=> NoData)
      /\ rx.dma \in {"IDLE", "MOVE", "STATUS"}
      /\ ("sessionClear" \in ctl.pulses => In("READY", {2}))
      /\ LegalPhase /\ rx.end \in BOOLEAN /\ rx.firstWrite \in BOOLEAN
  BY <1>3 DEF SessionInv, Received, Counting, NoData, Asked, Registers
<1>5. /\ Alive' => Alive
      /\ host' = host
  BY <1>m DEF Tick, Alive, Moved, PreMoves, ReadyMoves, ProgMoves, ExecMoves, EndMoves, ResetMoves, FatalMoves, ErrorMoves
<1> USE <1>2, <1>3, <1>4, <1>5, <1>m
    DEF Moved, PreMoves, ReadyMoves, ProgMoves, ExecMoves, EndMoves, ResetMoves, FatalMoves, ErrorMoves,
        Moves, Stays, Enters, Errs, ExecPhase, Recalls, Ends, In, Arrivals, Checked, Resting, DmaBusy, Alive
<1>6. Checked' => Resting'
  BY SMTT(30)
<1>7. Alive' /\ ~host'.test => In("PRECONFIG", {0, 1, 2})' /\ Untouched' /\ ~ctl'.preEndSeen
  <2> SUFFICES ASSUME Alive', ~host'.test
               PROVE  In("PRECONFIG", {0, 1, 2})' /\ Untouched' /\ ~ctl'.preEndSeen
    OBVIOUS
  <2>1. In("PRECONFIG", {0, 1, 2}) /\ Untouched /\ ~ctl.preEndSeen
    OBVIOUS
  <2>2. ctl'.state = "PRECONFIG" /\ ctl'.phase \in {0, 1, 2}
    BY SMTT(30), <2>1 DEF Untouched
  <2>3. ~ctl'.startSeen /\ ~ctl'.preEndSeen
    BY <2>1, <2>2 DEF Untouched
  <2>4. Resting' /\ NoData' /\ ~rx'.end
    BY <2>1 DEF Untouched
  <2> QED
    BY <2>2, <2>3, <2>4 DEF Untouched
<1>8. ~host'.test => ~host'.program
  OBVIOUS
<1>9. Alive' /\ ctl'.state = "PRECONFIG" =>
          /\ ctl'.preEndSeen => NoData'
          /\ ctl'.phase \in {3, 4, 5, 8, 9} => NoData' /\ ~rx'.end
  <2> SUFFICES ASSUME Alive', ctl'.state = "PRECONFIG"
               PROVE  /\ ctl'.preEndSeen => NoData
                      /\ ctl'.phase \in {3, 4, 5, 8, 9} => NoData
    OBVIOUS
  <2>1. ctl.state = "PRECONFIG"
    OBVIOUS
  <2>2. ctl'.preEndSeen => NoData
    BY <2>1
  <2>3. ctl'.phase \in {3, 4, 5, 8, 9} => NoData
    BY SMTT(30), <2>1
  <2> QED
    BY <2>2, <2>3
<1>10. Alive' /\ ctl'.state = "READY" =>
          /\ NoData' /\ ~rx'.end
          /\ ctl'.phase \in {2, 3, 4} =>
                "sessionClear" \in ctl'.pulses \/ (rx'.frames = 0 /\ rx'.doneCount = 0)
  BY SMTT(30)
<1>11. Alive' /\ ctl'.state \in {"PRECONFIG", "READY"} => ~host'.program
  OBVIOUS
<1>12. Alive' /\ ~host'.program =>
          \/ ctl'.state \in {"PRECONFIG", "READY"}
          \/ In("PROGRAM_WRITE", {0})' /\ Untouched' /\ ~ctl'.progEndSeen
             /\ rx'.frames = 0 /\ rx'.doneCount = 0
  <2> SUFFICES ASSUME Alive', ~host.program, ctl'.state \notin {"PRECONFIG", "READY"}
               PROVE  In("PROGRAM_WRITE", {0})' /\ Untouched' /\ ~ctl'.progEndSeen
                      /\ rx'.frames = 0 /\ rx'.doneCount = 0
    OBVIOUS
  <2>1. CASE ctl.state = "READY"
    <3>1. ctl'.state = "PROGRAM_WRITE" /\ ctl'.phase = 0 /\ ctl.phase = 4 /\ ctl'.pulses = {}
          /\ ~ctl'.startSeen /\ ~ctl'.progEndSeen
      BY <2>1
    <3>2. Resting' /\ NoData' /\ ~rx'.end
      BY <2>1
    <3>3. rx'.frames = 0 /\ rx'.doneCount = 0
      BY <2>1, <3>1
    <3> QED
      BY <3>1, <3>2, <3>3 DEF Untouched
  <2>2. CASE ctl.state # "READY"
    <3>1. /\ ctl.state = "PROGRAM_WRITE" /\ ctl.phase = 0 /\ Untouched /\ ~ctl.progEndSeen
          /\ rx.frames = 0 /\ rx.doneCount = 0
      BY <2>2
    <3>2. ctl'.state = "PROGRAM_WRITE" /\ ctl'.phase = 0
      BY SMTT(30), <3>1 DEF Untouched
    <3>3. ~ctl'.startSeen /\ ~ctl'.progEndSeen
      BY <3>1, <3>2 DEF Untouched
    <3>4. Resting' /\ NoData' /\ ~rx'.end
      BY <3>1 DEF Untouched
    <3>5. rx'.frames = 0 /\ rx'.doneCount = 0
      BY <3>1 DEF Untouched
    <3> QED
      BY <3>2, <3>3, <3>4, <3>5 DEF Untouched
  <2> QED
    BY <2>1, <2>2
<1> QED
  BY <1>6, <1>7, <1>8, <1>9, <1>10, <1>11, <1>12

(* Every step keeps the arrivals with the phases that wait for them.        *)
LEMMA NextArrives == SessionInv /\ [Next]_vars => Arrivals'
<1> SUFFICES ASSUME SessionInv, [Next]_vars PROVE Arrivals'
  OBVIOUS
<1>0. /\ DOMAIN rx = DOMAIN RxInitial /\ DOMAIN host = DOMAIN HostInitial
      /\ Ordered(rx.inbox) /\ Arrivals
  BY DEF SessionInv, Shapes, Received
<1>1. CASE Tick
  BY <1>1, TickArrives
<1>2. CASE Restart
  BY <1>2 DEF Restart, Arrivals, Alive, In, Checked, Resting, Untouched, NoData, Dataless,
     InitialRegisters, RxInitial, HostInitial
<1>3. CASE UNCHANGED ctl /\ Receiving
  <2>1. /\ NoData => NoData'
        /\ NoData /\ ~rx.end => ~rx'.end
    BY <1>0, <1>3, ReceiveInbox DEF SessionInv, Received
  <2>2. Checked => ~Open
    BY DEF Checked, Open, Ddr0Owner, In, Checking
  <2>3. Resting /\ (~Open \/ NoData) =>
           Resting' /\ rx'.frames = rx.frames /\ rx'.doneCount = rx.doneCount
    BY <1>0, <1>3, QuietReceive DEF Resting
  <2>4. UNCHANGED <<ctl, host>> /\ (Alive' <=> Alive) /\ (Checked' <=> Checked)
    BY <1>3 DEF Receiving, Alive, Checked, In
  <2> QED
    BY <1>0, <2>1, <2>2, <2>3, <2>4 DEF Arrivals, Untouched, In, Checked
<1>4. CASE UNCHANGED <<ctl, rx>> /\ host'.test = host.test /\ host'.program = host.program
  <2>1. /\ UNCHANGED <<ctl, rx>> /\ (Alive' <=> Alive) /\ (Checked' <=> Checked)
        /\ (Resting' <=> Resting) /\ (NoData' <=> NoData) /\ (Untouched' <=> Untouched)
    BY <1>4 DEF Alive, Checked, In, Resting, NoData, Untouched
  <2> QED
    BY <1>0, <1>4, <2>1 DEF Arrivals, In
<1>5. CASE UNCHANGED ctl /\ Answers
  <2>1. /\ UNCHANGED ctl /\ (Alive' <=> Alive) /\ (Checked' <=> Checked)
    BY <1>5 DEF Alive, Checked, In
  <2>2. ASSUME \A f \in DOMAIN rx : f # "inbox" => rx'[f] = rx[f]
        PROVE  /\ (Resting' <=> Resting) /\ rx'.frames = rx.frames /\ rx'.doneCount = rx.doneCount
               /\ rx'.end = rx.end
    BY <1>0, <2>2 DEF Resting, RxInitial
  <2>3. CASE SendTest
    <3>1. /\ ~host.test /\ host'.test /\ ~host'.program
          /\ \A f \in DOMAIN rx : f # "inbox" => rx'[f] = rx[f]
      <4>1. ~host.test
        BY <2>3 DEF SendTest
      <4> QED
        BY <1>0, <2>3, <4>1, TestArrives DEF SessionInv, Received
    <3> QED
      BY <1>0, <2>1, <2>2, <3>1 DEF Arrivals, In
  <2>4. CASE SendProgram
    <3>1. ~host.program /\ heard.last = "READY" /\ link.acks = <<>>
      BY <2>4 DEF SendProgram, Answering
    <3>2. NoData
      BY <3>1 DEF SessionInv, Received, Announced
    <3>3. /\ host'.test /\ host'.program
          /\ \A f \in DOMAIN rx : f # "inbox" => rx'[f] = rx[f]
      BY <1>0, <2>4, <3>2, ProgramArrives
    <3>4. Alive => ctl.state \notin {"PRECONFIG", "READY"}
      BY <3>1 DEF SessionInv, Path
    <3> QED
      BY <1>0, <2>1, <2>2, <3>3, <3>4 DEF Arrivals, In
  <2>5. CASE RequestReplay \/ RequestReset
    <3>1. /\ NoData => NoData'
          /\ host'.test = host.test /\ host'.program = host.program
          /\ \A f \in DOMAIN rx : f # "inbox" => rx'[f] = rx[f]
      BY <1>0, <2>5, CommandArrives
    <3> QED
      BY <1>0, <2>1, <2>2, <3>1 DEF Arrivals, In, Untouched
  <2> QED
    BY <1>5, <2>3, <2>4, <2>5 DEF Answers
<1>6. CASE UNCHANGED ctl /\ SendInfo
  <2>1. UNCHANGED <<ctl, rx>> /\ host'.test = host.test /\ host'.program = host.program
    BY <1>0, <1>6 DEF SendInfo, HostInitial
  <2> QED
    BY <1>4, <2>1
<1> QED
  BY <1>1, <1>2, <1>3, <1>4, <1>5, <1>6, OtherStep
     DEF Next, Clock, Between, vars, board, FrameLeaves, DumpBegins, SendLog, DumpEnds,
         Operating, Computing, Faulting

(* A queue of nothing but the program.                                      *)
ProgramComes(s) ==
    \A i \in 1 .. Len(s) : /\ s[i].kind = "PROGRAM" => s[i].image = "PROGRAM"
                           /\ s[i].kind = "END" => s[i].number = ProgramFrames

(* A clock edge leaves the count of the program behind what is stored.      *)
LEMMA TickStores == SessionInv /\ Tick => Stores'
<1> SUFFICES ASSUME SessionInv, Tick PROVE Stores'
  OBVIOUS
<1>1. PICK late : Moved(Sampled(late))
  BY TickMove
<1> DEFINE in == Sampled(late)
<1>2. /\ in.programEnd = rx.end /\ (in.dmaBusy <=> DmaBusy)
      /\ in.endTotal = rx.total /\ in.dmaDoneCount = rx.doneCount
  BY Sampling
<1>m. Moved(in)
  BY <1>1
<1> HIDE DEF in
<1>3. /\ rx'.inbox = rx.inbox /\ rx'.end = FALSE /\ rx'.done = FALSE /\ rx'.ddr0 = rx.ddr0
      /\ "sessionClear" \notin ctl.pulses =>
           /\ rx'.dma = rx.dma /\ rx'.frame = rx.frame /\ rx'.errors = rx.errors
           /\ rx'.doneCount = IF rx.done /\ "WRITE" \notin rx.errors THEN rx.doneCount + 1
                              ELSE rx.doneCount
  BY EdgeFields DEF SessionInv, Shapes
<1>4. ("sessionClear" \in ctl.pulses => ctl.state = "READY") /\ LegalPhase
  BY DEF SessionInv, Asked, In, Registers
<1>5. /\ rx.end => NoData
      /\ rx.frames <= ProgramFrames /\ rx.doneCount <= rx.frames
      /\ rx.doneCount + Pending = rx.frames \/ "WRITE" \in rx.errors
      /\ rx.frames \in Nat /\ rx.doneCount \in Nat /\ ProgramFrames \in Nat \ {0}
      /\ rx.dma \in {"IDLE", "MOVE", "STATUS"} /\ rx.end \in BOOLEAN
  BY SystemAssumption DEF SessionInv, Received, Counting
<1>6. Alive' => Alive /\ "globalReset" \notin ctl'.pulses /\ ctl'.state # "ERROR"
  BY <1>m DEF Tick, Alive, Moved, PreMoves, ReadyMoves, ProgMoves, ExecMoves, EndMoves, ResetMoves, FatalMoves, ErrorMoves
<1>7. Stores
  BY DEF SessionInv
<1>c. "sessionClear" \notin ctl.pulses => rx'.doneCount = Counted /\ Counted' = Counted
  BY <1>3, <1>5 DEF Counted
<1>w. rx.doneCount = ProgramFrames /\ "sessionClear" \notin ctl.pulses => rx'.doneCount = ProgramFrames
  BY <1>3, <1>5 DEF Pending
<1>8. CASE Alive' /\ ctl.state = "READY"
  <2>1. /\ Resting /\ NoData /\ ~rx.end
        /\ ctl.phase = 4 => rx.frames = 0 /\ rx.doneCount = 0
        /\ "sessionClear" \in ctl.pulses => ctl.phase = 2
    BY <1>6, <1>8 DEF SessionInv, Arrivals, Checked, Asked, In
  <2>2. \/ ctl'.state = "READY"
        \/ /\ ctl'.state = "PROGRAM_WRITE" /\ ctl'.phase = 0 /\ ctl.phase = 4
           /\ ~ctl'.startSeen /\ ~ctl'.progEndSeen
    BY <1>6, <1>8, <1>m
       DEF Moved, PreMoves, ReadyMoves, ProgMoves, ExecMoves, EndMoves, ResetMoves, FatalMoves, ErrorMoves,
           Moves, Stays, Enters, Errs
  <2>3. CASE ctl'.state = "READY"
    BY <2>3 DEF Stores
  <2>4. CASE ctl'.state = "PROGRAM_WRITE" /\ ctl'.phase = 0 /\ ctl.phase = 4 /\ ~ctl'.progEndSeen
    <3>1. rx'.doneCount = 0 /\ rx'.dma = "IDLE" /\ ~rx'.done
      BY <1>3, <2>1, <2>4 DEF Resting
    <3>2. Stocked' /\ ~DmaBusy'
      BY <3>1 DEF Stocked, Counted, DmaBusy
    <3>3. \A i \in 1 .. Len(rx'.inbox) : ~DataFrame(rx'.inbox[i])
      BY <1>3, <2>1 DEF NoData, Dataless
    <3> QED
      BY <1>3, <2>4, <3>2, <3>3 DEF Stores, DataFrame
  <2> QED
    BY <2>2, <2>3, <2>4
<1>9. CASE Alive' /\ ctl.state = "PROGRAM_WRITE"
  <2>0. /\ Alive /\ "sessionClear" \notin ctl.pulses
        /\ ProgramComes(rx.inbox)
        /\ (DmaBusy => rx.frame.image = "PROGRAM")
        /\ (rx.end => rx.total = ProgramFrames)
        /\ (ctl.progEndSeen => ctl.progEnd.total = ProgramFrames /\ NoData /\ ~rx.end)
        /\ (ctl.phase \in {1, 4, 5} => ctl.progEndSeen)
        /\ (ctl.phase = 1 => Written)
        /\ Stocked
    BY <1>4, <1>6, <1>7, <1>9 DEF Stores, ProgramComes
  <2>1. /\ \/ ctl'.state = "PROGRAM_WRITE" /\ Recalls(in)
           \/ ctl'.state = "EXECUTE" /\ ctl.phase = 1
        /\ ctl'.state = "PROGRAM_WRITE" =>
             \/ ctl'.phase \in {0, 2, 3} \/ ctl'.phase = ctl.phase
             \/ ctl'.phase = 4 /\ (ctl.progEndSeen \/ in.programEnd)
             \/ ctl'.phase = 5 /\ ctl.phase = 4
             \/ /\ ctl'.phase = 1 /\ ctl.phase = 5
                /\ ProgTarget(in).total = in.dmaDoneCount /\ ~in.dmaBusy
    BY <1>6, <1>9, <1>m
       DEF Moved, PreMoves, ReadyMoves, ProgMoves, ExecMoves, EndMoves, ResetMoves, FatalMoves, ErrorMoves,
           Moves, Stays, Enters, Errs
  <2>2. Stocked'
    BY <1>3, <1>c, <2>0 DEF Stocked
  <2>3. Written => Written'
    BY <1>3, <1>w, <2>0 DEF Written, NoData
  <2>4. CASE ctl'.state = "EXECUTE" /\ ctl.phase = 1
    BY <2>0, <2>2, <2>3, <2>4 DEF Stores
  <2>5. CASE ctl'.state = "PROGRAM_WRITE" /\ Recalls(in)
    <3>1. ProgramComes(rx'.inbox) /\ (DmaBusy' => rx'.frame.image = "PROGRAM") /\ ~rx'.end
      BY <1>3, <2>0 DEF DmaBusy
    <3>2. ctl'.progEndSeen <=> (ctl.progEndSeen \/ rx.end)
      BY <1>2, <1>9, <2>5 DEF Recalls, Ends
    <3>3. ctl'.progEndSeen => ctl'.progEnd.total = ProgramFrames /\ NoData' /\ ~rx'.end
      BY <1>2, <1>3, <1>5, <1>9, <2>0, <2>5, <3>2 DEF Recalls, Ends, Count, NoData
    <3>4. ctl'.phase \in {1, 4, 5} => ctl'.progEndSeen
      BY <1>2, <2>0, <2>1, <2>5, <3>2
    <3>5. ctl'.phase = 1 => Written'
      <4> SUFFICES ASSUME ctl'.phase = 1 PROVE Written'
        OBVIOUS
      <4>1. CASE ctl.phase = 1
        BY <2>0, <2>3, <4>1
      <4>2. CASE ctl.phase # 1
        <5>1. ctl.phase = 5 /\ ProgTarget(in).total = in.dmaDoneCount /\ ~in.dmaBusy
          BY <2>1, <2>5, <4>2
        <5>2. ~rx.end /\ ctl.progEnd.total = ProgramFrames /\ NoData
          BY <2>0, <5>1
        <5>3. rx.doneCount = ProgramFrames
          BY <1>2, <5>1, <5>2 DEF ProgTarget
        <5>4. rx.dma = "IDLE"
          BY <1>2, <1>5, <5>1 DEF DmaBusy
        <5> QED
          BY <2>3, <5>2, <5>3, <5>4 DEF Written
      <4> QED
        BY <4>1, <4>2
    <3> QED
      BY <2>2, <2>5, <3>1, <3>3, <3>4, <3>5 DEF Stores, ProgramComes
  <2> QED
    BY <2>1, <2>4, <2>5
<1>10. CASE Alive' /\ ctl.state \in {"EXECUTE", "END"}
  <2>1. Written /\ Stocked /\ "sessionClear" \notin ctl.pulses
    BY <1>4, <1>6, <1>7, <1>10 DEF Stores
  <2>2. Stocked'
    BY <1>3, <1>c, <2>1 DEF Stocked
  <2>3. Written'
    BY <1>3, <1>w, <2>1 DEF Written, NoData
  <2>4. ctl'.state \in {"EXECUTE", "END"}
    BY <1>6, <1>10, <1>m
       DEF Moved, PreMoves, ReadyMoves, ProgMoves, ExecMoves, EndMoves, ResetMoves, FatalMoves, ErrorMoves,
           Moves, Stays, Enters, Errs, ExecPhase
  <2> QED
    BY <2>2, <2>3, <2>4 DEF Stores
<1>11. CASE Alive' /\ ctl.state = "PRECONFIG"
  <2>1. ctl'.state \in {"PRECONFIG", "READY"}
    BY <1>6, <1>11, <1>m
       DEF Moved, PreMoves, ReadyMoves, ProgMoves, ExecMoves, EndMoves, ResetMoves, FatalMoves, ErrorMoves,
           Moves, Stays, Enters, Errs
  <2> QED
    BY <2>1 DEF Stores
<1>12. CASE ~Alive'
  BY <1>12 DEF Stores
<1>13. Alive' => ctl.state \in {"PRECONFIG", "READY", "PROGRAM_WRITE", "EXECUTE", "END"}
  BY <1>m, <1>6 DEF Moved, PreMoves, ReadyMoves, ProgMoves, ExecMoves, EndMoves, ResetMoves, FatalMoves, ErrorMoves, Alive, Stays
<1> QED
  BY <1>8, <1>9, <1>10, <1>11, <1>12, <1>13

(* What is left of a program is of the program.                             *)
LEMMA TailComes ==
    ASSUME NEW s, Ordered(s), s # <<>>, ProgramComes(s)
    PROVE  /\ ProgramComes(Tail(s))
           /\ Head(s).kind = "PROGRAM" => Head(s).image = "PROGRAM"
           /\ Head(s).kind = "END" => Head(s).number = ProgramFrames
<1>1. /\ Len(s) \in Nat \ {0} /\ Len(Tail(s)) = Len(s) - 1 /\ Head(s) = s[1]
      /\ \A i \in 1 .. Len(s) - 1 : Tail(s)[i] = s[i + 1]
  BY OrderedTail, HeadAndTail DEF Ordered
<1>2. ASSUME NEW i \in 1 .. Len(Tail(s))
      PROVE  i + 1 \in 1 .. Len(s) /\ Tail(s)[i] = s[i + 1]
  BY <1>1, <1>2
<1> QED
  BY <1>1, <1>2 DEF ProgramComes

(* A write that succeeds stores the frame at its place and counts it. *)
LEMMA WriteStored ==
    ASSUME NEW ok \in BOOLEAN, TakeStatus(ok), Counting, DOMAIN rx = DOMAIN RxInitial,
           rx.frame.image = "PROGRAM", Stocked
    PROVE  Stocked'
<1> USE DEF RxInitial
<1>1. /\ rx.dma = "STATUS" /\ ~rx.done /\ rx'.done = TRUE /\ rx'.doneCount = rx.doneCount
      /\ rx'.ddr0 = IF ok THEN Stored(rx.ddr0, rx.frame) ELSE rx.ddr0
      /\ rx'.errors = IF ok THEN rx.errors ELSE rx.errors \cup {"WRITE"}
  BY DEF TakeStatus
<1>2. /\ rx.frame \in Frames \cup {NoFrame} /\ rx.frame.number \in Nat
      /\ rx.frame.number + 1 = rx.frames /\ rx.frames \in Nat /\ rx.doneCount \in Nat
      /\ "WRITE" \in rx.errors \/ rx.doneCount + 1 = rx.frames
      /\ rx.doneCount <= rx.frames
      /\ rx.ddr0 \in Seq({"TEST", "PROGRAM", "NONE"})
  BY <1>1 DEF Counting, Pending, Frames, NoFrame, Control
<1>3. Counted = rx.doneCount
  BY <1>1, <1>2 DEF Counted
<1>4. CASE ok
  <2>1. Counted' = IF "WRITE" \in rx.errors THEN rx.doneCount ELSE rx.doneCount + 1
    BY <1>1, <1>2, <1>4 DEF Counted
  <2> DEFINE d == Stored(rx.ddr0, rx.frame)
  <2>2. /\ Len(d) = IF Len(rx.ddr0) > rx.frame.number THEN Len(rx.ddr0) ELSE rx.frame.number + 1
        /\ Len(rx.ddr0) \in Nat
        /\ \A i \in 1 .. Len(d) :
              d[i] = IF i = rx.frame.number + 1 THEN "PROGRAM"
                     ELSE IF i <= Len(rx.ddr0) THEN rx.ddr0[i] ELSE "NONE"
    <3>1. rx.frame.image \in {"TEST", "PROGRAM", "NONE"}
      OBVIOUS
    <3> DEFINE S == {"TEST", "PROGRAM", "NONE"}
               f == rx.frame
               m == rx.ddr0
    <3>2. /\ m \in Seq(S) /\ f.number \in Nat /\ f.image \in S /\ "NONE" \in S
          /\ f.image = "PROGRAM"
      BY <1>2, <3>1
    <3>3. d = Stored(m, f)
      OBVIOUS
    <3> HIDE DEF RxInitial, S, f, m, d
    <3>4. /\ Len(d) = IF Len(m) > f.number THEN Len(m) ELSE f.number + 1
          /\ Len(m) \in Nat
          /\ \A i \in 1 .. Len(d) : d[i] = IF i = f.number + 1 THEN f.image
                                       ELSE IF i <= Len(m) THEN m[i] ELSE "NONE"
      <4>1. /\ Stored(m, f) \in Seq(S)
            /\ Len(Stored(m, f)) = IF Len(m) > f.number THEN Len(m) ELSE f.number + 1
            /\ Len(m) \in Nat
            /\ \A i \in 1 .. Len(Stored(m, f)) :
                 Stored(m, f)[i] = IF i = f.number + 1 THEN f.image
                                   ELSE IF i <= Len(m) THEN m[i] ELSE "NONE"
        BY ONLY <3>2, StoredType
      <4> QED
        BY <3>3, <4>1
    <3> QED
      BY <3>2, <3>4 DEF f, m
  <2>3. rx'.ddr0 = d
    BY <1>1, <1>4
  <2> HIDE DEF d
  <2>4. ASSUME NEW i \in 1 .. Counted' PROVE i <= Len(d) /\ d[i] = "PROGRAM"
    <3>1. i \in Nat \ {0} /\ i <= rx.frames
      BY <1>2, <2>1, <2>4
    <3>2. CASE i = rx.frame.number + 1
      BY <1>2, <2>2, <3>1, <3>2
    <3>3. CASE i # rx.frame.number + 1
      <4>1. i \in 1 .. Counted
        BY <1>2, <1>3, <2>1, <2>4, <3>1, <3>3
      <4>2. i <= Len(rx.ddr0) /\ rx.ddr0[i] = "PROGRAM"
        BY <4>1 DEF Stocked
      <4> QED
        BY <1>2, <2>2, <3>1, <3>3, <4>2
    <3> QED
      BY <3>2, <3>3
  <2> QED
    BY <2>3, <2>4 DEF Stocked
<1>5. CASE ~ok
  <2>1. Counted' = rx.doneCount /\ rx'.ddr0 = rx.ddr0
    BY <1>1, <1>2, <1>5 DEF Counted
  <2> QED
    BY <1>3, <2>1 DEF Stocked
<1> QED
  BY <1>4, <1>5

(* The receive side counts a frame of the program only when it is stored in *)
(* its place.                                                               *)
LEMMA ReceiveStocks ==
    ASSUME Receiving, Counting, DOMAIN rx = DOMAIN RxInitial, Ordered(rx.inbox),
           ProgramComes(rx.inbox), DmaBusy => rx.frame.image = "PROGRAM",
           rx.end => rx.total = ProgramFrames, Stocked
    PROVE  /\ ProgramComes(rx'.inbox)
           /\ DmaBusy' => rx'.frame.image = "PROGRAM"
           /\ rx'.end => rx'.total = ProgramFrames
           /\ Stocked'
<1> USE DEF RxInitial
<1>0. rx.doneCount \in Nat /\ rx.frames \in Nat
  BY DEF Counting
<1>1. CASE SwallowProgram(Open)
  <2>1. /\ rx.inbox # <<>> /\ rx'.inbox = Tail(rx.inbox)
        /\ rx'.dma = rx.dma /\ rx'.frame = rx.frame /\ rx'.end = rx.end /\ rx'.total = rx.total
        /\ rx'.ddr0 = rx.ddr0 /\ rx'.doneCount = rx.doneCount /\ rx'.done = rx.done
        /\ rx'.errors = rx.errors
    BY <1>1 DEF SwallowProgram, Waiting
  <2> QED
    BY <2>1, TailComes DEF DmaBusy, Stocked, Counted
<1>2. CASE TakeProgram(Open)
  <2>1. /\ rx.inbox # <<>> /\ rx'.inbox = Tail(rx.inbox) /\ Head(rx.inbox).kind = "PROGRAM"
        /\ rx'.end = rx.end /\ rx'.total = rx.total
        /\ rx'.ddr0 = rx.ddr0 /\ rx'.doneCount = rx.doneCount /\ rx'.done = rx.done
        /\ rx'.errors = rx.errors \/ rx'.errors = rx.errors \cup {"SEQUENCE"}
        /\ \/ rx'.dma = "MOVE" /\ rx'.frame = Head(rx.inbox)
           \/ rx'.dma = rx.dma /\ rx'.frame = rx.frame
    BY <1>2 DEF TakeProgram, Waiting
  <2>2. Counted' = Counted
    BY <2>1 DEF Counted
  <2> QED
    BY <2>1, <2>2, TailComes DEF DmaBusy, Stocked
<1>3. CASE TakeControl
  <2>1. /\ rx.inbox # <<>> /\ rx'.inbox = Tail(rx.inbox)
        /\ rx'.end = (Head(rx.inbox).kind = "END") /\ rx'.total = Head(rx.inbox).number
        /\ rx'.dma = rx.dma /\ rx'.frame = rx.frame
        /\ rx'.ddr0 = rx.ddr0 /\ rx'.doneCount = rx.doneCount /\ rx'.done = rx.done
        /\ rx'.errors = rx.errors
    BY <1>3 DEF TakeControl, Waiting
  <2>2. (DmaBusy' <=> DmaBusy) /\ (Stocked' <=> Stocked)
    BY <2>1 DEF DmaBusy, Stocked, Counted
  <2>3. rx'.end => rx'.total = ProgramFrames
    BY <2>1, TailComes
  <2>4. ProgramComes(rx'.inbox)
    BY <2>1, TailComes
  <2> QED
    BY <2>1, <2>2, <2>3, <2>4
<1>4. CASE AcceptWrite \/ MovePayload
  <2>1. /\ rx'.inbox = rx.inbox /\ DmaBusy
        /\ rx'.end = rx.end /\ rx'.total = rx.total /\ rx'.frame = rx.frame
        /\ rx'.ddr0 = rx.ddr0 /\ rx'.doneCount = rx.doneCount /\ rx'.done = rx.done
        /\ rx'.errors = rx.errors
    BY <1>4 DEF AcceptWrite, MovePayload, DmaBusy
  <2> QED
    BY <2>1 DEF Stocked, Counted
<1>5. CASE \E r \in Outcomes("STATUS") : TakeStatus(r = "PASS")
  <2>1. PICK ok \in BOOLEAN : TakeStatus(ok)
    BY <1>5
  <2>2. DmaBusy /\ rx'.inbox = rx.inbox /\ rx'.dma = "IDLE" /\ rx'.end = rx.end /\ rx'.total = rx.total
    BY <2>1 DEF TakeStatus, DmaBusy
  <2>3. Stocked'
    BY <2>1, <2>2, WriteStored
  <2> QED
    BY <2>2, <2>3 DEF DmaBusy
<1> QED
  BY <1>1, <1>2, <1>3, <1>4, <1>5
     DEF Receiving, Receive, ReceiveFrame, WriteBegins, PayloadMoved, WriteEnds

(* Every step keeps the program's frames stored and counted, so that        *)
(* PROGRAM_WRITE is left only with all of them in the memory.               *)
LEMMA NextStores == SessionInv /\ [Next]_vars => Stores'
<1> SUFFICES ASSUME SessionInv, [Next]_vars PROVE Stores'
  OBVIOUS
<1>0. /\ DOMAIN rx = DOMAIN RxInitial /\ DOMAIN host = DOMAIN HostInitial
      /\ Ordered(rx.inbox) /\ Counting /\ Stores
      /\ Alive /\ ctl.state = "PROGRAM_WRITE" =>
             /\ ProgramComes(rx.inbox)
             /\ DmaBusy => rx.frame.image = "PROGRAM"
             /\ rx.end => rx.total = ProgramFrames
             /\ ctl.progEndSeen => ctl.progEnd.total = ProgramFrames /\ NoData /\ ~rx.end
             /\ ctl.phase \in {1, 4, 5} => ctl.progEndSeen
             /\ ctl.phase = 1 => Written
             /\ Stocked
  BY DEF SessionInv, Shapes, Received, Stores, ProgramComes
<1>1. CASE Tick
  BY <1>1, TickStores
<1>2. CASE Restart
  BY <1>2 DEF Restart, Stores, InitialRegisters
<1>3. CASE UNCHANGED ctl /\ Receiving
  <2>1. /\ NoData => NoData'
        /\ NoData /\ ~rx.end => ~rx'.end
    BY <1>0, <1>3, ReceiveInbox DEF SessionInv, Received
  <2>2. Written => Written'
    BY <1>0, <1>3, <2>1, QuietReceive DEF Written
  <2>3. Written /\ Stocked => Stocked'
    BY <1>0, <1>3, QuietReceive DEF Written, Stocked, Counted
  <2>4. UNCHANGED ctl /\ (Alive' <=> Alive)
    BY <1>3 DEF Receiving, Alive
  <2>5. CASE Alive /\ ctl.state = "PROGRAM_WRITE"
    <3>1. /\ ProgramComes(rx'.inbox)
          /\ DmaBusy' => rx'.frame.image = "PROGRAM"
          /\ rx'.end => rx'.total = ProgramFrames
          /\ Stocked'
      BY <1>0, <1>3, <2>5, ReceiveStocks
    <3> QED
      BY <1>0, <2>1, <2>2, <2>4, <2>5, <3>1 DEF Stores, ProgramComes
  <2>6. CASE Alive /\ ctl.state \in {"EXECUTE", "END"}
    BY <1>0, <2>2, <2>3, <2>4, <2>6 DEF Stores
  <2> QED
    BY <2>4, <2>5, <2>6 DEF Stores
<1>4. CASE UNCHANGED <<ctl, rx>>
  <2>1. /\ UNCHANGED <<ctl, rx>> /\ (Alive' <=> Alive) /\ (DmaBusy' <=> DmaBusy)
        /\ (Written' <=> Written) /\ (NoData' <=> NoData) /\ (Stocked' <=> Stocked)
    BY <1>4 DEF Alive, Written, DmaBusy, NoData, Stocked, Counted
  <2> QED
    BY <1>0, <1>4, <2>1 DEF Stores
<1>5. CASE UNCHANGED ctl /\ Answers
  <2>1. /\ UNCHANGED ctl /\ (Alive' <=> Alive)
    BY <1>5 DEF Alive
  <2>2. ASSUME \A f \in DOMAIN rx : f # "inbox" => rx'[f] = rx[f]
        PROVE  /\ (Stocked' <=> Stocked) /\ (DmaBusy' <=> DmaBusy)
               /\ rx'.frame = rx.frame /\ rx'.end = rx.end /\ rx'.total = rx.total
               /\ (NoData => NoData') => (Written => Written')
    BY <1>0, <2>2 DEF Stocked, Counted, DmaBusy, Written, RxInitial
  <2>3. CASE SendTest
    <3>1. ~host.test
      BY <2>3 DEF SendTest
    <3>2. Alive => ctl.state = "PRECONFIG"
      BY <3>1 DEF SessionInv, Arrivals, In
    <3> QED
      BY <2>1, <3>2 DEF Stores
  <2>4. CASE SendProgram
    <3>1. ~host.program /\ heard.last = "READY"
      BY <2>4 DEF SendProgram
    <3>2. NoData
      BY <3>1 DEF SessionInv, Received, Announced
    <3>3. /\ ProgramComes(rx'.inbox)
          /\ \A f \in DOMAIN rx : f # "inbox" => rx'[f] = rx[f]
      BY <1>0, <2>4, <3>2, ProgramArrives DEF ProgramComes
    <3>4. Alive => \/ ctl.state \in {"PRECONFIG", "READY"}
                   \/ ctl.state = "PROGRAM_WRITE" /\ ctl.phase = 0 /\ ~ctl.progEndSeen
      BY <3>1 DEF SessionInv, Arrivals, In
    <3> QED
      BY <1>0, <2>1, <2>2, <3>3, <3>4 DEF Stores, ProgramComes
  <2>5. CASE RequestReplay \/ RequestReset
    <3>1. /\ NoData => NoData'
          /\ \A i \in 1 .. Len(rx'.inbox) :
                 \/ ~DataFrame(rx'.inbox[i])
                 \/ i \in 1 .. Len(rx.inbox) /\ rx'.inbox[i] = rx.inbox[i]
          /\ \A f \in DOMAIN rx : f # "inbox" => rx'[f] = rx[f]
      BY <1>0, <2>5, CommandArrives
    <3>2. ProgramComes(rx.inbox) => ProgramComes(rx'.inbox)
      BY <3>1 DEF ProgramComes, DataFrame
    <3>3. /\ (Stocked' <=> Stocked) /\ (DmaBusy' <=> DmaBusy)
          /\ rx'.frame = rx.frame /\ rx'.end = rx.end /\ rx'.total = rx.total
          /\ (Written => Written')
      BY <2>2, <3>1
    <3>4. CASE Alive /\ ctl.state = "PROGRAM_WRITE"
      BY <1>0, <2>1, <3>1, <3>2, <3>3, <3>4 DEF Stores, ProgramComes
    <3>5. CASE Alive /\ ctl.state \in {"EXECUTE", "END"}
      BY <1>0, <2>1, <3>3, <3>5 DEF Stores
    <3> QED
      BY <2>1, <3>4, <3>5 DEF Stores
  <2> QED
    BY <1>5, <2>3, <2>4, <2>5 DEF Answers
<1> QED
  BY <1>1, <1>2, <1>3, <1>4, <1>5, OtherStep
     DEF Next, Clock, Between, vars, board, SendInfo, FrameLeaves, DumpBegins, SendLog, DumpEnds,
         Operating, Computing, Faulting

(* A sequence whose elements lie in a set.                                  *)
LEMMA Within ==
    ASSUME NEW S, NEW T, NEW s \in Seq(S), \A i \in 1 .. Len(s) : s[i] \in T
    PROVE  s \in Seq(T)
<1>1. Len(s) \in Nat /\ s = [i \in 1 .. Len(s) |-> s[i]]
  OBVIOUS
<1> QED
  BY <1>1

(* Nothing is drawn from the empty set.                                     *)
LEMMA NothingIn == ASSUME NEW s \in Seq({}) PROVE s = <<>>
OBVIOUS

(* The two ends of the path at a clock edge. *)
LEMMA LinkSteps ==
    ASSUME Tick, DOMAIN link = DOMAIN LinkInitial
    PROVE  /\ link'.fifo = IF ctl.push = NoCode \/ Len(link.fifo) = InfoDepth THEN link.fifo
                           ELSE Append(link.fifo, ctl.push)
           /\ link'.acks = IF link.acks = <<>> THEN link.acks ELSE Tail(link.acks)
BY DEF Tick, LinkEdge, LinkInitial

(* Outside EXECUTE: nothing is queued while an acknowledgement is awaited,   *)
(* and it is awaited in the phases that follow a code.                       *)
LEMMA Speaking ==
    ASSUME NEW in, Moved(in), Alive, Alive', ctl.state # "EXECUTE"
    PROVE  /\ Sends(in, ctl'.push)
           /\ Awaiting => ctl'.push = NoCode
           /\ Awaiting' <=> (ctl'.push # NoCode \/ (Awaiting /\ ~InfoDone(in)))
<1> USE DEF Alive, Moved, PreMoves, ReadyMoves, ProgMoves, ExecMoves, EndMoves, ResetMoves, FatalMoves, ErrorMoves,
        Moves, Stays, Enters, Errs, Awaiting, In
<1>1. Sends(in, ctl'.push)
  BY DEF Sends
<1>c. \A code : Sends(in, code) => ctl'.push = code
  BY DEF Sends
<1>2. Awaiting => ctl'.push = NoCode
  BY <1>c
<1>v. Verdict # NoCode
  BY DEF Verdict, NoCode
<1>3. CASE ctl.state = "PRECONFIG"
  BY <1>c, <1>v, <1>3 DEF NoCode
<1>4. CASE ctl.state = "READY"
  BY <1>c, <1>4 DEF NoCode
<1>5. CASE ctl.state = "PROGRAM_WRITE"
  BY <1>c, <1>5 DEF NoCode
<1>6. CASE ctl.state = "END"
  BY <1>c, <1>6 DEF NoCode
<1> QED
  BY <1>1, <1>2, <1>3, <1>4, <1>5, <1>6

(* One code on the path, or none. *)
LEMMA PathEdge ==
    ASSUME NEW late, Tick, Codes, DOMAIN link = DOMAIN LinkInitial,
           ctl.waiting <=> Awaiting,
           IF ctl.waiting THEN OnPath(ctl.expected) ELSE PathEmpty,
           ctl.waiting => ctl.expected # NoCode,
           Sends(Sampled(late), ctl'.push),
           Awaiting => ctl'.push = NoCode,
           Awaiting' <=> (ctl'.push # NoCode \/ (Awaiting /\ ~InfoDone(Sampled(late))))
    PROVE  /\ ctl'.waiting <=> Awaiting'
           /\ IF ctl'.waiting THEN OnPath(ctl.expected)' ELSE PathEmpty'
           /\ ctl'.waiting => ctl'.expected # NoCode
<1> DEFINE in == Sampled(late)
<1>1. /\ in.frameDone <=> link.acks # <<>>
      /\ in.sentCode = IF link.acks = <<>> THEN NoCode ELSE Head(link.acks)
  BY Sampling
<1>2. InfoDone(in) <=> ctl.waiting /\ link.acks # <<>> /\ Head(link.acks) = ctl.expected
  BY <1>1 DEF InfoDone
<1>3. Sends(in, ctl'.push) /\ (Awaiting' <=> (ctl'.push # NoCode \/ (Awaiting /\ ~InfoDone(in))))
  OBVIOUS
<1> HIDE DEF in
<1>4. Len(<<>>) = 0 /\ InfoDepth = 16
  BY DEF InfoDepth
<1>5. \A c : Append(<<>>, c) = <<c>> /\ Head(<<c>>) = c /\ Tail(<<c>>) = <<>> /\ <<c>> # <<>> /\ Len(<<c>>) = 1
  OBVIOUS
<1>6. /\ ctl'.expected = IF ctl'.push = NoCode THEN ctl.expected ELSE ctl'.push
      /\ ctl'.waiting <=> (ctl'.push # NoCode \/ (ctl.waiting /\ ~InfoDone(in)))
  BY <1>3 DEF Sends
<1>7. ctl'.waiting <=> Awaiting'
  BY <1>3, <1>6
<1>8. CASE ~ctl.waiting
  <2>1. link'.fifo = <<>> /\ link'.acks = <<>>
    BY <1>8, LinkSteps DEF PathEmpty
  <2> QED
    BY <1>6, <1>7, <1>8, <2>1 DEF OnPath, PathEmpty
<1>9. CASE ctl.waiting
  <2>0. ctl'.push = NoCode /\ ctl'.expected = ctl.expected /\ ctl.expected # NoCode
        /\ (ctl'.waiting <=> ~InfoDone(in))
    BY <1>6, <1>9
  <2>1. CASE ctl.push = ctl.expected /\ link.fifo = <<>> /\ link.acks = <<>>
    <3>1. link'.fifo = <<ctl.expected>> /\ link'.acks = <<>>
      BY <1>4, <1>5, <2>0, <2>1, LinkSteps
    <3> QED
      BY <1>2, <1>7, <2>0, <2>1, <3>1 DEF OnPath
  <2>2. CASE ctl.push = NoCode /\ link.fifo = <<ctl.expected>> /\ link.acks = <<>>
    <3>1. link'.fifo = <<ctl.expected>> /\ link'.acks = <<>>
      BY <2>0, <2>2, LinkSteps
    <3> QED
      BY <1>2, <1>7, <2>0, <2>2, <3>1 DEF OnPath
  <2>3. CASE ctl.push = NoCode /\ link.fifo = <<>> /\ link.acks = <<ctl.expected>>
    <3>1. link'.fifo = <<>> /\ link'.acks = <<>>
      BY <1>5, <2>0, <2>3, LinkSteps
    <3>2. InfoDone(in)
      BY <1>2, <1>5, <1>9, <2>3
    <3> QED
      BY <1>7, <2>0, <2>3, <3>1, <3>2 DEF PathEmpty
  <2> QED
    BY <1>9, <2>1, <2>2, <2>3 DEF OnPath
<1> QED
  BY <1>8, <1>9

(* The hart tracker at one edge. *)
LEMMA TrackedHarts ==
    ASSUME NEW in, ctl.state = "EXECUTE", ~in.fatal,
           ctl.pending \subseteq HartStatuses, ctl.queued \subseteq HartStatuses,
           ctl.pending \cap ctl.queued = {}
    PROVE  /\ Tracked(in).queued = ctl.queued \cup Chosen(in) /\ Chosen(in) \subseteq ctl.pending
           /\ Tracked(in).pending \subseteq HartStatuses
           /\ Tracked(in).pending \cap Tracked(in).queued = {}
           /\ Tracked(in).push \in Chosen(in) \cup {NoCode}
           /\ Tracked(in).sent = IF in.frameDone THEN ctl.sent \cup ({in.sentCode} \cap HartStatuses)
                                 ELSE ctl.sent
<1>1. Chosen(in) \subseteq ctl.pending
  BY DEF Chosen
<1>2. Tracked(in) =
            [pending |-> (ctl.pending \cup (Raised(in) \ ctl.queued)) \ Chosen(in),
             queued |-> ctl.queued \cup Chosen(in),
             sent |-> IF in.frameDone
                      THEN ctl.sent \cup ({in.sentCode} \cap HartStatuses)
                      ELSE ctl.sent,
             push |-> IF Chosen(in) = {} THEN NoCode
                      ELSE CHOOSE s \in HartStatuses : s \in Chosen(in)]
  BY DEF Tracked, Tracking
<1>3. Raised(in) \subseteq HartStatuses
  BY DEF Raised
<1>4. Chosen(in) # {} => (CHOOSE s \in HartStatuses : s \in Chosen(in)) \in Chosen(in)
  BY <1>1
<1> QED
  BY <1>1, <1>2, <1>3, <1>4

(* A clock edge keeps the codes of the harts apart: what is chosen was not  *)
(* queued before, what arrives is confirmed once.                           *)
LEMMA HartEdge ==
    ASSUME NEW late, Tick, Codes, Codes', DOMAIN link = DOMAIN LinkInitial, HartCodes,
           ctl.state = "EXECUTE", ~Sampled(late).fatal, Tracks(Sampled(late))
    PROVE  HartCodes'
<1> DEFINE in == Sampled(late)
           a == link.acks
           f == link.fifo
           k == Len(link.fifo)
<1>1. /\ in.frameDone <=> link.acks # <<>>
      /\ in.sentCode = IF link.acks = <<>> THEN NoCode ELSE Head(link.acks)
  BY Sampling
<1>2. /\ ctl'.push = Tracked(in).push /\ ctl'.pending = Tracked(in).pending
      /\ ctl'.queued = Tracked(in).queued /\ ctl'.sent = Tracked(in).sent
  BY DEF Tracks
<1>f. ~in.fatal
  OBVIOUS
<1> HIDE DEF in
<1>3. /\ ctl.pending \subseteq HartStatuses /\ ctl.queued \subseteq HartStatuses
      /\ ctl.pending \cap ctl.queued = {} /\ ctl.sent \subseteq ctl.queued
      /\ (ctl.push # NoCode => ctl.push \in Unconfirmed)
      /\ f \in Seq(Unconfirmed) /\ Distinct(f) /\ a \in Seq(Unconfirmed) /\ Distinct(a)
      /\ (\A i \in 1 .. Len(f) : /\ f[i] # ctl.push
                                 /\ \A j \in 1 .. Len(a) : f[i] # a[j])
      /\ (\A j \in 1 .. Len(a) : a[j] # ctl.push)
  BY DEF HartCodes
<1>4. Unconfirmed = ctl.queued \ ctl.sent /\ Unconfirmed \subseteq HartStatuses /\ NoCode \notin HartStatuses
  BY <1>3 DEF Unconfirmed, HartStatuses, NoCode
<1>5. /\ ctl'.queued = ctl.queued \cup Chosen(in) /\ Chosen(in) \subseteq ctl.pending
      /\ ctl'.pending \subseteq HartStatuses /\ ctl'.pending \cap ctl'.queued = {}
      /\ ctl'.push \in Chosen(in) \cup {NoCode}
      /\ ctl'.sent = IF in.frameDone THEN ctl.sent \cup ({in.sentCode} \cap HartStatuses) ELSE ctl.sent
  BY <1>2, <1>3, <1>f, TrackedHarts
<1>6. /\ k \in Nat /\ Len(a) \in Nat
      /\ \A i \in 1 .. k : f[i] \in Unconfirmed
      /\ \A i \in 1 .. Len(a) : a[i] \in Unconfirmed
  BY <1>3
(* What arrives is confirmed, and nothing that stays behind is. *)
<1>7. /\ a = <<>> => ctl'.sent = ctl.sent
      /\ a # <<>> => a[1] \in Unconfirmed /\ 1 \in 1 .. Len(a) /\ ctl'.sent = ctl.sent \cup {a[1]}
  <2>1. CASE a = <<>>
    BY <1>1, <1>5, <2>1
  <2>2. CASE a # <<>>
    <3>1. Head(a) = a[1] /\ 1 \in 1 .. Len(a)
      BY <1>3, <2>2
    <3> QED
      BY <1>1, <1>4, <1>5, <1>6, <2>2, <3>1
  <2> QED
    BY <2>1, <2>2
<1>8. ctl'.sent \subseteq ctl'.queued /\ ctl'.queued \subseteq HartStatuses
  BY <1>3, <1>4, <1>5, <1>7
<1>9. Unconfirmed' = ctl'.queued \ ctl'.sent
  BY DEF Unconfirmed
<1>10. ctl'.push # NoCode => ctl'.push \in Unconfirmed' /\ ctl'.push \notin ctl.queued
  BY <1>3, <1>4, <1>5, <1>7, <1>9
<1>11. \A c \in Unconfirmed : (\A j \in 1 .. Len(a) : j = 1 => c # a[j]) => c \in Unconfirmed'
  BY <1>4, <1>5, <1>7, <1>9
<1> DEFINE f1 == link'.fifo
           a1 == link'.acks
<1>12. /\ Len(f1) \in Nat /\ Len(a1) \in Nat
       /\ f1 \in Seq(StatusCodes) /\ a1 \in Seq(StatusCodes)
  BY DEF Codes
<1>13. \A i \in 1 .. Len(f1) : \/ i \in 1 .. k /\ f1[i] = f[i]
                               \/ i = k + 1 /\ ctl.push # NoCode /\ f1[i] = ctl.push
  <2>1. CASE ctl.push = NoCode \/ Len(link.fifo) = InfoDepth
    BY <1>6, <2>1, LinkSteps
  <2>2. CASE ctl.push # NoCode /\ Len(link.fifo) # InfoDepth
    <3>1. f1 = Append(f, ctl.push)
      BY <2>2, LinkSteps
    <3> HIDE DEF f1, f
    <3>2. /\ Len(f1) = Len(f) + 1 /\ f1[Len(f) + 1] = ctl.push
          /\ \A i \in 1 .. Len(f) : f1[i] = f[i]
      BY <1>3, <3>1
    <3>3. k = Len(f)
      BY DEF f
    <3> QED
      BY <1>6, <2>2, <3>2, <3>3
  <2> QED
    BY <2>1, <2>2
<1>14. \A j \in 1 .. Len(a1) : j + 1 \in 1 .. Len(a) /\ a1[j] = a[j + 1]
  <2>1. CASE a = <<>>
    BY <2>1, LinkSteps
  <2>2. CASE a # <<>>
    <3>1. a1 = Tail(a)
      BY <2>2, LinkSteps
    <3> HIDE DEF a, a1
    <3>2. Len(Tail(a)) = Len(a) - 1 /\ \A i \in 1 .. Len(a) - 1 : Tail(a)[i] = a[i + 1]
      BY <1>3, <2>2, HeadAndTail DEF a
    <3> QED
      BY <1>6, <3>1, <3>2
  <2> QED
    BY <2>1, <2>2
<1> HIDE DEF f1, a1, f, a, k
<1>15. \A i \in 1 .. Len(f1) : f1[i] \in Unconfirmed /\ f1[i] \in Unconfirmed'
  <2> TAKE i \in 1 .. Len(f1)
  <2>1. f1[i] \in Unconfirmed
    BY <1>3, <1>6, <1>13
  <2>2. \A j \in 1 .. Len(a) : f1[i] # a[j]
    BY <1>3, <1>6, <1>13 DEF f, a, k
  <2> QED
    BY <1>11, <2>1, <2>2
<1>16. f1 \in Seq(Unconfirmed')
  BY <1>12, <1>15, Within
<1>17. Distinct(f1)
  <2> SUFFICES ASSUME NEW i \in 1 .. Len(f1), NEW j \in 1 .. Len(f1), f1[i] = f1[j] PROVE i = j
    BY DEF Distinct
  <2>1. CASE i \in 1 .. k /\ f1[i] = f[i] /\ j \in 1 .. k /\ f1[j] = f[j]
    BY <1>3, <2>1 DEF Distinct, k, f
  <2>2. CASE (i = k + 1 /\ f1[i] = ctl.push) /\ (j = k + 1 /\ f1[j] = ctl.push)
    BY <2>2
  <2>3. ~((i = k + 1 /\ f1[i] = ctl.push) /\ (j \in 1 .. k /\ f1[j] = f[j]))
    BY <1>3 DEF k, f
  <2>4. ~((j = k + 1 /\ f1[j] = ctl.push) /\ (i \in 1 .. k /\ f1[i] = f[i]))
    BY <1>3 DEF k, f
  <2> QED
    BY <1>13, <2>1, <2>2, <2>3, <2>4
<1>18. \A j \in 1 .. Len(a1) : a1[j] \in Unconfirmed /\ a1[j] \in Unconfirmed'
  <2> TAKE j \in 1 .. Len(a1)
  <2>1. a1[j] = a[j + 1] /\ j + 1 \in 1 .. Len(a)
    BY <1>14
  <2>2. \A n \in 1 .. Len(a) : n = 1 => a1[j] # a[n]
    BY <1>3, <1>12, <2>1 DEF Distinct
  <2> QED
    BY <1>6, <1>11, <2>1, <2>2
<1>19. a1 \in Seq(Unconfirmed')
  BY <1>12, <1>18, Within
<1>20. Distinct(a1)
  <2> SUFFICES ASSUME NEW i \in 1 .. Len(a1), NEW j \in 1 .. Len(a1), a1[i] = a1[j] PROVE i = j
    BY DEF Distinct
  <2> QED
    BY <1>3, <1>12, <1>14 DEF Distinct
<1>21. \A i \in 1 .. Len(f1) : \A j \in 1 .. Len(a1) : f1[i] # a1[j]
  BY <1>3, <1>13, <1>14 DEF k, f
<1>22. \A c \in Unconfirmed : c # ctl'.push
  BY <1>4, <1>5, <1>10
<1>23. /\ \A i \in 1 .. Len(f1) : f1[i] # ctl'.push
       /\ \A j \in 1 .. Len(a1) : a1[j] # ctl'.push
  BY <1>15, <1>18, <1>22
<1> QED
  BY <1>5, <1>8, <1>10, <1>16, <1>17, <1>19, <1>20, <1>21, <1>23 DEF HartCodes, f1, a1

(* A frame of the path is sent: its code moves to the acknowledgements. *)
LEMMA HartSent ==
    ASSUME HartCodes, ctl' = ctl, link.fifo # <<>>,
           link'.fifo = Tail(link.fifo), link'.acks = Append(link.acks, Head(link.fifo))
    PROVE  HartCodes'
<1> DEFINE a == link.acks
           f == link.fifo
           U == Unconfirmed
<1>1. /\ (ctl.push # NoCode => ctl.push \in U)
      /\ f \in Seq(U) /\ Distinct(f) /\ a \in Seq(U) /\ Distinct(a)
      /\ (\A i \in 1 .. Len(f) : /\ f[i] # ctl.push
                                 /\ \A j \in 1 .. Len(a) : f[i] # a[j])
      /\ (\A j \in 1 .. Len(a) : a[j] # ctl.push)
      /\ ctl.pending \subseteq HartStatuses /\ ctl.queued \subseteq HartStatuses
      /\ ctl.pending \cap ctl.queued = {} /\ ctl.sent \subseteq ctl.queued
      /\ f # <<>>
  BY DEF HartCodes
<1>2. U' = U
  BY DEF Unconfirmed
<1> HIDE DEF a, f, U
<1> DEFINE f1 == Tail(f)
           a1 == Append(a, Head(f))
<1>3. /\ f1 \in Seq(U) /\ a1 \in Seq(U) /\ Len(f) \in Nat \ {0} /\ Len(a) \in Nat
      /\ Len(f1) = Len(f) - 1 /\ Len(a1) = Len(a) + 1 /\ Head(f) = f[1]
      /\ \A i \in 1 .. Len(f1) : f1[i] = f[i + 1] /\ i + 1 \in 1 .. Len(f)
      /\ \A j \in 1 .. Len(a) : a1[j] = a[j]
      /\ a1[Len(a) + 1] = f[1] /\ 1 \in 1 .. Len(f)
  BY <1>1
<1> HIDE DEF f1, a1
<1>4. Distinct(f1)
  BY <1>1, <1>3 DEF Distinct
<1>5. Distinct(a1)
  <2> SUFFICES ASSUME NEW i \in 1 .. Len(a1), NEW j \in 1 .. Len(a1), a1[i] = a1[j] PROVE i = j
    BY DEF Distinct
  <2>1. CASE i \in 1 .. Len(a) /\ j \in 1 .. Len(a)
    BY <1>1, <1>3, <2>1 DEF Distinct
  <2>2. CASE i = Len(a) + 1 /\ j \in 1 .. Len(a)
    BY <1>1, <1>3, <2>2
  <2>3. CASE i \in 1 .. Len(a) /\ j = Len(a) + 1
    BY <1>1, <1>3, <2>3
  <2> QED
    BY <1>3, <2>1, <2>2, <2>3
<1>6. ASSUME NEW i \in 1 .. Len(f1)
      PROVE  f1[i] # ctl.push /\ \A j \in 1 .. Len(a1) : f1[i] # a1[j]
  <2>0. f1[i] = f[i + 1] /\ i + 1 \in 1 .. Len(f) /\ i + 1 # 1
    BY <1>3, <1>6
  <2>1. f1[i] # ctl.push
    BY <1>1, <2>0
  <2>2. ASSUME NEW j \in 1 .. Len(a1) PROVE f1[i] # a1[j]
    <3>1. CASE j \in 1 .. Len(a)
      <4>1. a1[j] = a[j]
        BY ONLY <1>3, <3>1
      <4>2. f[i + 1] # a[j]
        BY ONLY <1>1, <2>0, <3>1
      <4> QED
        BY ONLY <2>0, <4>1, <4>2
    <3>2. CASE j = Len(a) + 1
      <4>1. a1[j] = f[1]
        BY ONLY <1>3, <3>2
      <4>2. f[i + 1] # f[1]
        BY ONLY <1>1, <1>3, <2>0 DEF Distinct
      <4> QED
        BY ONLY <2>0, <4>1, <4>2
    <3> QED
      BY ONLY <1>3, <2>2, <3>1, <3>2
  <2> QED
    BY <2>1, <2>2
<1>7. \A j \in 1 .. Len(a1) : a1[j] # ctl.push
  <2> TAKE j \in 1 .. Len(a1)
  <2>1. CASE j \in 1 .. Len(a)
    BY <1>1, <1>3, <2>1
  <2>2. CASE j = Len(a) + 1
    BY <1>1, <1>3, <2>2
  <2> QED
    BY <1>3, <2>1, <2>2
<1>8. link'.fifo = f1 /\ link'.acks = a1
  BY DEF f1, a1, f, a
<1> QED
  BY <1>1, <1>2, <1>3, <1>4, <1>5, <1>6, <1>7, <1>8 DEF HartCodes, U

(* A clock edge queues a code only when the path is clear, or the harts' own *)
(* codes in EXECUTE.                                                        *)
LEMMA TickPath == SessionInv /\ Tick /\ Codes' => Path'
<1> SUFFICES ASSUME SessionInv, Tick, Codes' PROVE Path'
  OBVIOUS
<1>1. PICK late : Moved(Sampled(late))
  BY TickMove
<1> DEFINE in == Sampled(late)
<1>2. /\ in.frameDone <=> link.acks # <<>>
      /\ in.sentCode = IF link.acks = <<>> THEN NoCode ELSE Head(link.acks)
  BY Sampling
<1>m. Moved(in)
  BY <1>1
<1>3. /\ Codes /\ Registers /\ DOMAIN link = DOMAIN LinkInitial /\ Path /\ heard' = heard
  BY DEF SessionInv, Shapes, Tick
<1>4. Alive' => Alive /\ "globalReset" \notin ctl'.pulses /\ ctl'.state # "ERROR" /\ ctl.state # "ERROR"
  BY <1>m DEF Tick, Alive, Moved, PreMoves, ReadyMoves, ProgMoves, ExecMoves, EndMoves, ResetMoves, FatalMoves, ErrorMoves
<1>5. CASE ~Alive'
  BY <1>5 DEF Path
<1>6. CASE Alive' /\ ctl.state # "EXECUTE"
  <2>1. /\ (ctl.waiting <=> Awaiting) /\ (ctl.waiting => ctl.expected # NoCode)
        /\ IF ctl.waiting THEN OnPath(ctl.expected) ELSE PathEmpty
    BY <1>3, <1>4, <1>6 DEF Path
  <2>2. /\ Sends(in, ctl'.push) /\ (Awaiting => ctl'.push = NoCode)
        /\ (Awaiting' <=> (ctl'.push # NoCode \/ (Awaiting /\ ~InfoDone(in))))
    <3> HIDE DEF in
    <3> QED
      BY <1>m, <1>4, <1>6, Speaking
  <2>3. /\ ctl'.waiting <=> Awaiting'
        /\ IF ctl'.waiting THEN OnPath(ctl.expected)' ELSE PathEmpty'
        /\ ctl'.waiting => ctl'.expected # NoCode
    BY <1>3, <2>1, <2>2, PathEdge
  <2> HIDE DEF in
  <2>4. ctl'.state = "EXECUTE" => HartCodes'
    <3> SUFFICES ASSUME ctl'.state = "EXECUTE" PROVE HartCodes'
      OBVIOUS
    <3>1. ~Awaiting'
      BY DEF Awaiting, In
    <3>2. ctl'.push = NoCode /\ link'.fifo = <<>> /\ link'.acks = <<>>
      BY <2>3, <3>1 DEF PathEmpty
    <3>3. Cleared
      BY <1>4, <1>6, <1>m
         DEF Moved, PreMoves, ReadyMoves, ProgMoves, ExecMoves, EndMoves, ResetMoves, FatalMoves, ErrorMoves
    <3>4. Unconfirmed' = {}
      BY <3>3 DEF Cleared, Unconfirmed
    <3> QED
      BY <3>2, <3>3, <3>4 DEF HartCodes, Cleared, Distinct
  <2>5. ctl'.state = "PRECONFIG" => heard'.last # "READY" /\ ctl'.expected # "READY"
    <3> SUFFICES ASSUME ctl'.state = "PRECONFIG" PROVE heard'.last # "READY" /\ ctl'.expected # "READY"
      OBVIOUS
    <3>1. ctl.state = "PRECONFIG"
      BY <1>4, <1>m
         DEF Moved, PreMoves, ReadyMoves, ProgMoves, ExecMoves, EndMoves, ResetMoves, FatalMoves, ErrorMoves,
             Moves, Stays, Enters, Errs, ExecPhase
    <3>2. ctl'.push # "READY"
      BY <1>3, <1>m, <3>1, ReadyPushed
    <3> QED
      BY <1>3, <1>4, <1>6, <2>2, <3>1, <3>2 DEF Path, Sends
  <2>6. ctl'.state = "READY" =>
          /\ ctl'.phase = 4 => ctl'.expected = "READY"
          /\ heard'.last = "READY" => ctl'.phase = 4 /\ link'.acks # <<>>
    <3> SUFFICES ASSUME ctl'.state = "READY"
                 PROVE  /\ ctl'.phase = 4 => ctl'.expected = "READY"
                        /\ heard'.last # "READY"
      OBVIOUS
    <3>1. \/ ctl.state = "PRECONFIG" /\ ctl'.phase = 0
          \/ ctl.state = "READY" /\ ctl'.phase = 4 /\ ctl.phase = 3 /\ Sends(in, "READY")
          \/ ctl.state = "READY" /\ ctl'.phase # 4 /\ ctl.phase # 4
          \/ ctl.state = "READY" /\ Stays(in)
      <4>1. Stays(in) => ctl'.state = ctl.state
        BY DEF Stays
      <4> QED
        BY <1>4, <1>6, <1>m, <4>1
         DEF Moved, PreMoves, ReadyMoves, ProgMoves, ExecMoves, EndMoves, ResetMoves, FatalMoves, ErrorMoves,
             Moves, Enters, Errs, ExecPhase
    <3>2. ctl'.phase = 4 => ctl'.expected = "READY"
      BY <1>3, <1>4, <1>6, <3>1 DEF Path, Sends, NoCode, Stays
    <3>3. heard.last # "READY"
      <4> SUFFICES ASSUME heard.last = "READY" PROVE FALSE
        OBVIOUS
      <4>1. ctl.state = "READY" /\ ctl.phase = 4 /\ link.acks # <<>>
        BY <1>3, <1>4, <1>6, <3>1 DEF Path
      <4>2. Awaiting /\ Stays(in)
        BY <3>1, <4>1 DEF Awaiting, In
      <4>3. link.acks = <<ctl.expected>>
        BY <2>1, <4>1, <4>2 DEF OnPath
      <4>4. InfoDone(in)
        BY <1>2, <2>1, <4>2, <4>3 DEF InfoDone, in
      <4> QED
        BY <4>2, <4>4 DEF Stays
    <3> QED
      BY <1>3, <3>2, <3>3
  <2> QED
    BY <2>3, <2>4, <2>5, <2>6 DEF Path, OnPath
<1>7. CASE Alive' /\ ctl.state = "EXECUTE"
  <2>1. ~ctl.waiting /\ HartCodes
    BY <1>3, <1>4, <1>7 DEF Path, Awaiting, In
  <2>2. ExecMoves(in) /\ ctl'.state \in {"EXECUTE", "END"} /\ (ctl'.state = "END" => Finished(in) /\ ctl'.phase = 0)
    <3> HIDE DEF in
    <3> QED
      BY <1>4, <1>7, <1>m
       DEF Moved, PreMoves, ReadyMoves, ProgMoves, ExecMoves, EndMoves, ResetMoves, FatalMoves, ErrorMoves, ExecPhase
  <2>3. ~in.fatal /\ Tracks(in)
    BY <2>2 DEF ExecMoves
  <2>4. HartCodes'
    BY <1>3, <1>7, <2>1, <2>3, HartEdge
  <2>5. ~ctl'.waiting
    BY <2>1, <2>3 DEF Tracks
  <2>6. ~Awaiting'
    BY <2>2 DEF Awaiting, In
  <2>7. ctl'.state = "END" => PathEmpty'
    <3> HIDE DEF in
    <3> SUFFICES ASSUME ctl'.state = "END" PROVE PathEmpty'
      OBVIOUS
    <3>1. ctl.sent = HartStatuses
      BY <2>2 DEF Finished
    <3>2. ctl.queued = HartStatuses /\ ctl.pending = {} /\ Unconfirmed = {}
      BY <2>1, <3>1 DEF HartCodes, Unconfirmed
    <3>3. link.fifo = <<>> /\ link.acks = <<>> /\ ctl.push = NoCode
      BY <2>1, <3>2, NothingIn DEF HartCodes
    <3>4. link'.fifo = <<>> /\ link'.acks = <<>>
      BY <1>3, <3>3, LinkSteps
    <3>5. Tracked(in).push \in Chosen(in) \cup {NoCode} /\ Chosen(in) \subseteq ctl.pending
      BY <1>7, <2>1, <2>3, TrackedHarts DEF HartCodes
    <3>6. ctl'.push = NoCode
      BY <2>3, <3>2, <3>5 DEF Tracks
    <3> QED
      BY <3>4, <3>6 DEF PathEmpty
  <2> QED
    BY <2>2, <2>4, <2>5, <2>6, <2>7 DEF Path
<1> QED
  BY <1>5, <1>6, <1>7

(* Every step keeps the path of the status codes.                           *)
LEMMA NextPath == SessionInv /\ [Next]_vars => Path'
<1> SUFFICES ASSUME SessionInv, [Next]_vars PROVE Path'
  OBVIOUS
<1>1. CASE Tick
  BY <1>1, TickPath, NextCodes
<1>2. CASE Restart
  BY <1>2 DEF Restart, Path, PathEmpty, Awaiting, In, Alive, InitialRegisters, LinkInitial, Silence, NoCode
<1>3. CASE SendInfo
  <2>1. /\ link.fifo # <<>> /\ link'.fifo = Tail(link.fifo)
        /\ link'.acks = Append(link.acks, Head(link.fifo)) /\ ctl' = ctl
        /\ heard'.last \in {heard.last, Head(link.fifo)}
    BY <1>3, HeardLast DEF SendInfo, SessionInv, Shapes
  <2>2. (Alive' <=> Alive) /\ (Awaiting' <=> Awaiting)
    BY <2>1 DEF Alive, Awaiting, In
  <2>3. link.acks \in Seq(StatusCodes) /\ Path
    BY DEF SessionInv, Codes
  <2>4. link'.acks # <<>>
    BY <2>1, <2>3
  <2>5. CASE Alive /\ ctl.state # "EXECUTE"
    <3>1. ctl.waiting /\ link.fifo = <<ctl.expected>> /\ link.acks = <<>> /\ ctl.push = NoCode /\ Awaiting
      BY <2>1, <2>3, <2>5 DEF Path, OnPath, PathEmpty
    <3>2. link'.fifo = <<>> /\ link'.acks = <<ctl.expected>> /\ Head(link.fifo) = ctl.expected
      BY <2>1, <3>1
    <3>3. OnPath(ctl.expected)'
      BY <2>1, <3>1, <3>2 DEF OnPath
    <3>4. ctl.state = "READY" /\ heard'.last = "READY" => ctl.phase = 4
      BY <3>1 DEF Awaiting, In
    <3> QED
      BY <2>1, <2>2, <2>3, <2>4, <2>5, <3>1, <3>2, <3>3, <3>4 DEF Path, OnPath
  <2>6. CASE Alive /\ ctl.state = "EXECUTE"
    <3>1. HartCodes'
      BY <2>1, <2>3, <2>6, HartSent DEF Path
    <3> QED
      BY <2>1, <2>2, <2>3, <2>6, <3>1 DEF Path
  <2> QED
    BY <2>1, <2>2, <2>5, <2>6 DEF Path
<1>4. CASE UNCHANGED <<ctl, link>> /\ heard'.last = heard.last
  <2>1. /\ UNCHANGED <<ctl, link>> /\ (Alive' <=> Alive) /\ (Awaiting' <=> Awaiting)
        /\ (OnPath(ctl.expected)' <=> OnPath(ctl.expected)) /\ (PathEmpty' <=> PathEmpty)
        /\ (HartCodes' <=> HartCodes)
    BY <1>4 DEF Alive, Awaiting, In, OnPath, PathEmpty, HartCodes, Unconfirmed, Distinct
  <2> QED
    BY <1>4, <2>1 DEF Path, SessionInv, OnPath
<1>5. CASE UNCHANGED ctl /\ (SendLog \/ FrameLeaves \/ DumpBegins \/ DumpEnds)
  <2>1. UNCHANGED <<ctl, link>> /\ heard'.last = heard.last
    BY <1>5, HeardLast DEF SendLog, FrameLeaves, DumpBegins, DumpEnds, SessionInv, Shapes
  <2> QED
    BY <1>4, <2>1
<1> QED
  BY <1>1, <1>2, <1>3, <1>4, <1>5, OtherStep
     DEF Next, Clock, Between, vars, board, Receiving, Answers, Operating, Computing, Faulting

(* The two stages of the synchroniser, spelled out.                         *)
LEMMA Halves ==
    ASSUME NEW s
    PROVE  /\ s = Low => (s[1] = FALSE /\ s[2] = FALSE)
           /\ s = High => (s[1] = TRUE /\ s[2] = TRUE)
           /\ s = Rising => (s[1] = TRUE /\ s[2] = FALSE)
           /\ s = Falling => (s[1] = FALSE /\ s[2] = TRUE)
<1> USE DEF Low, High, Rising, Falling
<1>1. s = Low => (s[1] = FALSE /\ s[2] = FALSE)
  OBVIOUS
<1>2. s = High => (s[1] = TRUE /\ s[2] = TRUE)
  OBVIOUS
<1>3. s = Rising => (s[1] = TRUE /\ s[2] = FALSE)
  OBVIOUS
<1>4. s = Falling => (s[1] = FALSE /\ s[2] = TRUE)
  OBVIOUS
<1> QED
  BY <1>1, <1>2, <1>3, <1>4

(* A clock edge asks for a dump only when none runs and its completion level *)
(* has been seen to fall since the last.                                    *)
LEMMA TickDumps == SessionInv /\ Tick => Dumps'
<1> SUFFICES ASSUME SessionInv, Tick PROVE Dumps'
  OBVIOUS
<1>1. PICK late : Moved(Sampled(late))
  BY TickMove
<1> DEFINE in == Sampled(late)
<1>2. in.dumpDone = dump.sync[2]
  BY Sampling
<1>m. Moved(in)
  BY <1>1
<1> HIDE DEF in
<1>3. /\ dump'.running = dump.running /\ dump'.done = dump.done
      /\ dump'.starting <=> (dump.starting \/ "dumpStart" \in ctl.pulses)
      /\ dump'.sync = <<dump.done, dump.sync[1]>>
  BY DEF Tick, DumpEdge, SessionInv, Shapes, DumpInitial
<1>4. Dumps /\ LegalPhase
  BY DEF SessionInv, Registers
<1>5. Alive' => /\ Alive /\ "globalReset" \notin ctl'.pulses /\ ctl'.state # "ERROR"
  BY <1>m DEF Tick, Alive, Moved, PreMoves, ReadyMoves, ProgMoves, ExecMoves, EndMoves, ResetMoves, FatalMoves, ErrorMoves
<1>6. /\ dump.sync = Low => (dump.sync[1] = FALSE /\ dump.sync[2] = FALSE)
      /\ dump.sync = High => (dump.sync[1] = TRUE /\ dump.sync[2] = TRUE)
      /\ dump.sync = Rising => (dump.sync[1] = TRUE /\ dump.sync[2] = FALSE)
      /\ dump.sync = Falling => (dump.sync[1] = FALSE /\ dump.sync[2] = TRUE)
  BY Halves
<1>d. dump.done = TRUE \/ dump.done = FALSE
  BY <1>4 DEF Dumps
<1>s. /\ dump.sync = Low => dump'.sync = IF dump.done THEN Rising ELSE Low
      /\ dump.sync = Falling => dump'.sync = IF dump.done THEN Rising ELSE Low
      /\ dump.sync = High => dump'.sync = IF dump.done THEN High ELSE Falling
      /\ dump.sync = Rising => dump'.sync = IF dump.done THEN High ELSE Falling
  BY <1>3, <1>6, <1>d DEF Low, High, Rising, Falling
<1> SUFFICES ASSUME Alive' PROVE Dumps'
  BY <1>3, <1>4 DEF Dumps
<1>7. CASE ctl.state # "END"
  <2>1. AtRest /\ ~dump.done /\ dump.sync = Low
    BY <1>4, <1>5, <1>7 DEF Dumps
  <2>2. (ctl'.state # "END" \/ ctl'.phase = 0) /\ "dumpStart" \notin ctl'.pulses
    BY <1>5, <1>7, <1>m
       DEF Moved, PreMoves, ReadyMoves, ProgMoves, ExecMoves, EndMoves, ResetMoves, FatalMoves, ErrorMoves,
           Moves, Stays, Enters, Errs, ExecPhase
  <2>3. AtRest' /\ ~dump'.done /\ dump'.sync = Low
    BY <1>3, <1>4, <1>7, <1>s, <2>1, <2>2, <1>5 DEF AtRest, DumpAsked, Dumps
  <2> QED
    BY <1>3, <1>4, <1>5, <2>2, <2>3 DEF Dumps, In, AtRest, DumpAsked
<1>8. CASE ctl.state = "END"
  <2>1. /\ ctl'.state = "END"
        /\ \/ ctl'.phase = ctl.phase /\ "dumpStart" \notin ctl'.pulses /\ (ctl.phase = 7 => in.dumpDone)
           \/ ctl.phase = 0 /\ ctl'.phase = 1 /\ "dumpStart" \notin ctl'.pulses
           \/ ctl.phase = 1 /\ ctl'.phase = 4 /\ "dumpStart" \in ctl'.pulses
           \/ ctl.phase = 4 /\ ctl'.phase = 2 /\ "dumpStart" \notin ctl'.pulses /\ in.dumpDone
           \/ ctl.phase = 2 /\ ctl'.phase = 3 /\ "dumpStart" \notin ctl'.pulses
           \/ ctl.phase = 3 /\ ctl'.phase = 5 /\ "dumpStart" \notin ctl'.pulses
           \/ ctl.phase = 5 /\ ctl'.phase = 6 /\ "dumpStart" \notin ctl'.pulses
           \/ ctl.phase = 6 /\ ctl'.phase = 7 /\ "dumpStart" \in ctl'.pulses
           \/ ctl.phase = 7 /\ ctl'.phase = 8 /\ "dumpStart" \notin ctl'.pulses /\ ~in.dumpDone
           \/ ctl.phase = 8 /\ ctl'.phase = 5 /\ "dumpStart" \notin ctl'.pulses /\ in.dumpDone
    BY <1>5, <1>8, <1>m
       DEF Moved, PreMoves, ReadyMoves, ProgMoves, ExecMoves, EndMoves, ResetMoves, FatalMoves, ErrorMoves,
           Moves, Stays, Errs
  <2> USE <1>2, <1>3, <1>4, <1>5, <1>6, <1>s, <1>8, <2>1 DEF Dumps, In, AtRest, DumpAsked
  <2>2. dump'.done \in BOOLEAN /\ ctl'.phase \in 0 .. 8
    BY DEF LegalPhase
  <2>3. ~("dumpStart" \in ctl'.pulses /\ dump'.starting)
    OBVIOUS
  <2>4. In("END", {0, 1})' => AtRest' /\ ~dump'.done /\ dump'.sync = Low
    OBVIOUS
  <2>5. In("END", {4})' =>
          \/ DumpAsked' /\ ~dump'.running /\ ~dump'.done /\ dump'.sync = Low
          \/ ~DumpAsked' /\ dump'.running /\ ~dump'.done /\ dump'.sync = Low
          \/ AtRest' /\ dump'.done /\ dump'.sync \in {Low, Rising, High}
    OBVIOUS
  <2>6. In("END", {2, 3, 5, 6})' => AtRest' /\ dump'.done /\ dump'.sync = High
    OBVIOUS
  <2>7. In("END", {7})' =>
          \/ DumpAsked' /\ ~dump'.running /\ dump'.done /\ dump'.sync = High
          \/ /\ ~DumpAsked' /\ dump'.running /\ ~dump'.done
             /\ dump'.sync \in {Low, Falling, High}
          \/ AtRest' /\ dump'.done /\ dump'.sync = Low
    OBVIOUS
  <2>8. In("END", {8})' =>
          \/ ~DumpAsked' /\ dump'.running /\ ~dump'.done /\ dump'.sync = Low
          \/ AtRest' /\ dump'.done /\ dump'.sync \in {Low, Rising, High}
    OBVIOUS
  <2> QED
    BY ONLY <2>1, <2>2, <2>3, <2>4, <2>5, <2>6, <2>7, <2>8 DEF Dumps
<1> QED
  BY <1>7, <1>8

(* Every step keeps the dump with the phases that wait for it.              *)
LEMMA NextDumps == SessionInv /\ [Next]_vars => Dumps'
<1> SUFFICES ASSUME SessionInv, [Next]_vars PROVE Dumps'
  OBVIOUS
<1>0. Dumps /\ DOMAIN dump = DOMAIN DumpInitial
  BY DEF SessionInv, Shapes
<1>1. CASE Tick
  BY <1>1, TickDumps
<1>2. CASE Restart
  BY <1>2 DEF Restart, Dumps, Alive, In, AtRest, DumpAsked, Low, InitialRegisters, DumpInitial
<1> USE DEF DumpInitial
<1>3. CASE DumpBegins
  <2>1. /\ dump.starting /\ ~dump'.starting /\ dump'.running /\ dump'.done = FALSE
        /\ dump'.sync = dump.sync /\ ctl' = ctl
    BY <1>0, <1>3 DEF DumpBegins
  <2> QED
    BY <1>0, <2>1 DEF Dumps, Alive, In, AtRest, DumpAsked, Low, High, Rising, Falling
<1>4. CASE SendLog
  <2>1. /\ dump'.starting = dump.starting /\ dump'.running = dump.running /\ dump'.done = dump.done
        /\ dump'.sync = dump.sync /\ ctl' = ctl
    BY <1>0, <1>4 DEF SendLog
  <2> QED
    BY <1>0, <2>1 DEF Dumps, Alive, In, AtRest, DumpAsked
<1>5. CASE DumpEnds
  <2>1. /\ dump'.starting = dump.starting /\ ~dump'.running /\ dump'.done = TRUE /\ dump.running
        /\ dump'.sync = dump.sync /\ ctl' = ctl /\ dump.sync = Low
    BY <1>0, <1>5 DEF DumpEnds, Low
  <2> QED
    BY <1>0, <2>1 DEF Dumps, Alive, In, AtRest, DumpAsked, Low, High, Rising, Falling
<1>6. CASE UNCHANGED <<ctl, dump>>
  BY <1>0, <1>6 DEF Dumps, Alive, In, AtRest, DumpAsked
<1> QED
  BY <1>1, <1>2, <1>3, <1>4, <1>5, <1>6, OtherStep
     DEF Next, Clock, Between, vars, board, Receiving, SendInfo, FrameLeaves, Answers, Operating,
         Computing, Faulting

(* Every step keeps the invariant.                                          *)
LEMMA NextSession == SessionInv /\ [Next]_vars => SessionInv'
<1> SUFFICES ASSUME SessionInv, [Next]_vars PROVE SessionInv'
  OBVIOUS
<1>1. Shapes' /\ Registers' /\ Codes' /\ Traffic' /\ Engines' /\ Asked'
  BY NextShapes, NextRegisters, NextCodes, NextTraffic, NextEngines
<1>2. Received' /\ Arrivals' /\ Stores'
  BY NextReceived, NextArrives, NextStores
<1>3. Path' /\ Dumps'
  BY NextPath, NextDumps
<1> QED
  BY <1>1, <1>2, <1>3 DEF SessionInv

(* In every session the invariant holds, whatever is lost or fails.         *)
THEOREM SessionInvariant == Spec => []SessionInv
BY InitSession, NextSession, PTL DEF Spec

(* ------------------------------ the last store --------------------------- *)

(* What StoresLanded needs to be inductive: the bus can only fall idle while *)
(* the guard counts, and its level has crossed before the guard ends.       *)
LandingInv == SessionInv /\ ExecuteInv /\ Landing

(* The parts of a pair.                                                     *)
LEMMA Pairs ==
    ASSUME NEW s, NEW x, NEW y, s = <<x, y>>
    PROVE  /\ s[1] = x /\ s[2] = y
           /\ (x \in BOOLEAN /\ y \in BOOLEAN => s \in BOOLEAN \X BOOLEAN)
  OBVIOUS

(* The parts of a pair of levels are levels.                                *)
LEMMA Sides ==
    ASSUME NEW s \in BOOLEAN \X BOOLEAN
    PROVE  s[1] \in BOOLEAN /\ s[2] \in BOOLEAN
  OBVIOUS

(* A clock edge counts the guard only when all harts have stopped, and ends *)
(* it only when the bus has been idle long enough to be seen.               *)
LEMMA TickLands ==
    ASSUME LandingInv, Tick, IdleGuard >= 3
    PROVE  Landing'
<1>1. PICK late : Moved(Sampled(late))
  BY TickMove DEF LandingInv
<1> DEFINE in == Sampled(late)
<1>2. /\ in.stopped = {h \in Harts : cores.hart[h] = "STOPPED"}
      /\ in.axiIdle = cores.idle[2] /\ in.writeDone = cores.written
  BY Sampling
<1>m. Moved(in)
  BY <1>1
<1> HIDE DEF in
<1>3. /\ cores'.hart = cores.hart /\ cores'.bus = cores.bus /\ cores'.written = cores.written
      /\ cores'.idle = <<~cores.bus, cores.idle[1]>>
  BY DEF Tick, CoresEdge, LandingInv, SessionInv, Shapes, CoresInitial
<1>4. /\ Landing /\ ctl.counter \in Nat /\ LegalPhase /\ IdleGuard \in Nat
  BY ControllerAssumption DEF LandingInv, SessionInv, Registers
<1>5. /\ cores.bus \in BOOLEAN /\ cores.idle[1] \in BOOLEAN /\ cores.idle[2] \in BOOLEAN
      /\ cores.written \in BOOLEAN
  BY <1>4, Sides DEF Landing
<1>6. /\ cores'.idle \in BOOLEAN \X BOOLEAN
      /\ cores'.idle[1] = ~cores.bus /\ cores'.idle[2] = cores.idle[1]
  <2> DEFINE idle == cores'.idle
             up == ~cores.bus
             next == cores.idle[1]
  <2>1. idle = <<up, next>> /\ up \in BOOLEAN /\ next \in BOOLEAN
    BY <1>3, <1>5
  <2> HIDE DEF idle, up, next
  <2>2. idle[1] = up /\ idle[2] = next /\ idle \in BOOLEAN \X BOOLEAN
    BY <2>1, Pairs
  <2> QED
    BY <2>2 DEF idle, up, next
<1>7. AllStopped' = AllStopped /\ (Finished(in) => AllStopped /\ cores.written /\ cores.idle[2])
  BY <1>2, <1>3 DEF AllStopped, Finished
<1>8. ctl.state \in {"EXECUTE", "END", "ERROR"} => ctl'.state \in {"EXECUTE", "END", "ERROR"}
  BY <1>m DEF Moved, PreMoves, ReadyMoves, ProgMoves, ExecMoves, EndMoves, ResetMoves, FatalMoves, ErrorMoves,
              Moves, Stays, Errs, ExecPhase
<1>9. /\ cores'.hart \in [Harts -> {"RESET", "STARTED", "STOPPED"}]
      /\ cores'.bus \in BOOLEAN /\ cores'.written \in BOOLEAN
      /\ cores'.bus \/ (\E h \in Harts : cores'.hart[h] # "RESET") =>
             ctl'.state \in {"EXECUTE", "END", "ERROR"}
  BY <1>3, <1>4, <1>8 DEF Landing
<1> DEFINE entered == ctl.state = "PROGRAM_WRITE" /\ ctl'.phase = 0
<1>10. CASE ctl'.state = "EXECUTE"
  <2>1. \/ ctl'.phase = 0
        \/ ctl.state = "EXECUTE" /\ ctl'.phase = 1 /\ (ctl'.counter = 0 \/ (ctl.phase = 1 /\ ctl'.counter = ctl.counter))
        \/ ctl.state = "EXECUTE" /\ ctl'.phase = 2 /\
             \/ ctl'.counter = 0
             \/ ctl.phase \in {1, 2} /\ ctl'.counter = ctl.counter
             \/ ctl.phase = 2 /\ ctl'.counter = ctl.counter + 1 /\ Finished(in)
    BY <1>10, <1>m, <1>4 DEF Moved, PreMoves, ReadyMoves, ProgMoves, ExecMoves, EndMoves, ResetMoves, FatalMoves, ErrorMoves,
              Moves, Stays, Enters, Errs, ExecPhase, SameCounter, LegalPhase
  <2>2. In("EXECUTE", {1})' => ctl'.counter = 0
    BY <1>4, <2>1 DEF Landing, In
  <2>3. In("EXECUTE", {2})' =>
          /\ ctl'.counter > 0 => AllStopped' /\ cores'.written /\ (cores'.idle[1] => ~cores'.bus)
          /\ ctl'.counter > 1 => (cores'.idle[2] => ~cores'.bus)
    BY <1>3, <1>4, <1>5, <1>6, <1>7, <2>1 DEF Landing, In
  <2> QED
    BY <1>6, <1>9, <1>10, <2>2, <2>3 DEF Landing, In
<1>11. CASE ctl'.state = "END"
  <2>1. \/ ctl.state = "END"
        \/ ctl.state = "EXECUTE" /\ ctl.phase = 2 /\ Finished(in) /\ ctl.counter >= IdleGuard - 1
    BY <1>11, <1>m DEF Moved, PreMoves, ReadyMoves, ProgMoves, ExecMoves, EndMoves, ResetMoves, FatalMoves, ErrorMoves,
              Moves, Stays, Enters, Errs, ExecPhase
  <2>2. AllStopped /\ cores.written /\ ~cores.bus
    <3>1. CASE ctl.state = "END"
      BY <1>4, <3>1 DEF Landing
    <3>2. CASE ctl.state = "EXECUTE" /\ ctl.phase = 2 /\ Finished(in) /\ ctl.counter >= IdleGuard - 1
      <4>1. ctl.counter > 1
        BY <1>4, <3>2
      <4> QED
        BY <1>4, <1>7, <3>2, <4>1 DEF Landing, In
    <3> QED
      BY <2>1, <3>1, <3>2
  <2> QED
    BY <1>3, <1>6, <1>7, <1>9, <1>11, <2>2 DEF Landing, In
<1>12. CASE ctl'.state \notin {"EXECUTE", "END"}
  BY <1>6, <1>9, <1>12 DEF Landing, In
<1> QED
  BY <1>10, <1>11, <1>12

(* Every step keeps it.                                                     *)
LEMMA NextLanding ==
    ASSUME LandingInv, [Next]_vars, IdleGuard >= 3
    PROVE  Landing'
<1>0. Landing /\ DOMAIN cores = DOMAIN CoresInitial
  BY DEF LandingInv, SessionInv, Shapes
<1>4c. ctl.counter > 1 => ctl.counter > 0
  BY DEF LandingInv, SessionInv, Registers
<1>1. CASE Tick
  BY <1>1, TickLands
<1>2. CASE Restart
  BY <1>2 DEF Restart, Landing, In, InitialRegisters, CoresInitial
<1>3. CASE UNCHANGED ctl /\ Computing
  <2>1. ctl.state \in {"EXECUTE", "END"} /\ ctl' = ctl
    BY <1>3 DEF Computing, LandingInv, ExecuteInv
  <2>2. cores.hart \in [Harts -> {"RESET", "STARTED", "STOPPED"}] /\ cores.written \in BOOLEAN
        /\ cores.idle \in BOOLEAN \X BOOLEAN /\ cores.bus \in BOOLEAN
    BY <1>0 DEF Landing
  <2>3. /\ cores'.hart \in [Harts -> {"RESET", "STARTED", "STOPPED"}]
        /\ cores'.bus \in BOOLEAN /\ cores'.written \in BOOLEAN /\ cores'.idle = cores.idle
        /\ AllStopped => AllStopped' /\ (cores.written => cores'.written) /\ (cores'.bus => cores.bus)
    <3> USE <1>0, <2>2 DEF CoresInitial, CoreStep, AllStopped
    <3>h. \E h : h \in Harts
      BY DEF Harts
    <3>1. CASE InitCores
      BY <3>1 DEF InitCores
    <3>2. CASE InfoWritten
      BY <3>2 DEF InfoWritten
    <3>3. CASE \E h \in Harts : StartHart(h)
      BY <3>3 DEF StartHart
    <3>4. CASE \E h \in Harts : StopHart(h)
      BY <3>4 DEF StopHart
    <3>5. CASE Access
      BY <3>5 DEF Access
    <3>6. CASE AccessEnds
      BY <3>6 DEF AccessEnds
    <3> QED
      BY <1>3, <3>1, <3>2, <3>3, <3>4, <3>5, <3>6 DEF Computing, Compute
  <2>4. cores.idle[1]' = cores.idle[1] /\ cores.idle[2]' = cores.idle[2]
    BY <2>3
  <2>5. In("EXECUTE", {1})' => ctl'.counter = 0
    BY <1>0, <2>1 DEF Landing, In
  <2>6. In("EXECUTE", {2})' =>
          /\ ctl'.counter > 0 => AllStopped' /\ cores'.written /\ (cores'.idle[1] => ~cores'.bus)
          /\ ctl'.counter > 1 => (cores'.idle[2] => ~cores'.bus)
    <3>1. In("EXECUTE", {2}) =>
            /\ ctl.counter > 0 => AllStopped /\ cores.written /\ (cores.idle[1] => ~cores.bus)
            /\ ctl.counter > 1 => (cores.idle[2] => ~cores.bus)
      BY <1>0 DEF Landing
    <3>2. ctl' = ctl /\ (In("EXECUTE", {2})' => In("EXECUTE", {2}))
      BY <2>1 DEF In
    <3>3. /\ AllStopped => AllStopped'
          /\ AllStopped /\ cores.written => cores'.written
          /\ AllStopped /\ ~cores.bus => ~cores'.bus
      BY <2>2, <2>3
    <3>4. In("EXECUTE", {2})' /\ ctl.counter > 0 =>
            AllStopped /\ cores.written /\ (cores.idle[1] => ~cores.bus)
      BY <3>1, <3>2
    <3>5. In("EXECUTE", {2})' /\ ctl.counter > 1 => AllStopped
      BY <3>1, <3>2, <1>4c
    <3>6. In("EXECUTE", {2})' /\ ctl.counter > 1 => (cores.idle[2] => ~cores.bus)
      BY <3>1, <3>2
    <3> QED
      BY <2>4, <3>2, <3>3, <3>4, <3>5, <3>6
  <2>7. ctl'.state = "END" => AllStopped' /\ cores'.written /\ ~cores'.bus
    BY <1>0, <2>1, <2>3 DEF Landing
  <2>8. cores'.idle \in BOOLEAN \X BOOLEAN /\ ctl'.state \in {"EXECUTE", "END", "ERROR"}
    BY <2>1, <2>2, <2>3
  <2> QED
    BY <2>3, <2>5, <2>6, <2>7, <2>8 DEF Landing
<1>4. CASE UNCHANGED <<ctl, cores>>
  BY <1>0, <1>4 DEF Landing, In, AllStopped
<1> QED
  BY <1>1, <1>2, <1>3, <1>4, OtherStep
     DEF Next, Clock, Between, vars, board, Receiving, SendInfo, FrameLeaves, DumpBegins, SendLog,
         DumpEnds, Answers, Operating, Faulting

(* In every session it holds when the guard is longer than the two stages of *)
(* the synchroniser (AXI_IDLE_GUARD_CYCLES is 16).                          *)
THEOREM LandingInvariant == ASSUME IdleGuard >= 3 PROVE Spec => []LandingInv
<1>1. Init => LandingInv
  <2>1. Init => Landing
    <3>1. SUFFICES ASSUME Init PROVE Landing
      OBVIOUS
    <3>2. /\ cores.hart = [h \in Harts |-> "RESET"] /\ cores.bus = FALSE /\ cores.written = FALSE
          /\ cores.idle = <<FALSE, FALSE>> /\ ctl.state = "PRECONFIG"
      BY <3>1 DEF Init, InitialRegisters, CoresInitial
    <3> DEFINE idle == cores.idle
    <3>3. idle \in BOOLEAN \X BOOLEAN
      <4>1. idle = <<FALSE, FALSE>>
        BY <3>2
      <4> HIDE DEF idle
      <4> QED
        BY <4>1, Pairs
    <3>4. \A h \in Harts : cores.hart[h] = "RESET"
      BY <3>2
    <3>5. cores.hart \in [Harts -> {"RESET", "STARTED", "STOPPED"}]
      BY <3>2
    <3> QED
      BY <3>2, <3>3, <3>4, <3>5 DEF Landing, In
  <2> QED
    BY <2>1, InitSession, InitExecuteInv DEF LandingInv
<1>2. LandingInv /\ [Next]_vars => LandingInv'
  BY NextSession, NextExecuteInv, NextLanding DEF LandingInv
<1> QED
  BY <1>1, <1>2, PTL DEF Spec

(* END is entered only when the store that stopped the last hart has landed *)
(* (the guard of eh2_system_controller.sv:771-790 on the synchronised bus   *)
(* level).                                                                  *)
THEOREM StoresLand == ASSUME IdleGuard >= 3 PROVE Spec => []StoresLanded
<1>1. LandingInv => StoresLanded
  BY DEF LandingInv, Landing, StoresLanded
<1> QED
  BY <1>1, LandingInvariant, PTL

(* Every step keeps the program path closed while the cores run.            *)
LEMMA NextClosed == SessionInv /\ Closed /\ [Next]_vars => Closed'
<1> SUFFICES ASSUME SessionInv, Closed, [Next]_vars, ctl'.state \in {"EXECUTE", "END"}
             PROVE  rx'.dma = "IDLE"
  BY DEF Closed
<1>0. DOMAIN rx = DOMAIN RxInitial /\ Ordered(rx.inbox) /\ Asked /\ Stores
  BY DEF SessionInv, Shapes, Received
<1>1. CASE Tick
  <2>1. PICK late : Moved(Sampled(late))
    BY <1>1, TickMove
  <2> DEFINE in == Sampled(late)
  <2>m. Moved(in)
    BY <2>1
  <2> HIDE DEF in
  <2>2. ctl.state \in {"EXECUTE", "END"} \/ (In("PROGRAM_WRITE", {1}) /\ Alive)
    BY <1>1, <2>m DEF Moved, PreMoves, ReadyMoves, ProgMoves, ExecMoves, EndMoves, ResetMoves, FatalMoves,
              ErrorMoves, Moves, Stays, Enters, Errs, ExecPhase, In, Alive, Tick
  <2>3. rx.dma = "IDLE"
    BY <1>0, <2>2 DEF Closed, Stores, In, Written
  <2> QED
    BY <1>0, <1>1, <2>3, EdgeFields
<1>2. CASE Restart
  BY <1>2 DEF Restart, RxInitial
<1>3. CASE UNCHANGED <<ctl, rx>>
  BY <1>3 DEF Closed
<1>4. CASE UNCHANGED ctl /\ Receiving
  BY <1>0, <1>4, QuietReceive DEF Closed, Open, Ddr0Owner
<1>5. CASE UNCHANGED ctl /\ Answers
  <2>1. rx'.dma = rx.dma
    BY <1>0, <1>5 DEF Answers, SendTest, SendProgram, Deliver, RequestReplay, RequestReset, Command, RxInitial
  <2> QED
    BY <1>5, <2>1 DEF Closed
<1> QED
  BY <1>1, <1>2, <1>3, <1>4, <1>5, OtherStep
     DEF Next, Clock, Between, vars, board, SendInfo, FrameLeaves, DumpBegins, SendLog,
         DumpEnds, Operating, Computing, Faulting

(* Once EXECUTE is entered no program frame is under way to the memory.     *)
THEOREM ClosedInvariant == Spec => [](SessionInv /\ Closed)
<1>1. Init => Closed
  BY DEF Init, InitialRegisters, Closed
<1> QED
  BY <1>1, InitSession, NextSession, NextClosed, PTL DEF Spec

(* A memory changes hands only when the master that has it is done: no      *)
(* engine, DMA, dump or core is caught by a switch of the owner tables      *)
(* (eh2_system_controller.sv:138-179), in any session, unless it is in      *)
(* ERROR.                                                                   *)
THEOREM Handover == ASSUME IdleGuard >= 3 PROVE Spec => []MemoryHandover
<1>1. SessionInv /\ Closed /\ LandingInv => MemoryHandover
  <2> SUFFICES ASSUME SessionInv, Closed, LandingInv, ctl.state # "ERROR"
               PROVE  /\ DmaBusy => Ddr0Owner = "PROGRAM"
                      /\ ops.instr = "RUN" => Ddr0Owner = "CHECKER"
                      /\ ops.zero = "RUN" => Ddr0Owner = "ZERO"
                      /\ cores.bus => Ddr0Owner = "EH2"
                      /\ ops.atg = "RUN" => Ddr1Owner = "ATG"
                      /\ ops.data = "RUN" => Ddr1Owner = "CHECKER"
                      /\ dump.running => Ddr1Owner = "INFO_READ"
                      /\ (\E h \in Harts : cores.hart[h] # "RESET") /\ ~cores.written =>
                            Ddr1Owner = "INFO_WRITE"
    BY DEF MemoryHandover
  <2>1. /\ Arrivals /\ Engines /\ Landing /\ ExecuteInv /\ LegalPhase
    BY DEF SessionInv, LandingInv, Registers
  <2>2. ctl.state \in {"PRECONFIG", "READY", "PROGRAM_WRITE", "EXECUTE", "END"}
    BY DEF SessionInv, Registers, States
  <2>3. DmaBusy => Ddr0Owner = "PROGRAM"
    BY <2>1, <2>2 DEF Arrivals, Checked, Resting, Closed, DmaBusy, Ddr0Owner, Checking, In
  <2>4. ops.instr = "RUN" \/ ops.data = "RUN" => ctl.state = "PRECONFIG" /\ Checking
    BY <2>1 DEF Engines, Ended
  <2>5. ops.zero = "RUN" => ctl.state = "READY"
    BY <2>1, <2>2 DEF Engines, Ended
  <2>6. ops.atg = "RUN" => ctl.state = "PRECONFIG" /\ ~Checking
    BY <2>1 DEF Engines, Ended
  <2>7. /\ cores.bus => ctl.state \in {"EXECUTE", "END"}
        /\ (\E h \in Harts : cores.hart[h] # "RESET") /\ ~cores.written => ctl.state = "EXECUTE"
    BY <2>1, <2>2 DEF Landing
  <2>8. dump.running => ctl.state = "END"
    BY <2>1, <2>2 DEF ExecuteInv, Dumping
  <2> QED
    BY <2>3, <2>4, <2>5, <2>6, <2>7, <2>8 DEF Ddr0Owner, Ddr1Owner
<1> QED
  BY <1>1, ClosedInvariant, LandingInvariant, PTL

(* Every register is in its range and the controller is in a phase it has a *)
(* branch for, so ERR_ILLEGAL_STATE is never reported.                      *)
THEOREM TypeCorrect == Spec => []TypeOK
<1>1. SessionInv => TypeOK
  BY DEF SessionInv, Registers, Codes, Traffic, Received, Counting, TypeOK
<1> QED
  BY <1>1, SessionInvariant, PTL

(* The cores run only on the complete program, whatever frames the network  *)
(* lost: the counts the controller compares before it enters EXECUTE are    *)
(* those of what the memory holds.                                          *)
THEOREM WholeProgram == Spec => []ExecutesWholeProgram
<1>1. SessionInv /\ ExecuteInv => ExecutesWholeProgram
  <2> SUFFICES ASSUME SessionInv, ExecuteInv, ctl.execute
               PROVE  /\ Len(rx.ddr0) >= ProgramFrames
                      /\ \A i \in 1 .. ProgramFrames : rx.ddr0[i] = "PROGRAM"
    BY DEF ExecutesWholeProgram
  <2>1. Alive /\ ctl.state \in {"EXECUTE", "END"}
    BY DEF SessionInv, ExecuteInv, Asked, Alive
  <2>2. rx.doneCount = ProgramFrames /\ Stocked
    BY <2>1 DEF SessionInv, Stores, Written
  <2>3. \A i \in 1 .. ProgramFrames : i \in 1 .. Counted
    BY <2>2, SystemAssumption DEF Counted
  <2>4. \A i \in 1 .. ProgramFrames : i <= Len(rx.ddr0) /\ rx.ddr0[i] = "PROGRAM"
    BY <2>2, <2>3 DEF Stocked
  <2>5. ProgramFrames \in 1 .. ProgramFrames
    BY SystemAssumption
  <2> QED
    BY <2>4, <2>5
<1> QED
  BY <1>1, SessionInvariant, ExecuteInvariant, PTL

(* Every step keeps the verdict from being better than the memories.        *)
LEMMA NextVerdicts ==
    ASSUME SessionInv, Verdicts, [Next]_vars
    PROVE  Verdicts'
<1>0. /\ Engines /\ Asked /\ Verdicts /\ DOMAIN ops = DOMAIN OpsInitial /\ LegalPhase
      /\ Registers /\ ctl.fail \subseteq {"INSTR", "DATA"}
  BY DEF SessionInv, Shapes, Registers
<1>1. CASE Tick
  <2>1. PICK late \in Skews : Moved(Sampled(late))
    BY <1>1, TickMove
  <2> DEFINE in == Sampled(late)
  <2>3. /\ in.instrDone => ops.instr \in Ended /\ (~in.instrFail => ops.instr = "PASS")
        /\ in.dataDone => ops.data \in Ended /\ (~in.dataFail => ops.data = "PASS")
    BY DEF Sampled, Seen
  <2>m. Moved(in)
    BY <2>1
  <2> HIDE DEF in
  <2>4. "checkStart" \notin ctl.pulses => ops'.instr = ops.instr /\ ops'.data = ops.data
    BY <1>0, <1>1 DEF Tick, OpsEdge, Launch, OpsInitial
  <2>5. "checkStart" \in ctl.pulses =>
           ctl.state = "PRECONFIG" /\ ctl.phase = 3 /\ ~in.instrDone /\ ~in.dataDone
    BY <1>0, <2>3 DEF Asked, In, Ended
  <2>t. Tracked(in).push \in HartStatuses \cup {NoCode}
    BY TrackedPush
  <2> DEFINE Passing == ctl'.state = "PRECONFIG" /\ ctl'.phase \in {4, 5} /\ ctl'.fail = {}
             Beyond == ctl'.state \notin {"PRECONFIG", "ERROR"}
  <2>p. ctl'.push = "CHECK_PASS" =>
           ctl'.state = "PRECONFIG" /\ ctl'.phase = 5 /\ ctl'.fail = {}
    BY SMTT(30), <1>0, <2>t, <2>m
       DEF Moved, PreMoves, ReadyMoves, ProgMoves, ExecMoves, EndMoves, ResetMoves, FatalMoves,
           ErrorMoves, Moves, Stays, Enters, Errs, Sends, Tracks, Verdict, Judges, NoCode, HartStatuses,
           Registers, ErrorCodes
  <2>6. CASE ctl.state = "PRECONFIG" /\ ctl.phase = 3
    <3>1. Passing \/ Beyond => GoodMemories
      BY SMTT(30), <1>0, <2>m, <2>3, <2>6
         DEF Moved, PreMoves, ReadyMoves, ProgMoves, ExecMoves, EndMoves, ResetMoves, FatalMoves,
             ErrorMoves, Moves, Stays, Enters, Errs, Judges, GoodMemories
    <3>2. Passing \/ Beyond => in.instrDone
      BY SMTT(30), <1>0, <2>m, <2>6
         DEF Moved, PreMoves, ReadyMoves, ProgMoves, ExecMoves, EndMoves, ResetMoves, FatalMoves,
             ErrorMoves, Moves, Stays, Enters, Errs, Judges
    <3> QED
      BY <2>4, <2>5, <2>p, <3>1, <3>2 DEF Verdicts, In, GoodMemories
  <2>7. CASE ~(ctl.state = "PRECONFIG" /\ ctl.phase = 3)
    <3>1. Passing \/ Beyond => GoodMemories
      BY SMTT(30), <1>0, <2>m, <2>7
         DEF Moved, PreMoves, ReadyMoves, ProgMoves, ExecMoves, EndMoves, ResetMoves, FatalMoves,
             ErrorMoves, Moves, Stays, Enters, Errs, ExecPhase, Judges, Verdicts, In
    <3> QED
      BY <2>4, <2>5, <2>7, <2>p, <3>1 DEF Verdicts, In, GoodMemories
  <2> QED
    BY <2>6, <2>7
<1>2. CASE Restart
  BY <1>2 DEF Restart, Verdicts, InitialRegisters, In, NoCode
<1>3. CASE UNCHANGED <<ctl, ops>>
  BY <1>0, <1>3 DEF Verdicts, In, GoodMemories
<1>4. CASE UNCHANGED ctl /\ Operating
  <2>1. GoodMemories => GoodMemories'
    <3>1. CASE BringUp
      BY <1>0, <3>1 DEF BringUp, OpsInitial, GoodMemories
    <3>2. CASE \E op \in DOMAIN FaultOf : FinishOp(op)
      BY <1>0, <3>2, EngineEnds DEF GoodMemories
    <3> QED
      BY <1>4, <3>1, <3>2 DEF Operating, Operate
  <2> QED
    BY <1>0, <1>4, <2>1 DEF Verdicts, In
<1> QED
  BY <1>1, <1>2, <1>3, <1>4, OtherStep
     DEF Next, Clock, Between, vars, board, Receiving, SendInfo, FrameLeaves, DumpBegins, SendLog,
         DumpEnds, Computing, Answers, Faulting

(* A pass is reported, and the program taken, only with two good memories,   *)
(* whether or not the bits of a checker part ways between the clocks.        *)
THEOREM BadMemory == Spec => []BadMemoryStops
<1>1. Init => Verdicts
  BY DEF Init, InitialRegisters, Verdicts, In, NoCode
<1>2. SessionInv /\ Verdicts /\ [Next]_vars => Verdicts'
  BY NextVerdicts
<1>3. Verdicts => BadMemoryStops
  BY DEF Verdicts, BadMemoryStops, GoodMemories, In
<1> QED
  BY <1>1, <1>2, <1>3, InitSession, NextSession, PTL DEF Spec

(* The parts of a triple.                                                   *)
LEMMA Triples ==
    ASSUME NEW s, NEW x, NEW y, NEW z, s = <<x, y, z>>
    PROVE  s[1] = x /\ s[2] = y /\ s[3] = z
  OBVIOUS

(* Of two counters at most MacDepth apart the completed one has reached the *)
(* submitted one only when they are equal, wherever they have wrapped.      *)
LEMMA Drained ==
    ASSUME Traffic, Reached(mac.completed, mac.submitted)
    PROVE  mac.completed = mac.submitted
<1> DEFINE c == mac.completed
           s == mac.submitted
<1>1. /\ c \in 0 .. Counts - 1 /\ s \in 0 .. Counts - 1
      /\ (s - c) % Counts <= MacDepth /\ (c - s) % Counts < Counts \div 2
  BY DEF Traffic, Reached
<1>2. Counts \in Nat /\ MacDepth \in Nat /\ Counts > 2 * MacDepth
  BY SystemAssumption, ControllerAssumption
<1> HIDE DEF c, s
<1>3. /\ (s - c) % Counts = IF s >= c THEN s - c ELSE s - c + Counts
      /\ (c - s) % Counts = IF c >= s THEN c - s ELSE c - s + Counts
  BY <1>1, Distance
<1>4. c = s
  BY <1>1, <1>2, <1>3
<1> QED
  BY <1>4 DEF c, s

(* At the barrier no status code is left to send and no dump runs, so nobody *)
(* submits a frame.                                                         *)
LEMMA AtTheBarrier ==
    ASSUME SessionInv, Alive
    PROVE  /\ In("END", {5}) => link.fifo = <<>> /\ AtRest
           /\ In("END", {6}) /\ ctl.push # NoCode => link.fifo = <<>> /\ AtRest
<1>1. (ctl.waiting <=> Awaiting) /\ Dumps
      /\ (ctl.state # "EXECUTE" => IF ctl.waiting THEN OnPath(ctl.expected) ELSE PathEmpty)
  BY DEF SessionInv, Path
<1> QED
  BY <1>1 DEF In, Awaiting, PathEmpty, OnPath, Dumps

(* A clock edge takes the count for settled only after it has crossed.      *)
LEMMA TickBarrier ==
    ASSUME SessionInv, Barrier, Tick, CountGuard >= 3
    PROVE  Barrier'
<1>0. /\ Barrier /\ Registers /\ Traffic /\ DOMAIN mac = DOMAIN MacInitial /\ CountGuard \in Nat
  BY ControllerAssumption DEF SessionInv, Shapes
<1>1. PICK late : Moved(Sampled(late))
  BY TickMove
<1> DEFINE in == Sampled(late)
<1>2. in.submitted = mac.sync[3] /\ in.completed = mac.completed
  BY Sampling
<1>m. Moved(in)
  BY <1>1
<1> HIDE DEF in
<1>3. /\ mac'.sync[1] = mac.submitted /\ mac'.sync[2] = mac.sync[1] /\ mac'.sync[3] = mac.sync[2]
      /\ mac'.submitted = mac.submitted /\ mac'.completed = mac.completed
  <2> DEFINE sync == mac'.sync
             first == mac.sync[1]
             second == mac.sync[2]
             new == mac.submitted
  <2>1. sync = <<new, first, second>>
    BY <1>0 DEF Tick, MacEdge, MacInitial
  <2>2. mac'.submitted = mac.submitted /\ mac'.completed = mac.completed
    BY <1>0 DEF Tick, MacEdge, MacInitial
  <2> HIDE DEF sync, first, second, new
  <2>3. sync[1] = new /\ sync[2] = first /\ sync[3] = second
    BY <2>1, Triples
  <2> QED
    BY <2>2, <2>3 DEF sync, first, second, new
<1>4. Alive' => Alive /\ "globalReset" \notin ctl'.pulses /\ ctl'.state # "ERROR"
  BY <1>m DEF Tick, Alive, Moved, PreMoves, ReadyMoves, ProgMoves, ExecMoves, EndMoves, ResetMoves,
              FatalMoves, ErrorMoves
<1>5. ctl.counter \in Nat
  BY <1>0 DEF Registers
<1>6. ASSUME Alive', In("END", {5, 6, 7, 8})'
      PROVE  \/ ctl'.phase = 5 /\ ctl'.counter = 0 /\ ~ctl'.targetValid
             \/ /\ In("END", {5}) /\ ctl'.phase = 5
                /\ \/ SameCounter /\ Aims
                   \/ ctl'.counter = ctl.counter + 1 /\ ~ctl.targetValid /\ Aims
                   \/ ctl.counter >= CountGuard - 1 /\ ctl'.counter = 0 /\ ctl'.target = in.submitted
                   \/ ctl.targetValid /\ SameCounter /\ ctl'.target = ctl.target
             \/ /\ In("END", {5}) /\ ctl'.phase = 6 /\ SameCounter /\ ~ctl'.targetValid /\ ctl.targetValid
             \/ /\ In("END", {6, 7, 8}) /\ SameCounter /\ Aims
  BY <1>4, <1>6, <1>m DEF Moved, PreMoves, ReadyMoves, ProgMoves, ExecMoves, EndMoves, ResetMoves,
              FatalMoves, ErrorMoves, Moves, Stays, Enters, Errs, ExecPhase, In
<1>7. Alive' /\ In("END", {5})' =>
          /\ mac'.sync[1] = mac'.submitted
          /\ ctl'.counter > 0 => mac'.sync[2] = mac'.submitted
          /\ ctl'.counter > 1 => mac'.sync[3] = mac'.submitted
          /\ ctl'.targetValid => ctl'.target = mac'.submitted /\ ctl'.counter = 0
  <2> SUFFICES ASSUME Alive', In("END", {5})'
               PROVE  /\ ctl'.counter > 0 => mac'.sync[2] = mac'.submitted
                      /\ ctl'.counter > 1 => mac'.sync[3] = mac'.submitted
                      /\ ctl'.targetValid => ctl'.target = mac'.submitted /\ ctl'.counter = 0
    BY <1>3
  <2>1. ctl'.phase = 5 /\ In("END", {5, 6, 7, 8})'
    BY DEF In
  <2>2. CASE ctl'.counter = 0 /\ ~ctl'.targetValid
    BY <2>2
  <2>3. CASE In("END", {6, 7, 8}) /\ SameCounter /\ Aims
    BY <1>0, <1>4, <2>3 DEF Barrier, SameCounter, Aims
  <2>4. CASE /\ In("END", {5})
             /\ \/ SameCounter /\ Aims
                \/ ctl'.counter = ctl.counter + 1 /\ ~ctl.targetValid /\ Aims
                \/ ctl.counter >= CountGuard - 1 /\ ctl'.counter = 0 /\ ctl'.target = in.submitted
                \/ ctl.targetValid /\ SameCounter /\ ctl'.target = ctl.target
    <3>1. /\ mac.sync[1] = mac.submitted
          /\ ctl.counter > 0 => mac.sync[2] = mac.submitted
          /\ ctl.counter > 1 => mac.sync[3] = mac.submitted
          /\ ctl.targetValid => ctl.target = mac.submitted /\ ctl.counter = 0
      BY <1>0, <1>4, <2>4 DEF Barrier
    <3>2. CASE SameCounter /\ Aims
      BY <1>3, <1>5, <3>1, <3>2 DEF SameCounter, Aims
    <3>3. CASE ctl'.counter = ctl.counter + 1 /\ ~ctl.targetValid /\ Aims
      BY <1>3, <1>5, <3>1, <3>3 DEF Aims
    <3>4. CASE ctl.counter >= CountGuard - 1 /\ ctl'.counter = 0 /\ ctl'.target = in.submitted
      BY <1>0, <1>2, <1>3, <1>5, <3>1, <3>4
    <3>5. CASE ctl.targetValid /\ SameCounter /\ ctl'.target = ctl.target
      BY <1>3, <1>5, <3>1, <3>5 DEF SameCounter
    <3> QED
      BY <2>4, <3>2, <3>3, <3>4, <3>5
  <2> QED
    BY <1>6, <2>1, <2>2, <2>3, <2>4
<1>8. Alive' /\ In("END", {6, 7, 8})' => ~ctl'.targetValid /\ ctl'.counter = 0
  BY <1>0, <1>4, <1>6 DEF In, Barrier, SameCounter, Aims
<1>9. ctl'.push = "RETRANSMIT_BEGIN" => Alive' /\ In("END", {6})' /\ mac'.completed = mac'.submitted
  <2> SUFFICES ASSUME ctl'.push = "RETRANSMIT_BEGIN"
               PROVE  Alive' /\ In("END", {6})' /\ mac'.completed = mac'.submitted
    OBVIOUS
  <2>1. Tracked(in).push \in HartStatuses \cup {NoCode}
    BY TrackedPush
  <2>2. /\ In("END", {5}) /\ ctl'.state = "END" /\ ctl'.phase = 6 /\ ctl'.pulses = {}
        /\ ctl.targetValid /\ Reached(in.completed, ctl.target)
    BY <1>0, <2>1, <1>m DEF Moved, PreMoves, ReadyMoves, ProgMoves, ExecMoves, EndMoves, ResetMoves,
              FatalMoves, ErrorMoves, Moves, Stays, Enters, Errs, Sends, Tracks, Verdict, NoCode, HartStatuses,
              ErrorCodes, Registers, In
  <2>3. Alive' /\ In("END", {6})'
    BY <2>2 DEF Alive, In
  <2>4. ctl.target = mac.submitted
    BY <1>0, <1>4, <2>2, <2>3 DEF Barrier
  <2>5. Reached(mac.completed, mac.submitted)
    BY <1>2, <2>2, <2>4
  <2> QED
    BY <1>0, <1>3, <2>3, <2>5, Drained
<1> QED
  BY <1>7, <1>8, <1>9 DEF Barrier

(* Every step keeps the barrier.                                            *)
LEMMA NextBarrier ==
    ASSUME SessionInv, Barrier, [Next]_vars, CountGuard >= 3
    PROVE  Barrier'
<1>0. Barrier /\ DOMAIN mac = DOMAIN MacInitial
  BY DEF SessionInv, Shapes
<1>1. CASE Tick
  BY <1>1, TickBarrier
<1>2. CASE Restart
  BY <1>2 DEF Restart, Barrier, Alive, In, InitialRegisters, NoCode
<1>3. CASE UNCHANGED <<ctl, mac>>
  BY <1>0, <1>3 DEF Barrier, Alive, In
<1>4. CASE UNCHANGED ctl /\ FrameLeaves
  <2>1. mac'.sync = mac.sync /\ mac'.submitted = mac.submitted /\ mac.completed # mac.submitted
    BY <1>0, <1>4 DEF FrameLeaves, MacInitial
  <2> QED
    BY <1>0, <1>4, <2>1 DEF Barrier, Alive, In
<1>5. CASE UNCHANGED ctl /\ (SendInfo \/ SendLog)
  <2>1. mac'.sync = mac.sync /\ (link.fifo # <<>> \/ dump.running)
    BY <1>0, <1>5 DEF SendInfo, SendLog, Submit, MacInitial
  <2>2. ~(Alive /\ In("END", {5}))
    BY <2>1, AtTheBarrier DEF AtRest
  <2>3. ctl.push # "RETRANSMIT_BEGIN"
    BY <1>0, <2>1, AtTheBarrier DEF AtRest, Barrier, NoCode
  <2> QED
    BY <1>0, <1>5, <2>2, <2>3 DEF Barrier, Alive, In
<1> QED
  BY <1>1, <1>2, <1>3, <1>4, <1>5, OtherStep
     DEF Next, Clock, Between, vars, board, Receiving, DumpBegins,
         DumpEnds, Operating, Computing, Answers, Faulting

(* A replay is announced only when every frame submitted before has left the *)
(* MAC, when the snapshot is taken after the synchroniser has settled       *)
(* (TX_COUNT_SYNC_GUARD_CYCLES is 16).                                      *)
THEOREM ReplayBarrier == ASSUME CountGuard >= 3 PROVE Spec => []BarrierHolds
<1>1. Init => Barrier
  BY DEF Init, InitialRegisters, Barrier, In, NoCode
<1>2. SessionInv /\ Barrier /\ [Next]_vars => Barrier'
  BY NextBarrier
<1>3. Barrier => BarrierHolds
  BY DEF Barrier, BarrierHolds
<1> QED
  BY <1>1, <1>2, <1>3, InitSession, NextSession, PTL DEF Spec

(* What one more frame changes of what a listener remembers.                *)
LEMMA HeardFields ==
    ASSUME NEW code, DOMAIN heard = DOMAIN Silence, NEW h, h = Hear(heard, code)
    PROVE  /\ DOMAIN h = DOMAIN Silence
           /\ code \in HartStatuses =>
                 /\ h.harts = heard.harts \cup {code} /\ h.last = heard.last
                 /\ h.ready = heard.ready /\ h.logs = heard.logs /\ h.error = heard.error
           /\ code \in ErrorCodes =>
                 /\ h.error = code /\ h.last = heard.last /\ h.harts = heard.harts
                 /\ h.ready = heard.ready /\ h.logs = heard.logs
           /\ code = "LOG" =>
                 /\ h.logs = heard.logs + 1 /\ h.last = heard.last /\ h.harts = heard.harts
                 /\ h.ready = heard.ready /\ h.error = heard.error
           /\ code \notin HartStatuses \cup ErrorCodes \cup {"LOG"} =>
                 /\ h.last = code /\ h.harts = heard.harts /\ h.error = heard.error
                 /\ (h.ready <=> heard.ready \/ code = "READY")
                 /\ h.logs = IF code = "RETRANSMIT_BEGIN" THEN 0 ELSE heard.logs
<1> DEFINE g == [heard EXCEPT !.turn = ~@]
<1>1. /\ DOMAIN g = DOMAIN Silence /\ g.last = heard.last /\ g.ready = heard.ready
      /\ g.harts = heard.harts /\ g.logs = heard.logs /\ g.error = heard.error
  BY DEF Silence
<1>2. h = CASE code \in HartStatuses -> [g EXCEPT !.harts = @ \cup {code}]
            [] code \in ErrorCodes -> [g EXCEPT !.error = code]
            [] code = "LOG" -> [g EXCEPT !.logs = @ + 1]
            [] code = "RETRANSMIT_BEGIN" -> [g EXCEPT !.last = code, !.logs = 0]
            [] OTHER -> [g EXCEPT !.last = code, !.ready = @ \/ code = "READY"]
  BY DEF Hear
<1> HIDE DEF g
<1>3. HartStatuses \cap ErrorCodes = {} /\ {"LOG", "RETRANSMIT_BEGIN"} \cap (HartStatuses \cup ErrorCodes) = {}
  BY DEF HartStatuses, ErrorCodes
<1>4. CASE code \in HartStatuses
  BY <1>1, <1>2, <1>3, <1>4 DEF Silence
<1>5. CASE code \in ErrorCodes
  BY <1>1, <1>2, <1>3, <1>5 DEF Silence
<1>6. CASE code = "LOG"
  BY <1>1, <1>2, <1>3, <1>6 DEF Silence
<1>7. CASE code = "RETRANSMIT_BEGIN"
  BY <1>1, <1>2, <1>3, <1>7 DEF Silence
<1>8. CASE code \notin HartStatuses \cup ErrorCodes \cup {"LOG", "RETRANSMIT_BEGIN"}
  BY <1>1, <1>2, <1>3, <1>8 DEF Silence
<1> QED
  BY <1>3, <1>4, <1>5, <1>6, <1>7, <1>8

(* A milestone is neither a hart's status, nor an error, nor a log frame.   *)
LEMMA MilestoneCodes ==
    /\ Protocol!Milestones \subseteq StatusCodes \ (HartStatuses \cup ErrorCodes \cup {"LOG"})
    /\ NoCode \notin StatusCodes /\ "LOG" \notin StatusCodes
    /\ HartStatuses \cap ErrorCodes = {}
    /\ HartStatuses \subseteq StatusCodes /\ ErrorCodes \subseteq StatusCodes
BY DEF Protocol!Milestones, StatusCodes, HartStatuses, ErrorCodes, NoCode

(* A sequence and one element more.                                         *)
LEMMA OneBehind ==
    ASSUME NEW S, NEW s \in Seq(S), NEW x \in S, NEW t, t = Append(s, x)
    PROVE  /\ t \in Seq(S) /\ Len(s) \in Nat /\ Len(t) = Len(s) + 1 /\ t # <<>>
           /\ t[Len(s) + 1] = x /\ \A i \in 1 .. Len(s) : t[i] = s[i]
           /\ Head(t) = t[1]
  OBVIOUS

(* The codes owed are those of the FIFO and the one being pushed.           *)
LEMMA OwedType ==
    ASSUME Codes, Registers
    PROVE  /\ Owed \in Seq(StatusCodes) /\ Len(Owed) \in Nat
           /\ Len(link.fifo) \in Nat /\ link.fifo \in Seq(StatusCodes)
           /\ Len(Owed) = IF ctl.push = NoCode THEN Len(link.fifo) ELSE Len(link.fifo) + 1
           /\ \A i \in 1 .. Len(link.fifo) : Owed[i] = link.fifo[i]
           /\ ctl.push # NoCode => Owed[Len(link.fifo) + 1] = ctl.push
<1>1. link.fifo \in Seq(StatusCodes) /\ ctl.push \in StatusCodes \cup {NoCode}
  BY DEF Codes, Registers
<1>2. CASE ctl.push = NoCode
  <2>1. Owed = link.fifo
    BY <1>2 DEF Owed
  <2> QED
    BY <1>1, <1>2, <2>1
<1>3. CASE ctl.push # NoCode
  <2> DEFINE o == Owed
             f == link.fifo
             x == ctl.push
  <2>1. o = Append(f, x) /\ f \in Seq(StatusCodes) /\ x \in StatusCodes
    BY <1>1, <1>3 DEF Owed
  <2> HIDE DEF o, f, x
  <2>2. /\ o \in Seq(StatusCodes) /\ Len(f) \in Nat /\ Len(o) = Len(f) + 1
        /\ o[Len(f) + 1] = x /\ \A i \in 1 .. Len(f) : o[i] = f[i]
    BY <2>1, OneBehind
  <2> QED
    BY <1>3, <2>1, <2>2 DEF o, f, x
<1> QED
  BY <1>2, <1>3

(* No more than five codes are ever owed, so the FIFO of sixteen never drops *)
(* one.                                                                     *)
LEMMA OwedShort ==
    ASSUME Codes, Registers, Sayable
    PROVE  Len(Owed) <= 5
<1> DEFINE o == Owed
           n == Len(Owed)
<1>1. n \in Nat
  BY OwedType
<1>2. \A i \in 1 .. n :
          \/ o[i] \in ErrorCodes /\ i = n
          \/ o[i] \in HartStatuses /\ \A j \in 1 .. n : o[j] = o[i] => j = i
          \/ i = 1 /\ \A j \in 2 .. n : o[j] \in ErrorCodes
  BY DEF Sayable, HartOwed
<1>3. HartStatuses \cap ErrorCodes = {}
  BY MilestoneCodes
<1> HIDE DEF o, n
<1> SUFFICES ASSUME n > 5 PROVE FALSE
  BY <1>1 DEF n
<1>4. 1 \in 1 .. n /\ 2 \in 1 .. n /\ 3 \in 1 .. n /\ 4 \in 1 .. n /\ 5 \in 1 .. n
  BY <1>1
<1>5. o[2] \in HartStatuses /\ o[2] \notin ErrorCodes
  BY <1>1, <1>2, <1>3, <1>4
<1>6. \A i \in 1 .. 5 : o[i] \in HartStatuses /\ \A j \in 1 .. 5 : o[j] = o[i] => j = i
  BY <1>1, <1>2, <1>4, <1>5
<1>7. /\ o[1] \in HartStatuses /\ o[2] \in HartStatuses /\ o[3] \in HartStatuses
      /\ o[4] \in HartStatuses /\ o[5] \in HartStatuses
      /\ o[1] # o[2] /\ o[1] # o[3] /\ o[1] # o[4] /\ o[1] # o[5]
      /\ o[2] # o[3] /\ o[2] # o[4] /\ o[2] # o[5]
      /\ o[3] # o[4] /\ o[3] # o[5] /\ o[4] # o[5]
  BY <1>6
<1> QED
  BY <1>7 DEF HartStatuses

(* A clock edge adds the code the controller queues to those owed, and loses *)
(* none.                                                                    *)
LEMMA OwedEdge ==
    ASSUME Tick, Codes, Registers, Sayable, DOMAIN link = DOMAIN LinkInitial
    PROVE  Owed' = IF ctl'.push = NoCode THEN Owed ELSE Append(Owed, ctl'.push)
<1>1. Len(link.fifo) # InfoDepth
  <2> DEFINE k == Len(link.fifo)
             n == Len(Owed)
  <2>1. k \in Nat /\ (n = k \/ n = k + 1) /\ n <= 5
    BY OwedType, OwedShort
  <2> HIDE DEF k, n
  <2>2. k # 16
    BY <2>1
  <2> QED
    BY <2>2 DEF InfoDepth, k
<1>2. link'.fifo = Owed
  BY <1>1, LinkSteps DEF Owed
<1> QED
  BY <1>2 DEF Owed

(* A frame that leaves takes the first of the codes owed.                   *)
LEMMA OwedSent ==
    ASSUME ctl' = ctl, link.fifo # <<>>, link'.fifo = Tail(link.fifo),
           Codes, Registers, Codes', Registers'
    PROVE  /\ Len(Owed) \in Nat \ {0} /\ Head(link.fifo) = Owed[1] /\ Owed[1] \in StatusCodes
           /\ Len(Owed') = Len(Owed) - 1
           /\ \A i \in 1 .. Len(Owed') : Owed'[i] = Owed[i + 1]
<1> DEFINE f == link.fifo
           g == link'.fifo
           o == Owed
           p == Owed'
<1>1. /\ f \in Seq(StatusCodes) /\ Len(f) \in Nat
      /\ Len(o) = IF ctl.push = NoCode THEN Len(f) ELSE Len(f) + 1
      /\ \A i \in 1 .. Len(f) : o[i] = f[i]
      /\ ctl.push # NoCode => o[Len(f) + 1] = ctl.push
  BY OwedType
<1>2. /\ Len(p) = IF ctl.push = NoCode THEN Len(g) ELSE Len(g) + 1
      /\ \A i \in 1 .. Len(g) : p[i] = g[i]
      /\ ctl.push # NoCode => p[Len(g) + 1] = ctl.push
  <2>1. (Codes /\ Registers =>
           /\ Len(Owed) = IF ctl.push = NoCode THEN Len(link.fifo) ELSE Len(link.fifo) + 1
           /\ \A i \in 1 .. Len(link.fifo) : Owed[i] = link.fifo[i]
           /\ ctl.push # NoCode => Owed[Len(link.fifo) + 1] = ctl.push)'
    BY OwedType, PTL
  <2> QED
    BY <2>1
<1>3. f # <<>> /\ g = Tail(f)
  OBVIOUS
<1> HIDE DEF f, g, o, p
<1>4. /\ Len(g) = Len(f) - 1 /\ Len(f) \in Nat \ {0} /\ Head(f) = f[1] /\ f[1] \in StatusCodes
      /\ \A i \in 1 .. Len(f) - 1 : g[i] = f[i + 1]
  BY <1>1, <1>3, HeadAndTail
<1>5. Len(o) \in Nat \ {0} /\ Head(f) = o[1] /\ o[1] \in StatusCodes /\ Len(p) = Len(o) - 1
  BY <1>1, <1>2, <1>4
<1>6. ASSUME NEW i \in 1 .. Len(p) PROVE p[i] = o[i + 1]
  <2>1. CASE i \in 1 .. Len(g)
    BY <1>1, <1>2, <1>4, <2>1
  <2>2. CASE i = Len(g) + 1 /\ ctl.push # NoCode
    BY <1>1, <1>2, <1>4, <2>2
  <2> QED
    BY <1>2, <1>4, <1>6, <2>1, <2>2
<1> QED
  BY <1>5, <1>6 DEF f, g, o, p

(* What may be said stays so while nothing is said or queued.               *)
LEMMA SayableKept ==
    ASSUME Sayable, Owed' = Owed, heard' = heard
    PROVE  Sayable'
<1>1. (Protocol!Milestones)' = Protocol!Milestones
  BY DEF Protocol!Milestones, Protocol!Whole
<1> QED
  BY <1>1 DEF Sayable, HartOwed

(* A code may be queued when the protocol allows it after the codes before  *)
(* it.                                                                      *)
LEMMA SayableAppended ==
    ASSUME Codes, Registers, Sayable, heard' = heard, heard.error = NoCode,
           NEW c \in StatusCodes, Owed' = Append(Owed, c),
           \/ c \in ErrorCodes /\ OwesNoError
           \/ Owed = <<>> /\ c \in Protocol!Milestones
           \/ /\ c \in HartStatuses \ heard.harts /\ heard.last = "PROGRAM_DONE"
              /\ \A i \in 1 .. Len(Owed) : Owed[i] \in HartStatuses /\ Owed[i] # c
              /\ \/ StartOf[c] = c \/ StartOf[c] \in heard.harts
                 \/ \E j \in 1 .. Len(Owed) : Owed[j] = StartOf[c]
    PROVE  Sayable'
<1> DEFINE o == Owed
           p == Owed'
           n == Len(Owed)
           M == Protocol!Milestones
           H == heard.harts
<1>1. M' = M
  BY DEF Protocol!Milestones, Protocol!Whole
<1>2. /\ n \in Nat /\ Len(p) = n + 1 /\ p[n + 1] = c /\ \A i \in 1 .. n : p[i] = o[i]
  <2>1. o \in Seq(StatusCodes) /\ p = Append(o, c) /\ n = Len(o)
    BY OwedType
  <2> HIDE DEF o, p, n
  <2> QED
    BY <2>1, OneBehind
<1>3. \A i \in 1 .. n :
          \/ o[i] \in ErrorCodes /\ i = n
          \/ HartOwed(i)
          \/ i = 1 /\ o[1] \in M /\ \A j \in 2 .. n : o[j] \in ErrorCodes
  BY DEF Sayable
<1>4. \A i \in 1 .. n : HartOwed(i) <=>
          /\ o[i] \in HartStatuses \ H /\ heard.last = "PROGRAM_DONE"
          /\ \A j \in 1 .. n : o[j] = o[i] => j = i
          /\ \/ StartOf[o[i]] \in H
             \/ \E j \in 1 .. i : o[j] = StartOf[o[i]]
  BY DEF HartOwed
<1>5. \A i \in 1 .. n + 1 : HartOwed(i)' <=>
          /\ p[i] \in HartStatuses \ H /\ heard.last = "PROGRAM_DONE"
          /\ \A j \in 1 .. n + 1 : p[j] = p[i] => j = i
          /\ \/ StartOf[p[i]] \in H
             \/ \E j \in 1 .. i : p[j] = StartOf[p[i]]
  BY <1>2 DEF HartOwed
<1>6. M \cap (HartStatuses \cup ErrorCodes) = {} /\ HartStatuses \cap ErrorCodes = {}
  BY MilestoneCodes
<1>7. OwesNoError => \A i \in 1 .. n : o[i] \notin ErrorCodes
  BY DEF OwesNoError
<1>8. o = <<>> => n = 0
  OBVIOUS
<1>9. \/ c \in ErrorCodes /\ OwesNoError
      \/ n = 0 /\ c \in M
      \/ /\ c \in HartStatuses \ H /\ heard.last = "PROGRAM_DONE"
         /\ \A i \in 1 .. n : o[i] \in HartStatuses /\ o[i] # c
         /\ \/ StartOf[c] = c \/ StartOf[c] \in H
            \/ \E j \in 1 .. n : o[j] = StartOf[c]
  BY <1>8
<1> HIDE DEF o, p, n, M, H
<1>10. ASSUME NEW i \in 1 .. n + 1
       PROVE  \/ p[i] \in ErrorCodes /\ i = n + 1
              \/ HartOwed(i)'
              \/ i = 1 /\ p[1] \in M /\ \A j \in 2 .. n + 1 : p[j] \in ErrorCodes
  <2>1. CASE i = n + 1
    <3>1. CASE c \in ErrorCodes
      BY <1>2, <2>1, <3>1
    <3>2. CASE n = 0 /\ c \in M
      BY <1>2, <2>1, <3>2
    <3>3. CASE /\ c \in HartStatuses \ H /\ heard.last = "PROGRAM_DONE"
               /\ \A k \in 1 .. n : o[k] \in HartStatuses /\ o[k] # c
               /\ \/ StartOf[c] = c \/ StartOf[c] \in H
                  \/ \E j \in 1 .. n : o[j] = StartOf[c]
      <4>1. \A j \in 1 .. n + 1 : p[j] = c => j = n + 1
        BY <1>2, <3>3
      <4>2. StartOf[c] \in H \/ \E j \in 1 .. n + 1 : p[j] = StartOf[c]
        BY <1>2, <3>3
      <4> QED
        BY <1>2, <1>5, <2>1, <3>3, <4>1, <4>2
    <3> QED
      BY <1>9, <3>1, <3>2, <3>3
  <2>2. CASE i \in 1 .. n
    <3>1. p[i] = o[i] /\ (c \notin M \/ n = 0)
      BY <1>2, <1>6, <1>9, <2>2
    <3>2. CASE o[i] \in ErrorCodes /\ i = n
      BY <1>6, <1>7, <1>9, <2>2, <3>2
    <3>3. CASE HartOwed(i)
      <4>1. /\ o[i] \in HartStatuses \ H /\ heard.last = "PROGRAM_DONE"
            /\ \A j \in 1 .. n : o[j] = o[i] => j = i
            /\ \/ StartOf[o[i]] \in H
               \/ \E j \in 1 .. i : o[j] = StartOf[o[i]]
        BY <1>4, <2>2, <3>3
      <4>2. c # o[i]
        BY <1>6, <1>9, <2>2, <4>1
      <4>3. \A j \in 1 .. n + 1 : p[j] = p[i] => j = i
        BY <1>2, <2>2, <4>1, <4>2
      <4>4. StartOf[p[i]] \in H \/ \E j \in 1 .. i : p[j] = StartOf[p[i]]
        BY <1>2, <2>2, <4>1
      <4> QED
        BY <1>2, <1>5, <2>2, <4>1, <4>3, <4>4
    <3>4. CASE i = 1 /\ o[1] \in M /\ \A j \in 2 .. n : o[j] \in ErrorCodes
      <4>1. c \in ErrorCodes
        BY <1>6, <1>9, <2>2, <3>4
      <4> QED
        BY <1>2, <2>2, <3>4, <4>1
    <3> QED
      BY <1>3, <2>2, <3>2, <3>3, <3>4
  <2> QED
    BY <1>2, <1>10, <2>1, <2>2
<1> QED
  BY <1>1, <1>2, <1>10 DEF Sayable, o, p, n, M

(* When the first code owed has been heard, the others may still be said.   *)
LEMMA SayableSent ==
    ASSUME Codes, Registers, Codes', Registers', Sayable, DOMAIN heard = DOMAIN Silence,
           ctl' = ctl, link.fifo # <<>>, link'.fifo = Tail(link.fifo),
           heard' = Hear(heard, Head(link.fifo))
    PROVE  Sayable'
<1> DEFINE o == Owed
           p == Owed'
           n == Len(Owed)
           M == Protocol!Milestones
           H == heard.harts
           G == heard'.harts
           c == Owed[1]
<1>1. /\ n \in Nat \ {0} /\ Len(p) = n - 1 /\ o[1] = c /\ c \in StatusCodes
      /\ \A i \in 1 .. n - 1 : p[i] = o[i + 1]
      /\ heard' = Hear(heard, c)
  BY OwedSent
<1>2. /\ heard.error = NoCode
      /\ \A i \in 1 .. n :
          \/ o[i] \in ErrorCodes /\ i = n
          \/ HartOwed(i)
          \/ i = 1 /\ o[1] \in M /\ \A j \in 2 .. n : o[j] \in ErrorCodes
  <2>1. Owed # <<>>
    BY <1>1
  <2> QED
    BY <2>1 DEF Sayable
<1>3. \A i \in 1 .. n : HartOwed(i) <=>
          /\ o[i] \in HartStatuses \ H /\ heard.last = "PROGRAM_DONE"
          /\ \A j \in 1 .. n : o[j] = o[i] => j = i
          /\ \/ StartOf[o[i]] \in H
             \/ \E j \in 1 .. i : o[j] = StartOf[o[i]]
  BY DEF HartOwed
<1>4. \A i \in 1 .. n - 1 : HartOwed(i)' <=>
          /\ p[i] \in HartStatuses \ G /\ heard'.last = "PROGRAM_DONE"
          /\ \A j \in 1 .. n - 1 : p[j] = p[i] => j = i
          /\ \/ StartOf[p[i]] \in G
             \/ \E j \in 1 .. i : p[j] = StartOf[p[i]]
  BY <1>1 DEF HartOwed
<1>5. M \cap (HartStatuses \cup ErrorCodes) = {} /\ HartStatuses \cap ErrorCodes = {}
  BY MilestoneCodes
<1>6. /\ c \in HartStatuses =>
            G = H \cup {c} /\ heard'.last = heard.last /\ heard'.error = heard.error
      /\ c \notin ErrorCodes => heard'.error = heard.error
  <2>1. c # "LOG"
    BY <1>1, MilestoneCodes
  <2> HIDE DEF c
  <2> QED
    BY <1>1, <1>5, <2>1, HeardFields
<1>7. p # <<>> => n > 1
  BY <1>1
<1> HIDE DEF o, p, n, M, H, G, c
<1>8. n > 1 => c \notin ErrorCodes
  BY <1>1, <1>2, <1>3, <1>5
<1>9. ASSUME NEW i \in 1 .. n - 1
      PROVE  (p[i] \in ErrorCodes /\ i = n - 1) \/ HartOwed(i)'
  <2>1. i + 1 \in 1 .. n /\ i + 1 # 1 /\ 1 \in 1 .. n /\ p[i] = o[i + 1] /\ n > 1
    BY <1>1, <1>9
  <2>2. CASE o[i + 1] \in ErrorCodes /\ i + 1 = n
    BY <1>1, <2>1, <2>2
  <2>3. CASE HartOwed(i + 1)
    <3>1. /\ o[i + 1] \in HartStatuses \ H /\ heard.last = "PROGRAM_DONE"
          /\ \A j \in 1 .. n : o[j] = o[i + 1] => j = i + 1
          /\ \/ StartOf[o[i + 1]] \in H
             \/ \E j \in 1 .. i + 1 : o[j] = StartOf[o[i + 1]]
      BY <1>3, <2>1, <2>3
    <3>2. c \in HartStatuses
      <4>1. c \notin ErrorCodes
        BY <1>8, <2>1
      <4>2. ~\A j \in 2 .. n : o[j] \in ErrorCodes
        BY <1>1, <1>5, <2>1, <3>1
      <4> QED
        BY <1>1, <1>2, <1>3, <2>1, <4>1, <4>2
    <3>3. c # o[i + 1]
      BY <1>1, <2>1, <3>1
    <3>4. p[i] \in HartStatuses \ G /\ heard'.last = "PROGRAM_DONE"
      BY <1>6, <2>1, <3>1, <3>2, <3>3
    <3>5. \A j \in 1 .. n - 1 : p[j] = p[i] => j = i
      BY <1>1, <2>1, <3>1
    <3>6. StartOf[p[i]] \in G \/ \E j \in 1 .. i : p[j] = StartOf[p[i]]
      <4>1. CASE StartOf[o[i + 1]] \in H
        BY <1>6, <2>1, <3>2, <4>1
      <4>2. CASE \E j \in 1 .. i + 1 : o[j] = StartOf[o[i + 1]]
        <5>1. PICK j \in 1 .. i + 1 : o[j] = StartOf[o[i + 1]]
          BY <4>2
        <5>2. CASE j = 1
          BY <1>1, <1>6, <2>1, <3>2, <5>1, <5>2
        <5>3. CASE j # 1
          <6>1. j - 1 \in 1 .. i /\ j - 1 \in 1 .. n - 1 /\ (j - 1) + 1 = j
            BY <1>1, <2>1, <5>1, <5>3
          <6>2. p[j - 1] = o[j]
            BY <1>1, <6>1
          <6> QED
            BY <2>1, <5>1, <6>1, <6>2
        <5> QED
          BY <5>2, <5>3
      <4> QED
        BY <3>1, <4>1, <4>2
    <3> QED
      BY <1>4, <1>9, <3>4, <3>5, <3>6
  <2> QED
    BY <1>2, <2>1, <2>2, <2>3
<1> QED
  BY <1>1, <1>2, <1>6, <1>7, <1>8, <1>9 DEF Sayable, p, n

(* A log frame changes nothing about the errors that are owed.              *)
LEMMA SayableLogged ==
    ASSUME Sayable, OwesErrors, Owed' = Owed, heard'.error = heard.error
    PROVE  Sayable'
<1>1. \A i \in 1 .. Len(Owed) : Owed[i] \in ErrorCodes /\ i = Len(Owed)
  BY MilestoneCodes DEF Sayable, OwesErrors, HartOwed
<1> QED
  BY <1>1 DEF Sayable

(* The first of the codes owed is a step of the protocol.                   *)
LEMMA Said ==
    ASSUME Codes, Registers, Codes', Registers', Sayable,
           ctl' = ctl, link.fifo # <<>>, link'.fifo = Tail(link.fifo),
           heard' = Hear(heard, Head(link.fifo))
    PROVE  Protocol!Next
<1> DEFINE c == Owed[1]
<1>1. /\ heard' = Hear(heard, c) /\ heard.error = NoCode
      /\ \/ c \in ErrorCodes \/ HartOwed(1) \/ c \in Protocol!Milestones
  <2>1. Owed # <<>> /\ 1 \in 1 .. Len(Owed) /\ Head(link.fifo) = c
    BY OwedSent
  <2> QED
    BY <2>1 DEF Sayable
<1>2. \A x : Protocol!Hear(heard, x) = Hear(heard, x)
  BY DEF Protocol!Hear, Hear, Protocol!HartStatuses, HartStatuses, Protocol!ErrorCodes, ErrorCodes
<1>3. HartOwed(1) => /\ c \in HartStatuses \ heard.harts /\ heard.last = "PROGRAM_DONE"
                     /\ StartOf[c] \in heard.harts \/ c = StartOf[c]
  BY DEF HartOwed
<1> HIDE DEF c
<1> QED
  BY <1>1, <1>2, <1>3
     DEF Protocol!Next, Protocol!Milestone, Protocol!HartStatus, Protocol!Error,
         Protocol!HartStatuses, HartStatuses, Protocol!ErrorCodes, ErrorCodes, Protocol!NoCode, NoCode,
         Protocol!StartOf, StartOf

(* A code is queued outside EXECUTE: the phase before, the phase that waits. *)
Speaks(state, from, to, code) ==
    ctl.state = state /\ ctl.phase = from /\ ctl'.phase = to /\ ctl'.push = code
Turn ==
    \/ Speaks("PRECONFIG", 0, 1, "PREINIT_DONE") \/ Speaks("PRECONFIG", 2, 6, "PROGRAM_START")
    \/ Speaks("PRECONFIG", 7, 8, "RECEIVE_DONE") \/ Speaks("PRECONFIG", 4, 5, Verdict)
    \/ Speaks("READY", 3, 4, "READY")
    \/ Speaks("PROGRAM_WRITE", 0, 2, "PROGRAM_START")
    \/ Speaks("PROGRAM_WRITE", 3, 4, "RECEIVE_DONE")
    \/ Speaks("PROGRAM_WRITE", 5, 1, "PROGRAM_DONE")
    \/ Speaks("END", 0, 1, "EH2_DONE") \/ Speaks("END", 2, 3, "EXE_END")
    \/ Speaks("END", 5, 6, "RETRANSMIT_BEGIN")

(* An acknowledged phase and the one after it.                               *)
Goes(from, state, to) == ctl.phase = from /\ ctl'.state = state /\ ctl'.phase = to
Confirmed ==
    \/ /\ ctl.state = "PRECONFIG" /\ ctl'.fail = ctl.fail
       /\ Goes(1, "PRECONFIG", 2) \/ Goes(6, "PRECONFIG", 7) \/ Goes(8, "PRECONFIG", 9)
    \/ /\ ctl.state = "PRECONFIG" /\ Goes(5, "PRECONFIG", 4)
       /\ ctl.fail = {"INSTR", "DATA"} /\ ctl'.fail = {"INSTR"}
    \/ ctl.state = "PRECONFIG" /\ Goes(5, "READY", 0) /\ ctl.fail = {}
    \/ ctl.state = "READY" /\ Goes(4, "PROGRAM_WRITE", 0)
    \/ /\ ctl.state = "PROGRAM_WRITE"
       /\ Goes(2, "PROGRAM_WRITE", 3) \/ Goes(4, "PROGRAM_WRITE", 5) \/ Goes(1, "EXECUTE", 0)
    \/ /\ ctl.state = "END"
       /\ \/ Goes(1, "END", 4) /\ ctl'.pulses = {"dumpStart"}
          \/ Goes(3, "END", 5) /\ ctl'.pulses = {}
          \/ Goes(6, "END", 7) /\ ctl'.pulses = {"dumpStart"}
Proceeds(in) ==
    \/ ctl.state = "PRECONFIG" /\ (Goes(9, "PRECONFIG", 3) \/ Goes(3, "PRECONFIG", 4))
    \/ /\ ctl.state = "READY"
       /\ Goes(0, "READY", 1) \/ Goes(1, "READY", 2) \/ Goes(2, "READY", 3)
    \/ /\ ctl.state = "END" /\ ctl'.pulses = {}
       /\ \/ Goes(4, "END", 2) /\ in.dumpDone
          \/ Goes(7, "END", 8)
          \/ Goes(8, "END", 5) /\ in.dumpDone

(* What an edge that keeps the session alive does outside EXECUTE. *)
LEMMA AliveMove ==
    ASSUME NEW in, Moved(in), Alive, Alive', ctl.state # "EXECUTE"
    PROVE  \/ /\ ctl'.push = NoCode /\ ctl'.expected = ctl.expected /\ ctl'.pulses = {}
              /\ ctl'.state = ctl.state /\ ctl'.phase = ctl.phase /\ ctl'.fail = ctl.fail
           \/ /\ Turn /\ ctl'.expected = ctl'.push /\ ctl'.fail = ctl.fail
              /\ ctl'.state = ctl.state /\ ctl'.pulses = {} /\ ~Awaiting
           \/ Confirmed /\ Awaiting /\ InfoDone(in) /\ ctl'.push = NoCode
           \/ Proceeds(in) /\ ~Awaiting /\ ctl'.push = NoCode /\ "dumpStart" \notin ctl'.pulses
<1>v. Verdict # NoCode
  BY DEF Verdict, NoCode
<1> USE DEF Alive, Moved, PreMoves, ReadyMoves, ProgMoves, ExecMoves, EndMoves, ResetMoves, FatalMoves, ErrorMoves,
        Moves, Stays, Enters, Errs, Awaiting, In, Sends
<1>3. CASE ctl.state = "PRECONFIG"
  BY <1>v, <1>3 DEF NoCode, Turn, Speaks, Confirmed, Goes, Proceeds, Judges
<1>4. CASE ctl.state = "READY"
  BY <1>4 DEF NoCode, Turn, Speaks, Confirmed, Goes, Proceeds, Judges
<1>5. CASE ctl.state = "PROGRAM_WRITE"
  BY <1>5 DEF NoCode, Turn, Speaks, Confirmed, Goes, Proceeds, Judges
<1>6. CASE ctl.state = "END"
  BY <1>6 DEF NoCode, Turn, Speaks, Confirmed, Goes, Proceeds, Judges
<1> QED
  BY <1>3, <1>4, <1>5, <1>6

(* When a code is queued at an edge, and which. *)
LEMMA PushCases ==
    ASSUME NEW in, Moved(in), Alive \/ ctl.state = "ERROR", ctl'.push # NoCode
    PROVE  \/ /\ Alive /\ ctl.state = "EXECUTE" /\ ~in.fatal /\ ctl'.push = Tracked(in).push
           \/ Alive /\ ctl.state # "EXECUTE" /\ Turn /\ ~Awaiting
           \/ /\ ctl.state = "ERROR" /\ ctl'.state = "ERROR" /\ ctl.phase = 0 /\ ctl'.phase = 1
              /\ ~ctl.errorSent /\ ctl'.push = ctl.captured /\ ctl'.captured = ctl.captured
<1> USE DEF Moved
<1>1. CASE ResetMoves(in) \/ FatalMoves(in)
  <2>1. ctl'.push = Tracked(in).push /\ (FatalMoves(in) => in.fatal) /\ (FatalMoves(in) => ctl.state # "ERROR")
    BY <1>1 DEF ResetMoves, FatalMoves
  <2>2. ctl.state = "EXECUTE" /\ ~in.fatal
    BY <2>1, Untracked DEF Tracked, Tracking
  <2>3. Alive
    BY <2>2
  <2> QED
    BY <2>1, <2>2, <2>3
<1>2. CASE ExecMoves(in)
  <2>1. ctl.state = "EXECUTE" /\ ~in.fatal /\ ctl'.push = Tracked(in).push
    BY <1>2 DEF ExecMoves, Tracks
  <2> QED
    BY <2>1
<1>3. CASE PreMoves(in)
  BY <1>3 DEF PreMoves, Moves, Stays, Enters, Errs, Sends, Turn, Speaks, Awaiting, In
<1>4. CASE ReadyMoves(in)
  BY <1>4 DEF ReadyMoves, Moves, Stays, Enters, Errs, Sends, Turn, Speaks, Awaiting, In
<1>5. CASE ProgMoves(in)
  BY <1>5 DEF ProgMoves, Moves, Stays, Enters, Errs, Sends, Turn, Speaks, Awaiting, In
<1>6. CASE EndMoves(in)
  BY <1>6 DEF EndMoves, Moves, Stays, Enters, Errs, Sends, Turn, Speaks, Awaiting, In
<1>7. CASE ErrorMoves(in)
  BY <1>7 DEF ErrorMoves
<1> QED
  BY <1>1, <1>2, <1>3, <1>4, <1>5, <1>6, <1>7

(* The next code is one the protocol allows after what has been heard. *)
LEMMA TurnAllowed ==
    ASSUME Turn, Telling, Owed = <<>>
    PROVE  ctl'.push \in Protocol!Milestones
<1>1. heard.last \in Heard /\ (ctl.state = "PRECONFIG" => ~heard.ready)
      /\ (ctl.state = "PROGRAM_WRITE" => heard.ready) /\ (ctl.state = "END" => heard.harts = HartStatuses)
      /\ (In("END", {2, 3, 5}) => Whole)
  BY DEF Telling
<1> USE <1>1 DEF Speaks, Heard, In, Asks, Protocol!Milestones, NoCode, Protocol!NoCode
<1>2. CASE Speaks("PRECONFIG", 0, 1, "PREINIT_DONE") \/ Speaks("PRECONFIG", 2, 6, "PROGRAM_START")
           \/ Speaks("PRECONFIG", 7, 8, "RECEIVE_DONE")
  BY <1>2
<1>3. CASE Speaks("PRECONFIG", 4, 5, Verdict)
  <2>1. heard.last \in {"RECEIVE_DONE"} \cup (IF ctl.fail = {"INSTR"} THEN {"DATA_FAIL"} ELSE {})
    BY <1>3
  <2>2. CASE heard.last = "RECEIVE_DONE"
    <3>1. Protocol!Milestones = {"CHECK_PASS", "DATA_FAIL", "INSTR_FAIL"}
      BY <1>3, <2>2
    <3> QED
      BY <1>3, <3>1 DEF Verdict
  <2>3. CASE heard.last = "DATA_FAIL" /\ ctl.fail = {"INSTR"}
    <3>1. Protocol!Milestones = {"INSTR_FAIL"}
      BY <2>3
    <3>2. Verdict = "INSTR_FAIL"
      BY <2>3 DEF Verdict
    <3> QED
      BY <1>3, <3>1, <3>2
  <2> QED
    BY <2>1, <2>2, <2>3
<1>4. CASE Speaks("READY", 3, 4, "READY") \/ Speaks("PROGRAM_WRITE", 0, 2, "PROGRAM_START")
           \/ Speaks("PROGRAM_WRITE", 3, 4, "RECEIVE_DONE")
           \/ Speaks("PROGRAM_WRITE", 5, 1, "PROGRAM_DONE")
  BY <1>4
<1>5. CASE Speaks("END", 0, 1, "EH2_DONE")
  BY <1>5 DEF Protocol!HartStatuses, HartStatuses
<1>6. CASE Speaks("END", 2, 3, "EXE_END") \/ Speaks("END", 5, 6, "RETRANSMIT_BEGIN")
  BY <1>6 DEF Protocol!Whole, Whole
<1> QED
  BY <1>2, <1>3, <1>4, <1>5, <1>6 DEF Turn

SpeechInv == SessionInv /\ Speech

(* The status of a hart that leaves the tracker is new, and follows its start. *)
LEMMA ChosenNew ==
    ASSUME NEW in, ctl.state = "EXECUTE", ~in.fatal, Tracked(in).push # NoCode,
           ctl.pending \subseteq HartStatuses, ctl.queued \subseteq HartStatuses,
           ctl.pending \cap ctl.queued = {},
           \A s \in ctl.pending \cup ctl.queued : StartOf[s] \in ctl.pending \cup ctl.queued
    PROVE  LET c == Tracked(in).push IN
           /\ c \in HartStatuses \ ctl.queued /\ Tracked(in).queued = ctl.queued \cup {c}
           /\ StartOf[c] = c \/ StartOf[c] \in ctl.queued
<1> DEFINE c == Tracked(in).push
<1>1. c \in Chosen(in) /\ Tracked(in).queued = ctl.queued \cup Chosen(in) /\ Chosen(in) \subseteq ctl.pending
  BY TrackedHarts
<1> HIDE DEF c
<1>2. \A t \in ctl.pending : Priority[c] <= Priority[t]
  BY <1>1 DEF Chosen
<1>3. /\ Priority["HART0_START"] = 0 /\ Priority["HART1_START"] = 1
      /\ Priority["HART0_DONE"] = 2 /\ Priority["HART1_DONE"] = 3
  BY DEF Priority
<1>4. /\ StartOf["HART0_START"] = "HART0_START" /\ StartOf["HART0_DONE"] = "HART0_START"
      /\ StartOf["HART1_START"] = "HART1_START" /\ StartOf["HART1_DONE"] = "HART1_START"
  BY DEF StartOf
<1>5. c \in {"HART0_START", "HART1_START", "HART0_DONE", "HART1_DONE"}
  BY <1>1 DEF HartStatuses
<1>6. ASSUME NEW t \in Chosen(in) PROVE t = c
  <2>1. t \in {"HART0_START", "HART1_START", "HART0_DONE", "HART1_DONE"}
    BY <1>1, <1>6 DEF HartStatuses
  <2>2. Priority[t] <= Priority[c]
    BY <1>1, <1>6 DEF Chosen
  <2>3. Priority[c] <= Priority[t]
    BY <1>1, <1>2, <1>6
  <2> QED
    BY <1>3, <1>5, <2>1, <2>2, <2>3
<1>7. StartOf[c] \in ctl.pending \/ StartOf[c] \in ctl.queued
  BY <1>1
<1>8. StartOf[c] \in ctl.pending => StartOf[c] = c
  BY <1>2, <1>3, <1>4, <1>5
<1> QED
  BY <1>1, <1>6, <1>7, <1>8 DEF c

(* The facts of an edge the next lemmas share. *)
LEMMA NothingOwed ==
    ASSUME SessionInv, Alive, ctl.state # "EXECUTE"
    PROVE  /\ ~Awaiting => Owed = <<>>
           /\ Awaiting /\ link.acks # <<>> => Owed = <<>>
           /\ Awaiting /\ link.fifo # <<>> =>
                 /\ link.fifo = <<ctl.expected>> /\ Owed = <<ctl.expected>> /\ ctl.push = NoCode
<1>1. (ctl.waiting <=> Awaiting) /\ (ctl.waiting => ctl.expected # NoCode)
      /\ (IF ctl.waiting THEN OnPath(ctl.expected) ELSE PathEmpty)
  BY DEF SessionInv, Path
<1> QED
  BY <1>1 DEF OnPath, PathEmpty, Owed

(* While the cores run, only the harts' codes are owed.                     *)
LEMMA HartsOwed ==
    ASSUME SessionInv, Alive, ctl.state = "EXECUTE", Telling
    PROVE  /\ \A i \in 1 .. Len(Owed) : Owed[i] \in HartStatuses \cap ctl.queued
           /\ heard.harts \subseteq ctl.queued /\ ctl.queued \subseteq HartStatuses
           /\ heard.last = "PROGRAM_DONE"
<1>1. ctl.queued \subseteq HartStatuses
  BY DEF SessionInv, Path, HartCodes
<1>2. ctl.queued = heard.harts \cup {Owed[i] : i \in 1 .. Len(Owed)} /\ heard.last \in Heard
  BY DEF Telling
<1>3. Heard = {"PROGRAM_DONE"}
  BY DEF Heard, In
<1> QED
  BY <1>1, <1>2, <1>3

(* A clock edge queues only a code that may be said when its turn comes.    *)
LEMMA TickSayable == SpeechInv /\ Tick => Sayable'
<1> SUFFICES ASSUME SpeechInv, Tick PROVE Sayable'
  OBVIOUS
<1>s. SessionInv /\ Sayable /\ ErrorTold /\ (Alive => Telling)
  BY DEF SpeechInv, Speech
<1>1. PICK late : Moved(Sampled(late))
  BY <1>s, TickMove
<1> DEFINE in == Sampled(late)
<1>m. Moved(in)
  BY <1>1
<1> HIDE DEF in
<1>2. /\ Codes /\ Registers /\ DOMAIN link = DOMAIN LinkInitial /\ heard' = heard
  BY <1>s DEF SessionInv, Shapes, Tick
<1>3. Owed' = IF ctl'.push = NoCode THEN Owed ELSE Append(Owed, ctl'.push)
  BY <1>s, <1>2, OwedEdge
<1>4. Alive \/ ctl.state = "ERROR"
  BY DEF Tick, Alive
<1>5. CASE ctl'.push = NoCode
  BY <1>s, <1>2, <1>3, <1>5, SayableKept
<1>6. CASE ctl'.push # NoCode
  <2>1. ctl'.push \in StatusCodes
    <3>1. Registers'
      BY <1>s, NextRegisters DEF Next, Clock
    <3> QED
      BY <1>6, <3>1 DEF Registers
  <2>2. Owed' = Append(Owed, ctl'.push)
    BY <1>3, <1>6
  <2>3. CASE Alive /\ ctl.state = "EXECUTE" /\ ~in.fatal /\ ctl'.push = Tracked(in).push
    <3>1. Telling /\ HartCodes /\ OwesNoError
      BY <1>s, <2>3 DEF SessionInv, Path, ErrorTold
    <3>2. /\ ctl.pending \subseteq HartStatuses /\ ctl.queued \subseteq HartStatuses
          /\ ctl.pending \cap ctl.queued = {}
      BY <3>1 DEF HartCodes
    <3>3. /\ \A s \in ctl.pending \cup ctl.queued : StartOf[s] \in ctl.pending \cup ctl.queued
          /\ ctl.queued = heard.harts \cup {Owed[i] : i \in 1 .. Len(Owed)}
      BY <2>3, <3>1 DEF Telling
    <3> DEFINE c == ctl'.push
    <3>4. c \in HartStatuses \ ctl.queued /\ (StartOf[c] = c \/ StartOf[c] \in ctl.queued)
      BY <1>6, <2>3, <3>2, <3>3, ChosenNew
    <3>5. /\ \A i \in 1 .. Len(Owed) : Owed[i] \in HartStatuses \cap ctl.queued
          /\ heard.harts \subseteq ctl.queued /\ heard.last = "PROGRAM_DONE"
      BY <1>s, <2>3, <3>1, HartsOwed
    <3>6. heard.error = NoCode
      BY <3>1 DEF OwesNoError
    <3> HIDE DEF c
    <3>7. StartOf[c] = c \/ StartOf[c] \in heard.harts \/ \E j \in 1 .. Len(Owed) : Owed[j] = StartOf[c]
      BY <3>3, <3>4
    <3>8. c \in StatusCodes /\ Owed' = Append(Owed, c)
      BY <2>1, <2>2 DEF c
    <3> QED
      BY <1>s, <1>2, <3>4, <3>5, <3>6, <3>7, <3>8, SayableAppended
  <2>4. CASE Alive /\ ctl.state # "EXECUTE" /\ Turn /\ ~Awaiting
    <3>1. Owed = <<>> /\ Telling /\ OwesNoError
      BY <1>s, <2>4, NothingOwed DEF ErrorTold
    <3>2. ctl'.push \in Protocol!Milestones
      BY <2>4, <3>1, TurnAllowed
    <3>3. heard.error = NoCode
      BY <3>1 DEF OwesNoError
    <3> QED
      BY <1>s, <1>2, <2>1, <2>2, <3>1, <3>2, <3>3, SayableAppended
  <2>5. CASE /\ ctl.state = "ERROR" /\ ctl.phase = 0 /\ ~ctl.errorSent /\ ctl'.push = ctl.captured
    <3>1. OwesNoError /\ ctl'.push \in ErrorCodes
      BY <1>s, <2>5 DEF ErrorTold
    <3>2. heard.error = NoCode
      BY <3>1 DEF OwesNoError
    <3> QED
      BY <1>s, <1>2, <2>1, <2>2, <3>1, <3>2, SayableAppended
  <2> QED
    BY <1>m, <1>4, <1>6, <2>3, <2>4, <2>5, PushCases
<1> QED
  BY <1>5, <1>6

(* Appending a code that is no error leaves no error owed. *)
LEMMA NoErrorAppended ==
    ASSUME Codes, Registers, OwesNoError, heard' = heard,
           NEW c \in StatusCodes \ ErrorCodes, Owed' = Append(Owed, c)
    PROVE  OwesNoError'
<1> DEFINE o == Owed
           p == Owed'
<1>1. o \in Seq(StatusCodes) /\ p = Append(o, c)
  BY OwedType
<1>2. \A i \in 1 .. Len(o) : o[i] \notin ErrorCodes
  BY DEF OwesNoError
<1> HIDE DEF o, p
<1>3. Len(p) = Len(o) + 1 /\ p[Len(o) + 1] = c /\ \A i \in 1 .. Len(o) : p[i] = o[i]
  BY <1>1, OneBehind
<1>4. Len(o) \in Nat
  BY <1>1
<1>5. \A i \in 1 .. Len(p) : p[i] \notin ErrorCodes
  BY <1>2, <1>3, <1>4
<1> QED
  BY <1>5 DEF OwesNoError, p

(* A clock edge queues an error only in ERROR, and once.                    *)
LEMMA TickErrorTold == SpeechInv /\ Tick => ErrorTold'
<1> SUFFICES ASSUME SpeechInv, Tick PROVE ErrorTold'
  OBVIOUS
<1>s. SessionInv /\ ErrorTold
  BY DEF SpeechInv, Speech
<1>1. PICK late : Moved(Sampled(late))
  BY <1>s, TickMove
<1> DEFINE in == Sampled(late)
<1>m. Moved(in)
  BY <1>1
<1>f. (in.fatal <=> alarm.pending # NoCode) /\ in.fatalCode = alarm.pending
  BY Sampling
<1> HIDE DEF in
<1>2. /\ Codes /\ Registers /\ heard' = heard /\ DOMAIN link = DOMAIN LinkInitial /\ Sayable
  BY <1>s DEF SessionInv, Shapes, Tick, SpeechInv, Speech
<1>3. Owed' = IF ctl'.push = NoCode THEN Owed ELSE Append(Owed, ctl'.push)
  BY <1>s, <1>2, OwedEdge
<1>4. Alive \/ ctl.state = "ERROR"
  BY DEF Tick, Alive
<1>5. Registers'
  BY <1>s, NextRegisters DEF Next, Clock
<1>6. ASSUME Alive PROVE OwesNoError'
  <2>1. OwesNoError
    BY <1>s, <1>6 DEF ErrorTold
  <2>2. CASE ctl'.push = NoCode
    BY <1>2, <1>3, <2>1, <2>2 DEF OwesNoError
  <2>3. CASE ctl'.push # NoCode
    <3>1. ctl'.push \in StatusCodes \ ErrorCodes
      <4>1. \/ ctl'.push = Tracked(in).push
            \/ Turn
        BY <1>m, <1>6, <2>3, PushCases DEF Alive
      <4>2. Turn => ctl'.push \notin ErrorCodes
        BY DEF Turn, Speaks, Verdict, ErrorCodes
      <4>3. Tracked(in).push \in HartStatuses \cup {NoCode}
        BY TrackedPush
      <4> QED
        BY <1>5, <2>3, <4>1, <4>2, <4>3, MilestoneCodes DEF Registers
    <3> QED
      BY <1>2, <1>3, <2>1, <2>3, <3>1, NoErrorAppended
  <2> QED
    BY <2>2, <2>3
<1>7. Alive' => Alive
  BY <1>m, <1>4 DEF Alive, Moved, PreMoves, ReadyMoves, ProgMoves, ExecMoves, EndMoves, ResetMoves, FatalMoves, ErrorMoves
<1>8. ASSUME Alive, ctl'.state = "ERROR" PROVE ctl'.captured \in ErrorCodes \/ ctl'.errorSent
  <2>1. alarm.pending \in ErrorCodes \cup {NoCode}
    BY <1>2 DEF Registers
  <2>2. "ERR_EH2_INIT" \in ErrorCodes
    BY DEF ErrorCodes
  <2> QED
    BY <1>f, <1>m, <1>8, <2>1, <2>2
       DEF Alive, Moved, PreMoves, ReadyMoves, ProgMoves, ExecMoves, EndMoves, ResetMoves, FatalMoves, ErrorMoves,
           Moves, Stays, Enters, Errs, ExecPhase
<1>9. ASSUME ctl.state = "ERROR"
      PROVE  /\ ctl'.state = "ERROR" /\ ctl'.captured = ctl.captured
             /\ ctl.errorSent => ctl'.errorSent
             /\ ctl'.phase = 0 /\ ~ctl'.errorSent =>
                  ctl.phase = 0 /\ ~ctl.errorSent /\ ctl'.push = NoCode
  <2>1. ResetMoves(in) \/ ErrorMoves(in)
    BY <1>m, <1>9 DEF Moved, PreMoves, ReadyMoves, ProgMoves, ExecMoves, EndMoves, FatalMoves
  <2>2. CASE ResetMoves(in)
    BY <1>9, <2>2, Untracked DEF ResetMoves
  <2>3. CASE ErrorMoves(in)
    BY <1>9, <2>3 DEF ErrorMoves
  <2> QED
    BY <2>1, <2>2, <2>3
<1>10. CASE ctl.state = "ERROR"
  <2>1. ctl'.phase = 0 /\ ~ctl'.errorSent => OwesNoError'
    <3>1. ctl'.phase = 0 /\ ~ctl'.errorSent => OwesNoError /\ Owed' = Owed
      BY <1>s, <1>3, <1>9, <1>10 DEF ErrorTold
    <3> QED
      BY <1>2, <3>1 DEF OwesNoError
  <2>2. ctl'.captured \in ErrorCodes \/ ctl'.errorSent
    BY <1>s, <1>9, <1>10 DEF ErrorTold
  <2> QED
    BY <1>7, <1>9, <1>10, <2>1, <2>2 DEF ErrorTold, Alive
<1>11. CASE Alive
  BY <1>6, <1>8, <1>11 DEF ErrorTold
<1> QED
  BY <1>4, <1>10, <1>11

(* A confirmation that reaches the controller leaves nothing owed. *)
LEMMA ConfirmedHeard ==
    ASSUME SessionInv, Alive, ctl.state # "EXECUTE", Telling, NEW late, InfoDone(Sampled(late)), Awaiting
    PROVE  Owed = <<>> /\ heard.last = Asks
<1>1. link.acks # <<>>
  BY Sampling DEF InfoDone
<1>2. Owed = <<>>
  BY <1>1, NothingOwed
<1>3. heard.last \in Heard
  BY <1>2 DEF Telling
<1>4. Heard = {Asks}
  BY DEF Awaiting, In, Heard
<1> QED
  BY <1>2, <1>3, <1>4

(* The errors owed stay errors. *)
LEMMA ErrorsAppended ==
    ASSUME Codes, Registers, OwesErrors, NEW c \in ErrorCodes, Owed' = Append(Owed, c)
    PROVE  OwesErrors'
<1> DEFINE o == Owed
           p == Owed'
<1>1. o \in Seq(StatusCodes) /\ p = Append(o, c) /\ c \in StatusCodes
  BY OwedType, MilestoneCodes
<1>2. \A i \in 1 .. Len(o) : o[i] \in ErrorCodes
  BY DEF OwesErrors
<1> HIDE DEF o, p
<1>3. Len(p) = Len(o) + 1 /\ p[Len(o) + 1] = c /\ \A i \in 1 .. Len(o) : p[i] = o[i]
  BY <1>1, OneBehind
<1>4. Len(o) \in Nat
  BY <1>1
<1>5. \A i \in 1 .. Len(p) : p[i] \in ErrorCodes
  BY <1>2, <1>3, <1>4
<1> QED
  BY <1>5 DEF OwesErrors, p

(* A clock edge asks for a dump only when the frame that announces it has   *)
(* been heard.                                                              *)
LEMMA TickLogging == SpeechInv /\ Tick => Logging'
<1> SUFFICES ASSUME SpeechInv, Tick PROVE Logging'
  OBVIOUS
<1>s. SessionInv /\ Logging /\ ErrorTold /\ (Alive => Telling)
  BY DEF SpeechInv, Speech
<1>1. PICK late : Moved(Sampled(late))
  BY <1>s, TickMove
<1> DEFINE in == Sampled(late)
<1>m. Moved(in)
  BY <1>1
<1>c. Alive /\ ctl.state # "EXECUTE" /\ InfoDone(in) /\ Awaiting => Owed = <<>> /\ heard.last = Asks
  BY <1>s, ConfirmedHeard
<1> HIDE DEF in
<1>2. /\ Codes /\ Registers /\ heard' = heard /\ DOMAIN link = DOMAIN LinkInitial /\ Sayable /\ Dumps
      /\ DOMAIN dump = DOMAIN DumpInitial
  BY <1>s DEF SessionInv, Shapes, Tick, SpeechInv, Speech
<1>3. Owed' = IF ctl'.push = NoCode THEN Owed ELSE Append(Owed, ctl'.push)
  BY <1>s, <1>2, OwedEdge
<1>4. Alive \/ ctl.state = "ERROR"
  BY DEF Tick, Alive
<1>5. /\ dump'.running = dump.running /\ dump'.left = dump.left
      /\ dump'.starting <=> DumpAsked
  BY <1>2 DEF Tick, DumpEdge, DumpInitial, DumpAsked
<1>6. ASSUME "dumpStart" \in ctl'.pulses
      PROVE  /\ Alive /\ Alive' /\ AtRest /\ heard.logs = 0
             /\ heard.last \in {"EH2_DONE", "RETRANSMIT_BEGIN"} /\ OwesErrors'
  <2>1. /\ ctl.state = "END" /\ ctl'.state = "END" /\ ctl'.pulses = {"dumpStart"} /\ ctl'.push = NoCode
        /\ InfoDone(in) /\ ctl.phase \in {1, 6}
    BY SMTT(30), <1>m, <1>6 DEF Moved, PreMoves, ReadyMoves, ProgMoves, ExecMoves, EndMoves, ResetMoves, FatalMoves,
        ErrorMoves, Moves, Stays, Enters, Errs, ExecPhase, Sends
  <2>2. Alive /\ Alive' /\ Awaiting
    BY <1>4, <2>1 DEF Alive, Awaiting, In
  <2>3. Owed = <<>> /\ heard.last = Asks /\ Telling
    BY <1>s, <1>c, <2>1, <2>2
  <2>4. heard.last \in {"EH2_DONE", "RETRANSMIT_BEGIN"}
    BY <2>1, <2>3 DEF Asks, In
  <2>5. AtRest
    BY <1>2, <2>1, <2>2 DEF Dumps, In
  <2>6. heard.logs = 0
    BY <2>1, <2>3 DEF Telling, In
  <2>7. OwesErrors'
    BY <1>3, <2>1, <2>3 DEF OwesErrors
  <2> QED
    BY <2>2, <2>4, <2>5, <2>6, <2>7
<1>7. heard'.logs \in Nat /\ (dump'.running => dump'.left \in Nat /\ heard'.logs + dump'.left = LogFrames)
  BY <1>s, <1>2, <1>5 DEF Logging
<1>8. DumpAsked' => ~dump'.running /\ heard'.logs = 0
  BY <1>s, <1>2, <1>5, <1>6 DEF Logging, DumpAsked, AtRest
<1>9. "dumpStart" \in ctl'.pulses => Alive' /\ ~dump'.starting
  BY <1>5, <1>6 DEF AtRest
<1>10. ~AtRest' => heard'.last \in {"EH2_DONE", "RETRANSMIT_BEGIN"} /\ OwesErrors'
  <2> SUFFICES ASSUME ~AtRest' PROVE heard'.last \in {"EH2_DONE", "RETRANSMIT_BEGIN"} /\ OwesErrors'
    OBVIOUS
  <2>1. CASE "dumpStart" \in ctl'.pulses
    BY <1>2, <1>6, <2>1
  <2>2. CASE "dumpStart" \notin ctl'.pulses
    <3>1. ~AtRest
      BY <1>5, <2>2 DEF AtRest, DumpAsked
    <3>2. heard.last \in {"EH2_DONE", "RETRANSMIT_BEGIN"} /\ OwesErrors
      BY <1>s, <3>1 DEF Logging
    <3>3. CASE ctl'.push = NoCode
      BY <1>2, <1>3, <3>2, <3>3 DEF OwesErrors
    <3>4. CASE ctl'.push # NoCode
      <4>1. ctl.state = "ERROR" /\ ~ctl.errorSent /\ ctl.phase = 0 /\ ctl'.push = ctl.captured
        <5>1. Alive => ctl.state = "END" /\ ~In("END", {0, 1, 2, 3, 5, 6})
          BY <1>2, <3>1 DEF Dumps, In
        <5>2. Turn /\ Alive => FALSE
          BY <5>1 DEF Turn, Speaks, In
        <5> QED
          BY <1>m, <1>4, <3>4, <5>1, <5>2, PushCases
      <4>2. ctl'.push \in ErrorCodes
        BY <1>s, <4>1 DEF ErrorTold
      <4>3. OwesErrors'
        BY <1>2, <1>3, <3>2, <3>4, <4>2, ErrorsAppended
      <4> QED
        BY <1>2, <3>2, <4>3
    <3> QED
      BY <3>3, <3>4
  <2> QED
    BY <2>1, <2>2
<1> QED
  BY <1>7, <1>8, <1>9, <1>10 DEF Logging

(* Outside EXECUTE each phase follows the frame it waited for, and what is  *)
(* heard is what the phase says.                                            *)
LEMMA TellingElsewhere ==
    ASSUME SpeechInv, Tick, NEW late, Moved(Sampled(late)), Alive, Alive', ctl.state # "EXECUTE"
    PROVE  Telling'
<1> DEFINE in == Sampled(late)
<1>m. Moved(in)
  OBVIOUS
<1>s. SessionInv /\ Telling
  BY DEF SpeechInv, Speech
<1>c. InfoDone(in) /\ Awaiting => Owed = <<>> /\ heard.last = Asks
  BY <1>s, ConfirmedHeard
<1>y. in.dumpDone = dump.sync[2]
  BY Sampling
<1> HIDE DEF in
<1>2. /\ Codes /\ Registers /\ heard' = heard /\ DOMAIN link = DOMAIN LinkInitial /\ Sayable /\ Dumps
      /\ DOMAIN dump = DOMAIN DumpInitial /\ Codes' /\ Path'
  BY <1>s, TickPath, NextCodes DEF SessionInv, Shapes, Tick, SpeechInv, Speech, Next, Clock
<1>3. Owed' = IF ctl'.push = NoCode THEN Owed ELSE Append(Owed, ctl'.push)
  BY <1>2, <1>s, OwedEdge
<1>5. dump'.running = dump.running /\ (dump'.starting <=> DumpAsked)
  BY <1>2 DEF Tick, DumpEdge, DumpInitial, DumpAsked
<1>r. AtRest' => AtRest /\ "dumpStart" \notin ctl'.pulses
  BY <1>5 DEF AtRest, DumpAsked
<1>p. ctl'.push # NoCode => Owed' # <<>>
  <2> SUFFICES ASSUME ctl'.push # NoCode PROVE Owed' # <<>>
    OBVIOUS
  <2>1. Registers'
    BY <1>s, NextRegisters DEF Next, Clock
  <2> DEFINE o == Owed
             x == ctl'.push
  <2>2. o \in Seq(StatusCodes) /\ x \in StatusCodes /\ Owed' = Append(o, x)
    BY <1>2, <1>3, <2>1, OwedType DEF Registers
  <2> HIDE DEF o, x
  <2> QED
    BY <2>2, OneBehind
<1>l. LegalPhase
  BY <1>2 DEF Registers
(* What the edge was. *)
<1> DEFINE Waits == /\ ctl'.push = NoCode /\ ctl'.expected = ctl.expected /\ ctl'.pulses = {}
                    /\ ctl'.state = ctl.state /\ ctl'.phase = ctl.phase /\ ctl'.fail = ctl.fail
           Says == /\ Turn /\ ctl'.expected = ctl'.push /\ ctl'.fail = ctl.fail
                   /\ ctl'.state = ctl.state /\ ctl'.pulses = {} /\ ~Awaiting
           Hears == Confirmed /\ Awaiting /\ InfoDone(in) /\ ctl'.push = NoCode
           Works == Proceeds(in) /\ ~Awaiting /\ ctl'.push = NoCode /\ "dumpStart" \notin ctl'.pulses
<1>6. Waits \/ Says \/ Hears \/ Works
  BY <1>m, AliveMove
<1>h. Hears => Owed = <<>> /\ heard.last = Asks
  BY <1>c
<1>v. ctl'.fail = ctl.fail => Verdict' = Verdict
  BY DEF Verdict
<1>a. Waits => /\ Asks' = Asks /\ Heard' = Heard /\ (Awaiting' <=> Awaiting)
               /\ \A s, p : In(s, p)' <=> In(s, p)
  BY <1>v DEF Asks, Heard, In, Awaiting
<1>b. Says => Asks' = ctl'.push /\ ctl'.push # NoCode
  BY <1>v DEF Turn, Speaks, Asks, In, NoCode, Verdict
<1>d. Hears \/ Works => ~Awaiting'
  BY DEF Confirmed, Proceeds, Goes, Awaiting, In
<1>e. ctl'.state # "EXECUTE" =>
        \/ ctl.state = ctl'.state
        \/ ctl.state = "PRECONFIG" /\ ctl'.state = "READY" /\ ctl'.phase = 0
        \/ ctl.state = "READY" /\ ctl'.state = "PROGRAM_WRITE" /\ ctl'.phase = 0 /\ Hears
  BY <1>6 DEF Confirmed, Proceeds, Goes
<1> HIDE DEF Waits, Says, Hears, Works
<1>t. /\ Awaiting => ctl.expected = Asks
      /\ Owed = <<>> => heard.last \in Heard
      /\ ctl.state = "PRECONFIG" => ~heard.ready
      /\ ctl.state \in {"PROGRAM_WRITE", "END"} \/ heard.last = "READY" => heard.ready
      /\ ctl.state \in {"PRECONFIG", "READY", "PROGRAM_WRITE"} => heard.harts = {}
      /\ ctl.state = "END" => heard.harts = HartStatuses
      /\ ctl.state # "END" \/ In("END", {0, 1}) => heard.logs = 0
      /\ In("END", {2, 3, 5}) \/ (In("END", {4, 7, 8}) /\ AtRest) => Whole
      /\ In("END", {6}) => IF Owed = <<>> THEN heard.logs = 0 ELSE Whole
  BY <1>s DEF Telling
<1>11. Awaiting' => ctl'.expected = Asks'
  <2>1. CASE Waits
    BY <1>a, <1>t, <2>1 DEF Waits
  <2>2. CASE Says
    BY <1>b, <2>2 DEF Says
  <2> QED
    BY <1>6, <1>d, <2>1, <2>2
<1>12. Owed' = <<>> \/ ctl'.state = "EXECUTE" => heard'.last \in Heard'
  <2>1. CASE Waits
    <3>1. Owed' = Owed /\ ctl'.state # "EXECUTE"
      BY <1>3, <2>1 DEF Waits
    <3> QED
      BY <1>2, <1>a, <1>t, <2>1, <3>1
  <2>2. CASE Says
    BY <1>p, <1>b, <2>2 DEF Says
  <2>3. CASE Hears
    <3>1. heard'.last = Asks /\ Confirmed
      BY <1>2, <1>h, <2>3 DEF Hears
    <3>2. CASE ctl.state = "PRECONFIG"
      BY <3>1, <3>2 DEF Confirmed, Goes, Asks, Heard, In, Verdict
    <3>3. CASE ctl.state # "PRECONFIG"
      BY <3>1, <3>3 DEF Confirmed, Goes, Asks, Heard, In
    <3> QED
      BY <3>2, <3>3
  <2>4. CASE Works
    <3>1. heard'.last \in Heard /\ Proceeds(in)
      <4>1. Owed = <<>>
        BY <1>s, <2>4, NothingOwed DEF Works
      <4> QED
        BY <1>2, <1>t, <2>4, <4>1 DEF Works
    <3> QED
      BY <3>1 DEF Proceeds, Goes, Heard, In
  <2> QED
    BY <1>6, <2>1, <2>2, <2>3, <2>4
<1>13. ctl'.state = "PRECONFIG" => ~heard'.ready
  BY <1>2, <1>e, <1>t
<1>q. Hears /\ ctl.state = "READY" => heard.ready
  <2>1. Hears /\ ctl.state = "READY" => Asks = "READY"
    BY DEF Hears, Awaiting, In, Asks
  <2> QED
    BY <1>h, <1>t, <2>1
<1>14. ctl'.state \in {"PROGRAM_WRITE", "EXECUTE", "END"} \/ heard'.last = "READY" => heard'.ready
  <2>1. ctl'.state = "EXECUTE" => ctl.state = "PROGRAM_WRITE"
    BY <1>6 DEF Waits, Says, Hears, Works, Confirmed, Proceeds, Goes
  <2> QED
    BY <1>2, <1>e, <1>q, <1>t, <2>1
<1>15. ctl'.state \in {"PRECONFIG", "READY", "PROGRAM_WRITE"} => heard'.harts = {}
  BY <1>2, <1>e, <1>t
<1>16. ctl'.state = "EXECUTE" =>
          /\ ctl'.queued = heard'.harts \cup {Owed'[i] : i \in 1 .. Len(Owed')}
          /\ ctl'.sent \subseteq heard'.harts
          /\ \A i \in 1 .. Len(link'.acks) : link'.acks[i] \in heard'.harts
          /\ \A s \in ctl'.pending \cup ctl'.queued : StartOf[s] \in ctl'.pending \cup ctl'.queued
          /\ \A s \in ctl'.queued : StartOf[s] \in ctl'.queued
  <2> SUFFICES ASSUME ctl'.state = "EXECUTE"
               PROVE  /\ ctl'.queued = heard'.harts \cup {Owed'[i] : i \in 1 .. Len(Owed')}
                      /\ ctl'.sent = {} /\ ctl'.pending = {} /\ ctl'.queued = {}
                      /\ link'.acks = <<>>
    OBVIOUS
  <2>1. ctl.state = "PROGRAM_WRITE" /\ Hears
    BY <1>6 DEF Waits, Says, Hears, Works, Confirmed, Proceeds, Goes
  <2>2. ctl'.pending = {} /\ ctl'.queued = {} /\ ctl'.sent = {}
    BY <1>m, <2>1 DEF Alive, Cleared, Moved, PreMoves, ReadyMoves, ProgMoves, ExecMoves, EndMoves, ResetMoves,
        FatalMoves, ErrorMoves
  <2>3. Owed' = <<>>
    BY <1>3, <1>h, <2>1 DEF Hears
  <2>4. link'.acks = <<>>
    <3>1. HartCodes'
      BY <1>2 DEF Path
    <3>2. Unconfirmed' = {}
      BY <2>2 DEF Unconfirmed
    <3>3. link'.acks \in Seq({})
      BY <3>1, <3>2 DEF HartCodes
    <3> QED
      BY <3>3, NothingIn
  <2>5. heard'.harts = {}
    BY <1>2, <1>t, <2>1
  <2> QED
    BY <2>2, <2>3, <2>4, <2>5
<1>17. ctl'.state = "END" => heard'.harts = HartStatuses
  BY <1>2, <1>e, <1>t
<1>18. ctl'.state # "END" \/ In("END", {0, 1})' => heard'.logs = 0
  <2>1. CASE ctl.state # "END"
    BY <1>2, <1>t, <2>1
  <2>2. CASE ctl.state = "END"
    <3>1. ctl'.state = "END" /\ (ctl'.phase \in {0, 1} => ctl.phase \in {0, 1})
      BY <1>6, <2>2 DEF Waits, Says, Hears, Works, Turn, Speaks, Confirmed, Proceeds, Goes
    <3> QED
      BY <1>2, <1>t, <2>2, <3>1 DEF In
  <2> QED
    BY <2>1, <2>2
<1>19. In("END", {2, 3, 5})' \/ (In("END", {4, 7, 8})' /\ AtRest') => Whole'
  <2> SUFFICES ASSUME In("END", {2, 3, 5})' \/ (In("END", {4, 7, 8})' /\ AtRest') PROVE Whole
    BY <1>2 DEF Whole
  <2>0. ctl.state = "END" /\ ctl'.state = "END"
    BY <1>e DEF In
  <2>1. CASE Waits
    BY <1>a, <1>r, <1>t, <2>1 DEF In, Waits
  <2>2. CASE Says
    BY <1>t, <2>0, <2>2 DEF Says, Turn, Speaks, In
  <2>3. CASE Hears
    <3>1. ctl.phase = 3
      BY <1>r, <2>0, <2>3 DEF Hears, Confirmed, Goes, In
    <3> QED
      BY <1>t, <2>0, <3>1 DEF In
  <2>4. CASE Works
    <3>1. ctl.phase \in {4, 8} => (dump.sync[2] => AtRest)
      BY <1>2, <2>0, Halves DEF Dumps, In
    <3>3. \/ ctl.phase \in {4, 8} /\ dump.sync[2]
          \/ ctl.phase = 7 /\ ctl'.phase = 8
      BY <1>y, <2>0, <2>4 DEF Works, Proceeds, Goes
    <3>4. AtRest /\ ctl.phase \in {4, 7, 8}
      BY <1>r, <2>0, <3>1, <3>3 DEF In
    <3> QED
      BY <1>t, <2>0, <3>4 DEF In
  <2> QED
    BY <1>6, <2>1, <2>2, <2>3, <2>4
<1>20. In("END", {6})' => IF Owed' = <<>> THEN heard'.logs = 0 ELSE Whole'
  <2> SUFFICES ASSUME In("END", {6})' PROVE IF Owed' = <<>> THEN heard.logs = 0 ELSE Whole
    BY <1>2 DEF Whole
  <2>1. CASE Waits
    <3>1. Owed' = Owed /\ In("END", {6})
      BY <1>3, <1>a, <2>1 DEF Waits
    <3> QED
      BY <1>t, <3>1
  <2>2. CASE Says
    <3>1. In("END", {5}) /\ Owed' # <<>>
      BY <1>p, <1>b, <2>2 DEF Says, Turn, Speaks, In
    <3> QED
      BY <1>t, <3>1 DEF In
  <2>3. ~Hears /\ ~Works
    BY DEF Hears, Works, Confirmed, Proceeds, Goes, In
  <2> QED
    BY <1>6, <2>1, <2>2, <2>3
<1> QED
  BY <1>11, <1>12, <1>13, <1>14, <1>15, <1>16, <1>17, <1>18, <1>19, <1>20 DEF Telling

(* A hart that has stopped has started.                                     *)
LEMMA RaisedStarts ==
    ASSUME NEW late, NEW s \in Raised(Sampled(late))
    PROVE  s \in HartStatuses /\ StartOf[s] \in Raised(Sampled(late))
<1>1. Sampled(late).stopped \subseteq Sampled(late).started
  BY DEF Sampled
<1> DEFINE in == Sampled(late)
<1> HIDE DEF in
<1> QED
  BY <1>1 DEF Raised, StartOf, HartStatuses, in

(* In EXECUTE the harts' codes are queued once each, the start before the   *)
(* stop, and END follows when all have been heard.                          *)
LEMMA TellingExecute ==
    ASSUME SpeechInv, Tick, NEW late, Moved(Sampled(late)), Alive, Alive', ctl.state = "EXECUTE"
    PROVE  Telling'
<1> DEFINE in == Sampled(late)
<1>1. ExecMoves(in) /\ ctl'.state \in {"EXECUTE", "END"} /\ (ctl'.state = "END" => Finished(in) /\ ctl'.phase = 0)
  <2>1. Moved(in)
    OBVIOUS
  <2> HIDE DEF in
  <2> QED
    BY <2>1
     DEF Alive, Moved, PreMoves, ReadyMoves, ProgMoves, ExecMoves, EndMoves, ResetMoves, FatalMoves, ErrorMoves, ExecPhase
<1>2. ~in.fatal /\ Tracks(in)
  BY <1>1 DEF ExecMoves
<1>3. SessionInv /\ Telling /\ HartCodes /\ Codes /\ Registers /\ heard' = heard /\ Sayable
      /\ DOMAIN link = DOMAIN LinkInitial
  BY DEF SpeechInv, Speech, SessionInv, Path, Shapes, Tick
<1>4. /\ ctl.queued = heard.harts \cup {Owed[i] : i \in 1 .. Len(Owed)}
      /\ ctl.sent \subseteq heard.harts
      /\ \A i \in 1 .. Len(link.acks) : link.acks[i] \in heard.harts
      /\ \A s \in ctl.pending \cup ctl.queued : StartOf[s] \in ctl.pending \cup ctl.queued
      /\ \A s \in ctl.queued : StartOf[s] \in ctl.queued
      /\ heard.ready /\ heard.logs = 0
  BY <1>3 DEF Telling
<1>5. /\ ctl.pending \subseteq HartStatuses /\ ctl.queued \subseteq HartStatuses
      /\ ctl.pending \cap ctl.queued = {} /\ ctl.sent \subseteq ctl.queued
  BY <1>3 DEF HartCodes
<1>6. heard.last = "PROGRAM_DONE" /\ heard.harts \subseteq HartStatuses
  BY <1>3, <1>5, HartsOwed
<1>7. Owed' = IF ctl'.push = NoCode THEN Owed ELSE Append(Owed, ctl'.push)
  BY <1>3, OwedEdge
<1>8. ctl'.push = Tracked(in).push /\ ctl'.queued = Tracked(in).queued /\ ctl'.sent = Tracked(in).sent
      /\ ctl'.pending = Tracked(in).pending
  BY <1>2 DEF Tracks
<1>9. /\ Tracked(in).queued = ctl.queued \cup Chosen(in) /\ Chosen(in) \subseteq ctl.pending
      /\ Tracked(in).push \in Chosen(in) \cup {NoCode}
      /\ Tracked(in).sent = IF in.frameDone THEN ctl.sent \cup ({in.sentCode} \cap HartStatuses)
                            ELSE ctl.sent
  BY <1>2, <1>5, TrackedHarts
<1>10. ctl'.queued = heard.harts \cup {Owed'[i] : i \in 1 .. Len(Owed')}
  <2>1. CASE ctl'.push = NoCode
    <3>1. Chosen(in) = {}
      <4>1. Tracked(in).push = IF Chosen(in) = {} THEN NoCode ELSE CHOOSE s \in HartStatuses : s \in Chosen(in)
        BY <1>2 DEF Tracked, Tracking
      <4>2. Chosen(in) # {} => (CHOOSE s \in HartStatuses : s \in Chosen(in)) \in HartStatuses
        BY <1>5, <1>9
      <4>3. NoCode \notin HartStatuses
        BY DEF HartStatuses, NoCode
      <4> QED
        BY <1>8, <2>1, <4>1, <4>2, <4>3
    <3> QED
      BY <1>4, <1>7, <1>8, <1>9, <2>1, <3>1
  <2>2. CASE ctl'.push # NoCode
    <3> DEFINE c == ctl'.push
               o == Owed
               p == Owed'
    <3>1. ctl'.queued = ctl.queued \cup {c} /\ c \in HartStatuses
      BY <1>2, <1>4, <1>5, <1>8, <2>2, ChosenNew
    <3>2. o \in Seq(StatusCodes) /\ c \in StatusCodes /\ p = Append(o, c)
      BY <1>3, <1>7, <2>2, <3>1, OwedType, MilestoneCodes
    <3> HIDE DEF c, o, p
    <3>3. Len(o) \in Nat /\ Len(p) = Len(o) + 1 /\ p[Len(o) + 1] = c /\ \A i \in 1 .. Len(o) : p[i] = o[i]
      BY <3>2, OneBehind
    <3>4. {p[i] : i \in 1 .. Len(p)} = {o[i] : i \in 1 .. Len(o)} \cup {c}
      BY <3>3
    <3> QED
      BY <1>4, <3>1, <3>4 DEF o, p
  <2> QED
    BY <2>1, <2>2
<1>11. ctl'.sent \subseteq heard.harts
  <2>1. in.frameDone => in.sentCode \in heard.harts
    <3>1. (in.frameDone <=> link.acks # <<>>) /\ in.sentCode = IF link.acks = <<>> THEN NoCode ELSE Head(link.acks)
      BY Sampling
    <3> DEFINE a == link.acks
    <3>2. a \in Seq(StatusCodes) /\ \A i \in 1 .. Len(a) : a[i] \in heard.harts
      BY <1>3, <1>4 DEF Codes
    <3> HIDE DEF a
    <3>3. a # <<>> => Head(a) \in heard.harts
      BY <3>2
    <3> QED
      BY <3>1, <3>3 DEF a
  <2> QED
    BY <1>4, <1>8, <1>9, <2>1
<1>12. \A i \in 1 .. Len(link'.acks) : link'.acks[i] \in heard.harts
  <2> DEFINE a == link.acks
             b == link'.acks
  <2>1. b = (IF a = <<>> THEN a ELSE Tail(a)) /\ a \in Seq(StatusCodes) /\ \A i \in 1 .. Len(a) : a[i] \in heard.harts
    BY <1>3, <1>4, LinkSteps DEF Codes
  <2> HIDE DEF a, b
  <2>2. \A i \in 1 .. Len(b) : b[i] \in heard.harts
    BY <2>1
  <2> QED
    BY <2>2 DEF b
<1>r. Raised(in) \subseteq HartStatuses /\ \A s \in Raised(in) : StartOf[s] \in Raised(in)
  BY RaisedStarts
<1>13. \A s \in ctl'.pending \cup ctl'.queued : StartOf[s] \in ctl'.pending \cup ctl'.queued
  <2>1. Tracked(in).pending = (ctl.pending \cup (Raised(in) \ ctl.queued)) \ Chosen(in)
    BY <1>2 DEF Tracked, Tracking
  <2>2. ctl'.pending \cup ctl'.queued = ctl.pending \cup ctl.queued \cup Raised(in)
    BY <1>8, <1>9, <2>1
  <2> QED
    BY <1>4, <1>r, <2>2
<1>14. \A s \in ctl'.queued : StartOf[s] \in ctl'.queued
  <2>1. CASE ctl'.push = NoCode
    <3>1. Owed' = Owed
      BY <1>7, <2>1
    <3> QED
      BY <1>4, <1>10, <3>1
  <2>2. CASE ctl'.push # NoCode
    BY <1>2, <1>4, <1>5, <1>8, <2>2, ChosenNew
  <2> QED
    BY <2>1, <2>2
<1>15. ctl'.state = "END" => heard.harts = HartStatuses
  <2>1. ctl'.state = "END" => ctl.sent = HartStatuses
    BY <1>1 DEF Finished
  <2> QED
    BY <1>4, <1>6, <2>1
<1>16. ~Awaiting' /\ (ctl'.state # "EXECUTE" => In("END", {0})')
  BY <1>1 DEF Awaiting, In
<1>17. Heard' = {"PROGRAM_DONE"}
  BY <1>1 DEF Heard, In
<1>18. ~In("END", {2, 3, 5})' /\ ~In("END", {4, 7, 8})' /\ ~In("END", {6})' /\ ctl'.state \notin {"PRECONFIG", "READY", "PROGRAM_WRITE"}
  BY <1>1 DEF In
<1> HIDE DEF in
<1> QED
  BY <1>3, <1>4, <1>6, <1>10, <1>11, <1>12, <1>13, <1>14, <1>15, <1>16, <1>17, <1>18 DEF Telling

(* A frame of the information path leaves. *)
LEMMA SpeechSent == SpeechInv /\ SendInfo => Speech'
<1> SUFFICES ASSUME SpeechInv, SendInfo PROVE Speech'
  OBVIOUS
<1>s. SessionInv /\ Sayable /\ ErrorTold /\ Logging /\ (Alive => Telling)
  BY DEF SpeechInv, Speech
<1> DEFINE c == Owed[1]
<1>1. /\ ctl' = ctl /\ dump' = dump /\ link.fifo # <<>> /\ link'.fifo = Tail(link.fifo)
      /\ link'.acks = Append(link.acks, Head(link.fifo)) /\ heard' = Hear(heard, Head(link.fifo))
  BY DEF SendInfo
<1>2. /\ Codes /\ Registers /\ Codes' /\ Registers' /\ DOMAIN heard = DOMAIN Silence
  BY <1>s, NextCodes, NextRegisters DEF SessionInv, Shapes, Next, Work, Transmit
<1>3. /\ Len(Owed) \in Nat \ {0} /\ Head(link.fifo) = c /\ c \in StatusCodes
      /\ Len(Owed') = Len(Owed) - 1
      /\ \A i \in 1 .. Len(Owed') : Owed'[i] = Owed[i + 1]
  BY <1>1, <1>2, OwedSent
<1>4. 1 \in 1 .. Len(Owed) /\ \A i \in 1 .. Len(Owed') : i + 1 \in 1 .. Len(Owed)
  BY <1>3
<1> HIDE DEF c
<1>5. /\ DOMAIN heard' = DOMAIN Silence
      /\ c \in HartStatuses =>
            /\ heard'.harts = heard.harts \cup {c} /\ heard'.last = heard.last
            /\ heard'.ready = heard.ready /\ heard'.logs = heard.logs /\ heard'.error = heard.error
      /\ c \in ErrorCodes =>
            /\ heard'.error = c /\ heard'.last = heard.last /\ heard'.harts = heard.harts
            /\ heard'.ready = heard.ready /\ heard'.logs = heard.logs
      /\ c \notin HartStatuses \cup ErrorCodes =>
            /\ heard'.last = c /\ heard'.harts = heard.harts /\ heard'.error = heard.error
            /\ (heard'.ready <=> heard.ready \/ c = "READY")
            /\ heard'.logs = IF c = "RETRANSMIT_BEGIN" THEN 0 ELSE heard.logs
  <2>1. heard' = Hear(heard, c) /\ c # "LOG"
    BY <1>1, <1>3, MilestoneCodes
  <2> QED
    BY <1>2, <2>1, HeardFields
<1>6. heard'.logs \in {0, heard.logs}
  BY <1>5
<1>7. Sayable'
  BY <1>s, <1>1, <1>2, SayableSent
<1>8. OwesNoError => OwesNoError'
  <2> SUFFICES ASSUME OwesNoError PROVE OwesNoError'
    OBVIOUS
  <2>1. heard.error = NoCode /\ \A i \in 1 .. Len(Owed) : Owed[i] \notin ErrorCodes
    BY DEF OwesNoError
  <2>2. c \notin ErrorCodes
    BY <1>4, <2>1 DEF c
  <2>3. heard'.error = NoCode
    BY <1>5, <2>1, <2>2
  <2>4. \A i \in 1 .. Len(Owed') : Owed'[i] \notin ErrorCodes
    BY <1>3, <1>4, <2>1
  <2> QED
    BY <2>3, <2>4 DEF OwesNoError
<1>9. (Alive' <=> Alive) /\ (AtRest' <=> AtRest) /\ (DumpAsked' <=> DumpAsked)
  BY <1>1 DEF Alive, AtRest, DumpAsked
<1>10. ErrorTold'
  BY <1>s, <1>1, <1>8, <1>9 DEF ErrorTold
<1>11. OwesErrors => c \in ErrorCodes /\ OwesErrors'
  <2> SUFFICES ASSUME OwesErrors PROVE c \in ErrorCodes /\ OwesErrors'
    OBVIOUS
  <2>1. \A i \in 1 .. Len(Owed) : Owed[i] \in ErrorCodes
    BY DEF OwesErrors
  <2> QED
    BY <1>3, <1>4, <2>1 DEF OwesErrors, c
<1>12. Logging'
  <2>1. heard'.logs \in Nat /\ (DumpAsked' => ~dump'.running /\ heard'.logs = 0)
    BY <1>s, <1>1, <1>6, <1>9 DEF Logging
  <2>2. "dumpStart" \in ctl'.pulses => Alive' /\ ~dump'.starting
    BY <1>s, <1>1, <1>9 DEF Logging
  <2>3. ~AtRest' => /\ heard'.last \in {"EH2_DONE", "RETRANSMIT_BEGIN"} /\ OwesErrors'
                    /\ heard'.logs = heard.logs
    BY <1>s, <1>5, <1>9, <1>11 DEF Logging
  <2>4. dump'.running => dump'.left \in Nat /\ heard'.logs + dump'.left = LogFrames
    BY <1>s, <1>1, <1>9, <2>3 DEF Logging, AtRest
  <2> QED
    BY <2>1, <2>2, <2>3, <2>4 DEF Logging
<1>13. CASE ~Alive
  BY <1>7, <1>9, <1>10, <1>12, <1>13 DEF Speech
<1>i. /\ Asks' = Asks /\ Heard' = Heard /\ (Awaiting' <=> Awaiting)
      /\ \A s, p : In(s, p)' <=> In(s, p)
  BY <1>1 DEF Asks, Heard, In, Awaiting, Verdict
<1>14. CASE Alive /\ ctl.state # "EXECUTE"
  <2>1. Awaiting /\ link.fifo = <<ctl.expected>> /\ Owed = <<ctl.expected>> /\ Telling
    BY <1>s, <1>1, <1>14, NothingOwed DEF Owed, SessionInv, Path, OnPath, PathEmpty
  <2>2. c = Asks /\ Len(Owed) = 1
    BY <2>1 DEF Telling, c
  <2>3. Len(Owed') = 0
    BY <1>3, <2>2
  <2>4. Heard = {Asks}
    BY <2>1 DEF Awaiting, In, Heard
  <2>5. c \notin HartStatuses \cup ErrorCodes
    <3>1. Asks \in {"PREINIT_DONE", "PROGRAM_START", "RECEIVE_DONE", "CHECK_PASS", "INSTR_FAIL",
                    "DATA_FAIL", "READY", "PROGRAM_DONE", "EH2_DONE", "EXE_END", "RETRANSMIT_BEGIN"}
      BY <2>1 DEF Awaiting, In, Asks, Verdict
    <3> QED
      BY <2>2, <3>1 DEF HartStatuses, ErrorCodes
  <2>6. ctl.state = "PRECONFIG" => c # "READY"
    BY <2>1, <2>2 DEF Awaiting, In, Asks, Verdict
  <2>7. In("END", {6}) => c = "RETRANSMIT_BEGIN"
    BY <2>2 DEF In, Asks
  <2>8. In("END", {2, 3, 5}) => c # "RETRANSMIT_BEGIN"
    BY <2>1, <2>2 DEF Awaiting, In, Asks
  <2>9. ~In("END", {4, 7, 8})
    BY <2>1 DEF Awaiting, In
  <2>10. heard'.last = c /\ heard'.harts = heard.harts /\ (heard'.ready <=> heard.ready \/ c = "READY")
         /\ heard'.logs = IF c = "RETRANSMIT_BEGIN" THEN 0 ELSE heard.logs
    BY <1>5, <2>5
  <2>11. Owed' = <<>>
    <3>1. link'.fifo = <<>>
      BY <1>1, <2>1
    <3> QED
      BY <1>1, <1>s, <1>14, <2>1, <3>1, NothingOwed DEF Owed
  <2>t. /\ Awaiting => ctl.expected = Asks
        /\ ctl.state = "PRECONFIG" => ~heard.ready
        /\ ctl.state \in {"PROGRAM_WRITE", "EXECUTE", "END"} \/ heard.last = "READY" => heard.ready
        /\ ctl.state \in {"PRECONFIG", "READY", "PROGRAM_WRITE"} => heard.harts = {}
        /\ ctl.state = "END" => heard.harts = HartStatuses
        /\ ctl.state # "END" \/ In("END", {0, 1}) => heard.logs = 0
        /\ In("END", {2, 3, 5}) => Whole
    BY <2>1 DEF Telling
  <2>12. Whole' <=> heard'.logs = LogFrames
    BY DEF Whole
  <2>13. Whole <=> heard.logs = LogFrames
    BY DEF Whole
  <2>14. Telling'
    BY <1>1, <1>14, <1>i, <2>2, <2>4, <2>6, <2>7, <2>8, <2>9, <2>10, <2>11, <2>t, <2>12, <2>13 DEF Telling
  <2> QED
    BY <1>7, <1>10, <1>12, <2>14 DEF Speech
<1>15. CASE Alive /\ ctl.state = "EXECUTE"
  <2>1. Telling /\ heard.last = "PROGRAM_DONE"
        /\ \A i \in 1 .. Len(Owed) : Owed[i] \in HartStatuses
    BY <1>s, <1>15, HartsOwed
  <2>2. c \in HartStatuses
    BY <1>4, <2>1 DEF c
  <2>3. /\ heard'.harts = heard.harts \cup {c} /\ heard'.last = heard.last
        /\ heard'.ready = heard.ready /\ heard'.logs = heard.logs
    BY <1>5, <2>2
  <2>t. /\ ctl.queued = heard.harts \cup {Owed[i] : i \in 1 .. Len(Owed)}
        /\ ctl.sent \subseteq heard.harts
        /\ \A i \in 1 .. Len(link.acks) : link.acks[i] \in heard.harts
        /\ \A s \in ctl.pending \cup ctl.queued : StartOf[s] \in ctl.pending \cup ctl.queued
        /\ \A s \in ctl.queued : StartOf[s] \in ctl.queued
        /\ heard.ready /\ heard.logs = 0
    BY <1>15, <2>1 DEF Telling
  <2>4. ctl.queued = heard'.harts \cup {Owed'[i] : i \in 1 .. Len(Owed')}
    <3> DEFINE o == Owed
               p == Owed'
               n == Len(Owed)
    <3>1. n \in Nat \ {0} /\ Len(p) = n - 1 /\ o[1] = c /\ \A i \in 1 .. n - 1 : p[i] = o[i + 1]
      BY <1>3 DEF c
    <3>2. ctl.queued = heard.harts \cup {o[i] : i \in 1 .. n}
      BY <2>t
    <3> HIDE DEF o, p, n
    <3>3. \A i \in 1 .. n : o[i] = c \/ \E j \in 1 .. n - 1 : o[i] = p[j]
      <4> SUFFICES ASSUME NEW i \in 1 .. n, i # 1 PROVE \E j \in 1 .. n - 1 : o[i] = p[j]
        BY <3>1
      <4>1. i - 1 \in 1 .. n - 1 /\ (i - 1) + 1 = i
        BY <3>1
      <4> QED
        BY <3>1, <4>1
    <3>4. \A j \in 1 .. n - 1 : j + 1 \in 1 .. n /\ p[j] = o[j + 1]
      BY <3>1
    <3>5. 1 \in 1 .. n
      BY <3>1
    <3>6. {o[i] : i \in 1 .. n} = {c} \cup {p[j] : j \in 1 .. n - 1}
      BY <3>1, <3>3, <3>4, <3>5
    <3> QED
      BY <2>3, <3>1, <3>2, <3>6 DEF p
  <2>5. \A i \in 1 .. Len(link'.acks) : link'.acks[i] \in heard'.harts
    <3> DEFINE a == link.acks
               b == link'.acks
    <3>1. a \in Seq(StatusCodes) /\ b = Append(a, c) /\ \A i \in 1 .. Len(a) : a[i] \in heard.harts
      BY <1>1, <1>2, <1>3, <2>t DEF Codes
    <3> HIDE DEF a, b
    <3>2. Len(a) \in Nat /\ Len(b) = Len(a) + 1 /\ b[Len(a) + 1] = c /\ \A i \in 1 .. Len(a) : b[i] = a[i]
      BY <1>3, <3>1, OneBehind
    <3>3. \A i \in 1 .. Len(b) : b[i] \in heard'.harts
      BY <2>3, <3>1, <3>2
    <3> QED
      BY <3>3 DEF b
  <2>6. ~Awaiting /\ ~In("END", {2, 3, 5}) /\ ~In("END", {4, 7, 8}) /\ ~In("END", {6}) /\ Heard = {"PROGRAM_DONE"}
    BY <1>15 DEF Awaiting, In, Heard
  <2>7. Telling'
    BY <1>1, <1>15, <1>i, <2>1, <2>3, <2>4, <2>5, <2>6, <2>t DEF Telling
  <2> QED
    BY <1>7, <1>10, <1>12, <2>7 DEF Speech
<1> QED
  BY <1>13, <1>14, <1>15

(* A log frame that leaves is a step of the protocol.                       *)
LEMMA SpeechLogged == SpeechInv /\ SendLog => Speech' /\ Protocol!Next
<1> SUFFICES ASSUME SpeechInv, SendLog PROVE Speech' /\ Protocol!Next
  OBVIOUS
<1>s. SessionInv /\ Sayable /\ ErrorTold /\ Logging /\ (Alive => Telling) /\ Dumps
  BY DEF SpeechInv, Speech, SessionInv
<1>1. /\ ctl' = ctl /\ link' = link /\ dump.running /\ dump.left > 0 /\ heard' = Hear(heard, "LOG")
      /\ dump'.running = dump.running /\ dump'.starting = dump.starting /\ dump'.left = dump.left - 1
  BY <1>s DEF SendLog, SessionInv, Shapes, DumpInitial
<1>2. DOMAIN heard = DOMAIN Silence
  BY <1>s DEF SessionInv, Shapes
<1>3. /\ heard'.logs = heard.logs + 1 /\ heard'.last = heard.last /\ heard'.harts = heard.harts
      /\ heard'.ready = heard.ready /\ heard'.error = heard.error
  BY <1>1, <1>2, HeardFields
<1>4. ~AtRest /\ ~DumpAsked
  BY <1>s, <1>1 DEF AtRest, Logging
<1>5. /\ heard.last \in {"EH2_DONE", "RETRANSMIT_BEGIN"} /\ OwesErrors
      /\ heard.logs \in Nat /\ dump.left \in Nat /\ heard.logs + dump.left = LogFrames
  BY <1>s, <1>1, <1>4 DEF Logging
<1>6. Owed' = Owed
  BY <1>1 DEF Owed
<1>7. Sayable'
  BY <1>s, <1>3, <1>5, <1>6, SayableLogged
<1>8. (Alive' <=> Alive) /\ (AtRest' <=> AtRest) /\ (DumpAsked' <=> DumpAsked)
      /\ (OwesErrors' <=> OwesErrors) /\ (OwesNoError' <=> OwesNoError)
  BY <1>1, <1>3, <1>6 DEF Alive, AtRest, DumpAsked, OwesErrors, OwesNoError
<1>9. ErrorTold'
  BY <1>s, <1>1, <1>8 DEF ErrorTold
<1>10. dump'.left \in Nat /\ heard'.logs + dump'.left = LogFrames /\ heard'.logs \in Nat
  BY <1>1, <1>3, <1>5
<1>11. Logging'
  BY <1>s, <1>1, <1>3, <1>4, <1>5, <1>8, <1>10 DEF Logging
<1>i. /\ Asks' = Asks /\ Heard' = Heard /\ (Awaiting' <=> Awaiting)
      /\ \A s, p : In(s, p)' <=> In(s, p)
  BY <1>1 DEF Asks, Heard, In, Awaiting, Verdict
<1>12. Alive => ctl.state = "END" /\ ~In("END", {0, 1}) /\ ~In("END", {2, 3, 5}) /\ ~In("END", {6})
  BY <1>s, <1>4 DEF Dumps, In
<1>13. Alive => Telling'
  <2> SUFFICES ASSUME Alive PROVE Telling'
    OBVIOUS
  <2>1. /\ Awaiting => ctl.expected = Asks
        /\ Owed = <<>> => heard.last \in Heard
        /\ heard.ready /\ heard.harts = HartStatuses
    BY <1>s, <1>12 DEF Telling
  <2> QED
    BY <1>1, <1>3, <1>4, <1>6, <1>8, <1>i, <1>12, <2>1 DEF Telling
<1>14. Speech'
  BY <1>7, <1>8, <1>9, <1>11, <1>13 DEF Speech
<1>15. Protocol!Next
  <2>1. ~Protocol!Whole
    <3>1. heard.logs # LogFrames
      BY <1>1, <1>5
    <3> QED
      BY <3>1 DEF Protocol!Whole
  <2>2. heard' = Protocol!Hear(heard, "LOG")
    BY <1>1 DEF Protocol!Hear, Hear, Protocol!HartStatuses, HartStatuses, Protocol!ErrorCodes, ErrorCodes
  <2> QED
    BY <1>5, <2>1, <2>2 DEF Protocol!Next, Protocol!Log
<1> QED
  BY <1>14, <1>15

(* The frames heard and owed stay what they are. *)
LEMMA SpeechDumped == SpeechInv /\ (DumpBegins \/ DumpEnds) => Speech'
<1> SUFFICES ASSUME SpeechInv, DumpBegins \/ DumpEnds PROVE Speech'
  OBVIOUS
<1>s. SessionInv /\ Sayable /\ ErrorTold /\ Logging /\ (Alive => Telling) /\ Dumps
  BY DEF SpeechInv, Speech, SessionInv
<1>1. /\ ctl' = ctl /\ link' = link /\ heard' = heard
      /\ \/ /\ dump.starting /\ ~dump'.starting /\ dump'.running /\ dump'.left = LogFrames
         \/ dump.running /\ dump.left = 0 /\ ~dump'.running /\ dump'.starting = dump.starting
  BY <1>s DEF DumpBegins, DumpEnds, SessionInv, Shapes, DumpInitial
<1>2. Owed' = Owed
  BY <1>1 DEF Owed
<1>3. Sayable'
  BY <1>s, <1>1, <1>2, SayableKept
<1>4. (Alive' <=> Alive) /\ (OwesErrors' <=> OwesErrors) /\ (OwesNoError' <=> OwesNoError)
      /\ (Whole' <=> Whole)
  BY <1>1, <1>2 DEF Alive, OwesErrors, OwesNoError, Whole
<1>5. ErrorTold'
  BY <1>s, <1>1, <1>4 DEF ErrorTold
<1>6. /\ dump.running => ~DumpAsked
      /\ dump.starting => "dumpStart" \notin ctl.pulses /\ heard.logs = 0
      /\ heard.logs \in Nat /\ LogFrames \in Nat
  BY <1>s, SystemAssumption DEF Logging, DumpAsked
<1>7. ~AtRest /\ (DumpAsked' => DumpAsked) /\ (dump.starting => ~DumpAsked')
  BY <1>1, <1>6 DEF AtRest, DumpAsked
<1>8. dump'.running => dump'.left \in Nat /\ heard'.logs + dump'.left = LogFrames
  BY <1>1, <1>6
<1>9. Logging'
  <2>1. DumpAsked' => ~dump'.running /\ heard'.logs = 0
    BY <1>s, <1>1, <1>6, <1>7 DEF Logging, DumpAsked
  <2>2. "dumpStart" \in ctl'.pulses => Alive' /\ ~dump'.starting
    BY <1>s, <1>1, <1>4 DEF Logging
  <2>3. heard'.last \in {"EH2_DONE", "RETRANSMIT_BEGIN"} /\ OwesErrors' /\ heard'.logs \in Nat
    BY <1>s, <1>1, <1>4, <1>7 DEF Logging
  <2> QED
    BY <1>8, <2>1, <2>2, <2>3 DEF Logging
<1>10. AtRest' => heard.logs = LogFrames
  <2>1. AtRest' => dump.running /\ dump.left = 0
    BY <1>1 DEF AtRest
  <2> QED
    BY <1>s, <1>6, <2>1 DEF Logging
<1>i. /\ Asks' = Asks /\ Heard' = Heard /\ (Awaiting' <=> Awaiting)
      /\ \A s, p : In(s, p)' <=> In(s, p)
  BY <1>1 DEF Asks, Heard, In, Awaiting, Verdict
<1>11. Alive => ctl.state = "END" /\ ~In("END", {0, 1}) /\ ~In("END", {2, 3, 5}) /\ ~In("END", {6})
  BY <1>s, <1>7 DEF Dumps, In
<1>12. Alive => Telling'
  <2> SUFFICES ASSUME Alive PROVE Telling'
    OBVIOUS
  <2>1. /\ Awaiting => ctl.expected = Asks
        /\ Owed = <<>> => heard.last \in Heard
        /\ heard.ready /\ heard.harts = HartStatuses
    BY <1>s, <1>11 DEF Telling
  <2>2. AtRest' => Whole'
    BY <1>1, <1>10 DEF Whole
  <2> QED
    BY <1>1, <1>2, <1>i, <1>11, <2>1, <2>2 DEF Telling
<1> QED
  BY <1>3, <1>4, <1>5, <1>9, <1>12 DEF Speech

(* A session that starts has nothing to say.                                *)
LEMMA SpeechStarts ==
    ASSUME ctl = InitialRegisters, link = LinkInitial, dump = DumpInitial, heard = Silence
    PROVE  Speech
<1> USE DEF InitialRegisters, LinkInitial, DumpInitial, Silence, NoCode
<1>1. Owed = <<>> /\ Len(Owed) = 0
  BY DEF Owed
<1>2. Sayable /\ OwesNoError
  BY <1>1 DEF Sayable, OwesNoError
<1>3. ErrorTold
  BY <1>2 DEF ErrorTold
<1>4. AtRest /\ ~DumpAsked
  BY DEF AtRest, DumpAsked
<1>5. Logging
  BY <1>4 DEF Logging
<1>6. Telling
  BY <1>1 DEF Telling, Awaiting, In, Heard
<1> QED
  BY <1>2, <1>3, <1>5, <1>6 DEF Speech

(* Every step keeps what is owed with what has been heard.                  *)
LEMMA NextSpeech == SpeechInv /\ [Next]_vars => Speech'
<1> SUFFICES ASSUME SpeechInv, [Next]_vars PROVE Speech'
  OBVIOUS
<1>1. CASE Tick
  <2>1. SessionInv /\ (Alive => Telling)
    BY DEF SpeechInv, Speech
  <2>2. PICK late : Moved(Sampled(late))
    BY <1>1, <2>1, TickMove
  <2>3. Alive' => Alive
    <3> DEFINE in == Sampled(late)
    <3>1. Moved(in)
      BY <2>2
    <3> HIDE DEF in
    <3> QED
      BY <1>1, <3>1
       DEF Tick, Alive, Moved, PreMoves, ReadyMoves, ProgMoves, ExecMoves, EndMoves, ResetMoves, FatalMoves, ErrorMoves
  <2>4. Alive' => Telling'
    BY <1>1, <2>2, <2>3, TellingElsewhere, TellingExecute
  <2> QED
    BY <1>1, <2>4, TickSayable, TickErrorTold, TickLogging DEF Speech
<1>2. CASE Restart
  <2>1. (ctl = InitialRegisters /\ link = LinkInitial /\ dump = DumpInitial /\ heard = Silence => Speech)'
    BY SpeechStarts, PTL
  <2>2. ctl' = InitialRegisters /\ link' = LinkInitial /\ dump' = DumpInitial /\ heard' = Silence
    BY <1>2 DEF Restart
  <2>3. (ctl = InitialRegisters /\ link = LinkInitial /\ dump = DumpInitial /\ heard = Silence)'
    BY <2>2 DEF InitialRegisters, LinkInitial, DumpInitial, Silence
  <2> QED
    BY <2>1, <2>3
<1>3. CASE SendInfo
  BY <1>3, SpeechSent
<1>4. CASE SendLog
  BY <1>4, SpeechLogged
<1>5. CASE DumpBegins \/ DumpEnds
  BY <1>5, SpeechDumped
<1>6. CASE UNCHANGED <<ctl, link, dump, heard>>
  <2>1. Owed' = Owed
    BY <1>6 DEF Owed
  <2>2. Sayable'
    BY <1>6, <2>1, SayableKept DEF SpeechInv, Speech
  <2>3. /\ (Alive' <=> Alive) /\ (AtRest' <=> AtRest) /\ (DumpAsked' <=> DumpAsked)
        /\ (OwesErrors' <=> OwesErrors) /\ (OwesNoError' <=> OwesNoError) /\ (Whole' <=> Whole)
        /\ Asks' = Asks /\ Heard' = Heard /\ (Awaiting' <=> Awaiting)
        /\ \A s, p : In(s, p)' <=> In(s, p)
    BY <1>6, <2>1 DEF Alive, AtRest, DumpAsked, OwesErrors, OwesNoError, Whole, Asks, Heard, Awaiting, In, Verdict
  <2>4. ErrorTold'
    BY <1>6, <2>3 DEF SpeechInv, Speech, ErrorTold
  <2>5. Logging'
    BY <1>6, <2>3 DEF SpeechInv, Speech, Logging
  <2>6. Alive => Telling'
    BY <1>6, <2>1, <2>3 DEF SpeechInv, Speech, Telling
  <2> QED
    BY <2>2, <2>3, <2>4, <2>5, <2>6 DEF Speech
<1> QED
  BY <1>1, <1>2, <1>3, <1>4, <1>5, <1>6, OtherStep
     DEF Next, Clock, vars, board, Between, Receiving, FrameLeaves, Operating, Computing, Answers, Faulting

(* In every session the codes on their way fit what the listener has heard. *)
THEOREM SpeechInvariant == Spec => []SpeechInv
<1>1. Init => SpeechInv
  BY InitSession, SpeechStarts DEF Init, SpeechInv
<1>2. SpeechInv /\ [Next]_vars => SpeechInv'
  BY NextSession, NextSpeech DEF SpeechInv
<1> QED
  BY <1>1, <1>2, PTL DEF Spec

(* The session implements the protocol of HostProtocol: whatever is lost,   *)
(* fails or is asked for, the status and log frames a listener hears (the   *)
(* phases of eh2_system_controller.sv:455-932) come in its order, every dump *)
(* is whole before the frame that closes it, and no status follows an error. *)
THEOREM FollowsProtocol == Spec => ImplementsHostProtocol
<1>1. Init => Protocol!Init
  BY DEF Init, Protocol!Init, Silence, Protocol!Silence, NoCode, Protocol!NoCode
<1>2. SpeechInv /\ [Next]_vars => [Protocol!Next]_heard
  <2> SUFFICES ASSUME SpeechInv, [Next]_vars PROVE [Protocol!Next]_heard
    OBVIOUS
  <2>1. CASE SendInfo
    <3>1. SessionInv /\ Sayable /\ Codes /\ Registers /\ Codes' /\ Registers'
      BY NextCodes, NextRegisters DEF SpeechInv, Speech, SessionInv
    <3>2. /\ ctl' = ctl /\ link.fifo # <<>> /\ link'.fifo = Tail(link.fifo)
          /\ heard' = Hear(heard, Head(link.fifo))
      BY <2>1 DEF SendInfo
    <3> QED
      BY <3>1, <3>2, Said
  <2>2. CASE SendLog
    BY <2>2, SpeechLogged
  <2>3. CASE Restart
    BY <2>3 DEF Restart, Protocol!Next, Protocol!Restart, Silence, Protocol!Silence, NoCode, Protocol!NoCode
  <2>4. CASE UNCHANGED heard
    BY <2>4
  <2> QED
    BY <2>1, <2>2, <2>3, <2>4, OtherStep
       DEF Next, Clock, Tick, vars, board, Between, Receiving, FrameLeaves, DumpBegins, DumpEnds,
           Operating, Computing, Answers, Faulting
<1> QED
  BY <1>1, <1>2, SpeechInvariant, PTL DEF Spec, ImplementsHostProtocol, Protocol!Spec
=============================================================================
