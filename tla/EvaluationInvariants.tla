------------------------ MODULE EvaluationInvariants ------------------------
(* What holds between the controller and the rest of the board in every      *)
(* state of a session: the parts of the inductive invariants of              *)
(* EvaluationProofs.  Most of it is promised only while the session is alive.*)
EXTENDS EvaluationProperties

(* In ERROR, and once a reset of the board is on its way, nothing leads back.*)
Alive == ctl.state # "ERROR" /\ "globalReset" \notin ctl.pulses

In(state, phases) == ctl.state = state /\ ctl.phase \in phases

(* ------------------------- registers and records ------------------------- *)

Fields == DOMAIN InitialRegisters
Shapes ==
    /\ DOMAIN ctl = Fields /\ DOMAIN rx = DOMAIN RxInitial
    /\ DOMAIN link = DOMAIN LinkInitial /\ DOMAIN mac = DOMAIN MacInitial
    /\ DOMAIN ops = DOMAIN OpsInitial /\ DOMAIN cores = DOMAIN CoresInitial
    /\ DOMAIN dump = DOMAIN DumpInitial /\ DOMAIN alarm = DOMAIN AlarmInitial
    /\ DOMAIN host = DOMAIN HostInitial /\ DOMAIN heard = DOMAIN Silence

StatusCodes ==
    HartStatuses \cup ErrorCodes \cup
    {"PREINIT_DONE", "PROGRAM_START", "RECEIVE_DONE", "CHECK_PASS", "INSTR_FAIL",
     "DATA_FAIL", "READY", "PROGRAM_DONE", "EH2_DONE", "EXE_END", "RETRANSMIT_BEGIN"}
Registers ==
    /\ ctl.state \in States
    /\ ctl.pulses \subseteq Pulses /\ ctl.push \in StatusCodes \cup {NoCode}
    /\ ctl.counter \in Nat
    /\ ctl.fail \subseteq {"INSTR", "DATA"}
    /\ ctl.pending \subseteq HartStatuses /\ ctl.sent \subseteq HartStatuses
    /\ ctl.captured \in ErrorCodes \cup {NoCode, "INSTR_FAIL", "DATA_FAIL"}
    /\ ctl.state = "ERROR" => ctl.captured # NoCode
    /\ alarm.pending \in ErrorCodes \cup {NoCode}
    /\ LegalPhase
Codes ==
    /\ link.fifo \in Seq(StatusCodes) /\ link.acks \in Seq(StatusCodes)
    /\ Len(link.fifo) <= InfoDepth
Traffic ==
    /\ mac.submitted \in 0 .. Counts - 1 /\ mac.completed \in 0 .. Counts - 1
    /\ (mac.submitted - mac.completed) % Counts <= MacDepth

(* ---------------- engines, by the phase that steers them ----------------- *)

(* Each engine is idle until its phase asks for it, by one pulse, and has    *)
(* ended when that phase is left.                                            *)
Engines ==
    /\ ops.atg \in {"IDLE", "RUN", "PASS", "FAIL"}
    /\ ops.instr \in {"IDLE", "RUN", "PASS", "FAIL"}
    /\ ops.data \in {"IDLE", "RUN", "PASS", "FAIL"}
    /\ ops.zero \in {"IDLE", "RUN", "PASS", "FAIL"}
    /\ ctl.state = "PRECONFIG" =>
          /\ ctl.phase \in {0, 1} => ops.atg = "IDLE"
          /\ Checking => ops.atg \in Ended
          /\ ~Checking => ops.instr = "IDLE" /\ ops.data = "IDLE"
          /\ ctl.phase \in {4, 5} => ops.instr \in Ended /\ ops.data \in Ended
          /\ ops.zero = "IDLE"
    /\ ctl.state \notin {"PRECONFIG", "ERROR"} =>
          ops.atg \in Ended /\ ops.instr \in Ended /\ ops.data \in Ended
    /\ In("READY", {0}) => ops.zero = "IDLE"
    /\ ctl.state = "READY" => ctl.phase \in {0, 1} \/ ops.zero \in Ended
    /\ ctl.state \in {"PROGRAM_WRITE", "EXECUTE", "END"} => ops.zero \in Ended

Asked ==
    /\ "atgStart" \in ctl.pulses => In("PRECONFIG", {2}) /\ ops.atg = "IDLE"
    /\ "checkStart" \in ctl.pulses =>
          In("PRECONFIG", {3}) /\ ops.instr = "IDLE" /\ ops.data = "IDLE"
    /\ "zeroStart" \in ctl.pulses => In("READY", {1}) /\ ops.zero = "IDLE"
    /\ "sessionClear" \in ctl.pulses => In("READY", {2})
    /\ "globalReset" \in ctl.pulses => ~ctl.execute

(* No verdict against the memories means that both have passed: a pass bit   *)
(* may be seen late, but never when there is none.                           *)
GoodMemories == ops.instr = "PASS" /\ ops.data = "PASS"
Verdicts ==
    /\ ctl.push = "CHECK_PASS" => In("PRECONFIG", {5}) /\ ctl.fail = {}
    /\ In("PRECONFIG", {4, 5}) /\ ctl.fail = {} => GoodMemories
    /\ ctl.state \notin {"PRECONFIG", "ERROR"} => GoodMemories

(* -------------------------- the cores' last store ------------------------ *)

(* While the guard counts, all harts have stopped, so the bus only falls     *)
(* idle, and its level has travelled through the synchroniser.               *)
AllStopped == \A h \in Harts : cores.hart[h] = "STOPPED"
Landing ==
    /\ cores.hart \in [Harts -> {"RESET", "STARTED", "STOPPED"}]
    /\ cores.bus \in BOOLEAN /\ cores.written \in BOOLEAN
    /\ cores.idle \in BOOLEAN \X BOOLEAN
    /\ cores.bus \/ (\E h \in Harts : cores.hart[h] # "RESET") =>
          ctl.state \in {"EXECUTE", "END", "ERROR"}
    /\ In("EXECUTE", {1}) => ctl.counter = 0
    /\ In("EXECUTE", {2}) =>
          /\ ctl.counter > 0 => AllStopped /\ cores.written /\ (cores.idle[1] => ~cores.bus)
          /\ ctl.counter > 1 => (cores.idle[2] => ~cores.bus)
    /\ ctl.state = "END" => AllStopped /\ cores.written /\ ~cores.bus

(* -------------------------- the program's frames ------------------------- *)

DataFrame(f) == f.kind \in {"PROGRAM", "END"}
Frames == [kind : {"PROGRAM", "END", "RESET", "RETRANSMIT"},
           image : {"TEST", "PROGRAM", "NONE"}, number : Nat]
Dataless(s) == \A i \in 1 .. Len(s) : ~DataFrame(s[i])
Ordered(s) ==
    /\ s \in Seq(Frames)
    /\ \A i \in 1 .. Len(s) :
          /\ s[i].kind = "PROGRAM" => s[i].number < ProgramFrames
          /\ s[i].kind = "END" => \A j \in i + 1 .. Len(s) : ~DataFrame(s[j])
NoData == Dataless(rx.inbox)

(* The receive side, whatever the controller does: the end frame comes last, *)
(* and of the frames that were taken each is moved, stored and counted once. *)
(* The host sends a program when READY has been announced, and only once.    *)
Pending == (IF rx.done THEN 1 ELSE 0) + (IF rx.dma = "STATUS" THEN 1 ELSE 0)
Announced == \/ ctl.push = "READY" \/ heard.last = "READY"
             \/ \E i \in 1 .. Len(link.fifo) : link.fifo[i] = "READY"
Counting ==
    /\ rx.frame \in Frames \cup {NoFrame}
    /\ rx.dma \in {"IDLE", "MOVE", "STATUS"}
    /\ rx.frames \in Nat /\ rx.doneCount \in Nat /\ rx.total \in Nat
    /\ rx.done \in BOOLEAN /\ rx.end \in BOOLEAN /\ rx.firstWrite \in BOOLEAN
    /\ rx.ddr0 \in Seq({"TEST", "PROGRAM", "NONE"})
    /\ DmaBusy => rx.frame.number < ProgramFrames
    /\ rx.dma = "MOVE" => rx.frame.number = rx.frames
    /\ rx.dma = "STATUS" => rx.frame.number + 1 = rx.frames
    /\ rx.frames <= ProgramFrames
    /\ rx.doneCount + Pending = rx.frames \/ "WRITE" \in rx.errors
    /\ rx.doneCount <= rx.frames
Received ==
    /\ Ordered(rx.inbox) /\ Counting
    /\ rx.end => NoData
    /\ ~host.test => NoData /\ ~rx.end
    /\ Announced => host.test /\ (host.program \/ (NoData /\ ~rx.end))

(* Nothing of the test is left when it has been checked; nothing of the      *)
(* program has arrived before it was asked for; its end frame closes it.     *)
Resting == rx.dma = "IDLE" /\ ~rx.firstWrite /\ ~rx.done
Untouched == Resting /\ NoData /\ ~rx.end /\ ~ctl.startSeen
Checked == ctl.state = "READY" \/ In("PRECONFIG", {3, 4, 5})
Arrivals ==
    /\ Checked => Resting
    /\ Alive /\ ~host.test => In("PRECONFIG", {0, 1, 2}) /\ Untouched /\ ~ctl.preEndSeen
    /\ ~host.test => ~host.program
    /\ Alive /\ ctl.state = "PRECONFIG" =>
          /\ ctl.preEndSeen => NoData
          /\ ctl.phase \in {3, 4, 5, 8, 9} => NoData /\ ~rx.end
    /\ Alive /\ ctl.state = "READY" =>
          /\ NoData /\ ~rx.end
          /\ ctl.phase \in {2, 3, 4} =>
                "sessionClear" \in ctl.pulses \/ (rx.frames = 0 /\ rx.doneCount = 0)
    /\ Alive /\ ctl.state \in {"PRECONFIG", "READY"} => ~host.program
    /\ Alive /\ ~host.program =>
          \/ ctl.state \in {"PRECONFIG", "READY"}
          \/ In("PROGRAM_WRITE", {0}) /\ Untouched /\ ~ctl.progEndSeen
             /\ rx.frames = 0 /\ rx.doneCount = 0

(* While the program is written, what is counted is stored and the count     *)
(* declared is the program's.                                                *)
Counted == rx.doneCount + (IF rx.done /\ "WRITE" \notin rx.errors THEN 1 ELSE 0)
Stocked == \A i \in 1 .. Counted : i <= Len(rx.ddr0) /\ rx.ddr0[i] = "PROGRAM"
Written == rx.doneCount = ProgramFrames /\ rx.dma = "IDLE" /\ NoData /\ ~rx.end
Stores ==
    /\ Alive /\ ctl.state = "PROGRAM_WRITE" =>
          /\ \A i \in 1 .. Len(rx.inbox) :
                /\ rx.inbox[i].kind = "PROGRAM" => rx.inbox[i].image = "PROGRAM"
                /\ rx.inbox[i].kind = "END" => rx.inbox[i].number = ProgramFrames
          /\ DmaBusy => rx.frame.image = "PROGRAM"
          /\ rx.end => rx.total = ProgramFrames
          /\ ctl.progEndSeen => ctl.progEnd.total = ProgramFrames /\ NoData /\ ~rx.end
          /\ ctl.phase \in {1, 4, 5} => ctl.progEndSeen
          /\ ctl.phase = 1 => Written
          /\ Stocked
    /\ Alive /\ ctl.state \in {"EXECUTE", "END"} => Written /\ Stocked

(* The cores never meet a write of the program under way.                    *)
Closed == ctl.state \in {"EXECUTE", "END"} => rx.dma = "IDLE"

(* ------------------------ the path of status codes ----------------------- *)

(* Outside EXECUTE a code is queued only when the one before it has been     *)
(* acknowledged, so there is one on the path or none.                        *)
PathEmpty == ctl.push = NoCode /\ link.fifo = <<>> /\ link.acks = <<>>
OnPath(code) ==
    \/ ctl.push = code /\ link.fifo = <<>> /\ link.acks = <<>>
    \/ ctl.push = NoCode /\ link.fifo = <<code>> /\ link.acks = <<>>
    \/ ctl.push = NoCode /\ link.fifo = <<>> /\ link.acks = <<code>>
Awaiting ==
    \/ In("PRECONFIG", {1, 5, 6, 8}) \/ In("READY", {4})
    \/ In("PROGRAM_WRITE", {1, 2, 4}) \/ In("END", {1, 3, 6})

(* The codes of the harts are queued once each, in EXECUTE, and are on the   *)
(* path until they have been confirmed.                                      *)
Distinct(s) == \A i, j \in 1 .. Len(s) : s[i] = s[j] => i = j
Unconfirmed == ctl.queued \ ctl.sent
HartCodes ==
    /\ ctl.pending \subseteq HartStatuses /\ ctl.queued \subseteq HartStatuses
    /\ ctl.pending \cap ctl.queued = {} /\ ctl.sent \subseteq ctl.queued
    /\ ctl.push # NoCode => ctl.push \in Unconfirmed
    /\ link.fifo \in Seq(Unconfirmed) /\ Distinct(link.fifo)
    /\ link.acks \in Seq(Unconfirmed) /\ Distinct(link.acks)
    /\ \A i \in 1 .. Len(link.fifo) : /\ link.fifo[i] # ctl.push
                                      /\ \A j \in 1 .. Len(link.acks) : link.fifo[i] # link.acks[j]
    /\ \A j \in 1 .. Len(link.acks) : link.acks[j] # ctl.push

Path ==
    /\ Alive => (ctl.waiting <=> Awaiting) /\ (ctl.waiting => ctl.expected # NoCode)
    /\ Alive /\ ctl.state # "EXECUTE" =>
          IF ctl.waiting THEN OnPath(ctl.expected) ELSE PathEmpty
    /\ Alive /\ ctl.state = "EXECUTE" => HartCodes
    /\ Alive /\ ctl.state = "PRECONFIG" => heard.last # "READY" /\ ctl.expected # "READY"
    /\ Alive /\ ctl.state = "READY" =>
          /\ ctl.phase = 4 => ctl.expected = "READY"
          /\ heard.last = "READY" => ctl.phase = 4 /\ link.acks # <<>>

(* ------------------------- the dump and the barrier ---------------------- *)

DumpAsked == "dumpStart" \in ctl.pulses \/ dump.starting
AtRest == ~DumpAsked /\ ~dump.running
Low == <<FALSE, FALSE>>
High == <<TRUE, TRUE>>
Rising == <<TRUE, FALSE>>
Falling == <<FALSE, TRUE>>
Dumps ==
    /\ dump.done \in BOOLEAN
    /\ Alive => ~("dumpStart" \in ctl.pulses /\ dump.starting)
    /\ Alive /\ (ctl.state # "END" \/ In("END", {0, 1})) => AtRest /\ ~dump.done /\ dump.sync = Low
    /\ Alive /\ In("END", {4}) =>
          \/ DumpAsked /\ ~dump.running /\ ~dump.done /\ dump.sync = Low
          \/ ~DumpAsked /\ dump.running /\ ~dump.done /\ dump.sync = Low
          \/ AtRest /\ dump.done /\ dump.sync \in {Low, Rising, High}
    /\ Alive /\ In("END", {2, 3, 5, 6}) => AtRest /\ dump.done /\ dump.sync = High
    /\ Alive /\ In("END", {7}) =>
          \/ DumpAsked /\ ~dump.running /\ dump.done /\ dump.sync = High
          \/ /\ ~DumpAsked /\ dump.running /\ ~dump.done
             /\ dump.sync \in {Low, Falling, High}
          \/ AtRest /\ dump.done /\ dump.sync = Low
    /\ Alive /\ In("END", {8}) =>
          \/ ~DumpAsked /\ dump.running /\ ~dump.done /\ dump.sync = Low
          \/ AtRest /\ dump.done /\ dump.sync \in {Low, Rising, High}

(* While the barrier is prepared nobody submits a frame, so the settled count *)
(* is the count.                                                              *)
Barrier ==
    /\ Alive /\ In("END", {5}) =>
          /\ mac.sync[1] = mac.submitted
          /\ ctl.counter > 0 => mac.sync[2] = mac.submitted
          /\ ctl.counter > 1 => mac.sync[3] = mac.submitted
          /\ ctl.targetValid => ctl.target = mac.submitted /\ ctl.counter = 0
    /\ Alive /\ In("END", {6, 7, 8}) => ~ctl.targetValid /\ ctl.counter = 0
    /\ ctl.push = "RETRANSMIT_BEGIN" =>
          Alive /\ In("END", {6}) /\ mac.completed = mac.submitted

(* ------------------------- what the listener hears ----------------------- *)

(* The codes that will be sent, in their order.                              *)
Owed == IF ctl.push = NoCode THEN link.fifo ELSE Append(link.fifo, ctl.push)
OwesErrors == \A i \in 1 .. Len(Owed) : Owed[i] \in ErrorCodes
OwesNoError == heard.error = NoCode /\ \A i \in 1 .. Len(Owed) : Owed[i] \notin ErrorCodes

(* Each is one the protocol allows when its turn comes: at most one milestone,*)
(* or codes of the harts, and an error last.                                 *)
HartOwed(i) ==
    /\ Owed[i] \in HartStatuses \ heard.harts /\ heard.last = "PROGRAM_DONE"
    /\ \A j \in 1 .. Len(Owed) : Owed[j] = Owed[i] => j = i
    /\ \/ StartOf[Owed[i]] \in heard.harts
       \/ \E j \in 1 .. i : Owed[j] = StartOf[Owed[i]]
Sayable ==
    /\ Owed # <<>> => heard.error = NoCode
    /\ \A i \in 1 .. Len(Owed) :
          \/ Owed[i] \in ErrorCodes /\ i = Len(Owed)
          \/ HartOwed(i)
          \/ /\ i = 1 /\ Owed[1] \in Protocol!Milestones
             /\ \A j \in 2 .. Len(Owed) : Owed[j] \in ErrorCodes

(* The error is sent once.                                                   *)
ErrorTold ==
    /\ Alive => OwesNoError
    /\ ctl.state = "ERROR" =>
          /\ ctl.phase = 0 /\ ~ctl.errorSent => OwesNoError
          /\ ctl.captured \in ErrorCodes \/ ctl.errorSent

(* A dump that was asked for is told apart from the one before.              *)
Logging ==
    /\ heard.logs \in Nat
    /\ DumpAsked => ~dump.running /\ heard.logs = 0
    /\ "dumpStart" \in ctl.pulses => Alive /\ ~dump.starting
    /\ dump.running => dump.left \in Nat /\ heard.logs + dump.left = LogFrames
    /\ ~AtRest => heard.last \in {"EH2_DONE", "RETRANSMIT_BEGIN"} /\ OwesErrors

(* The code each phase waits for, and what has been heard when none is owed. *)
Asks ==
    CASE In("PRECONFIG", {1}) -> "PREINIT_DONE"
      [] In("PRECONFIG", {6}) \/ In("PROGRAM_WRITE", {2}) -> "PROGRAM_START"
      [] In("PRECONFIG", {8}) \/ In("PROGRAM_WRITE", {4}) -> "RECEIVE_DONE"
      [] In("PRECONFIG", {5}) -> Verdict
      [] In("READY", {4}) -> "READY"
      [] In("PROGRAM_WRITE", {1}) -> "PROGRAM_DONE"
      [] In("END", {1}) -> "EH2_DONE"
      [] In("END", {3}) -> "EXE_END"
      [] In("END", {6}) -> "RETRANSMIT_BEGIN"
      [] OTHER -> NoCode
Heard ==
    CASE In("PRECONFIG", {0}) -> {NoCode}
      [] In("PRECONFIG", {2}) -> {"PREINIT_DONE"}
      [] In("PRECONFIG", {7}) \/ In("PROGRAM_WRITE", {3}) -> {"PROGRAM_START"}
      [] In("PRECONFIG", {3, 9}) \/ In("PROGRAM_WRITE", {5}) -> {"RECEIVE_DONE"}
      [] In("PRECONFIG", {4}) ->
            {"RECEIVE_DONE"} \cup (IF ctl.fail = {"INSTR"} THEN {"DATA_FAIL"} ELSE {})
      [] In("READY", {0, 1, 2, 3}) -> {"CHECK_PASS"}
      [] In("PROGRAM_WRITE", {0}) -> {"READY"}
      [] ctl.state = "EXECUTE" \/ In("END", {0}) -> {"PROGRAM_DONE"}
      [] In("END", {2, 4}) -> {"EH2_DONE"}
      [] In("END", {5}) -> {"EXE_END", "RETRANSMIT_BEGIN"}
      [] In("END", {7, 8}) -> {"RETRANSMIT_BEGIN"}
      [] OTHER -> {Asks}
Whole == heard.logs = LogFrames
Telling ==
    /\ Awaiting => ctl.expected = Asks
    /\ Owed = <<>> \/ ctl.state = "EXECUTE" => heard.last \in Heard
    /\ ctl.state = "PRECONFIG" => ~heard.ready
    /\ ctl.state \in {"PROGRAM_WRITE", "EXECUTE", "END"} \/ heard.last = "READY" => heard.ready
    /\ ctl.state \in {"PRECONFIG", "READY", "PROGRAM_WRITE"} => heard.harts = {}
    /\ ctl.state = "EXECUTE" =>
          /\ ctl.queued = heard.harts \cup {Owed[i] : i \in 1 .. Len(Owed)}
          /\ ctl.sent \subseteq heard.harts
          /\ \A i \in 1 .. Len(link.acks) : link.acks[i] \in heard.harts
          /\ \A s \in ctl.pending \cup ctl.queued : StartOf[s] \in ctl.pending \cup ctl.queued
          /\ \A s \in ctl.queued : StartOf[s] \in ctl.queued
    /\ ctl.state = "END" => heard.harts = HartStatuses
    /\ ctl.state # "END" \/ In("END", {0, 1}) => heard.logs = 0
    /\ In("END", {2, 3, 5}) \/ (In("END", {4, 7, 8}) /\ AtRest) => Whole
    /\ In("END", {6}) => IF Owed = <<>> THEN heard.logs = 0 ELSE Whole

Speech == Sayable /\ ErrorTold /\ Logging /\ (Alive => Telling)

=============================================================================
