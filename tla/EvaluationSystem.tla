-------------------------- MODULE EvaluationSystem --------------------------
(* One evaluation session of the board: the controller together with what it *)
(* steers, as eh2logcomp_system_top.sv wires them, and the host that drives   *)
(* it.                                                                         *)
(*                                                                             *)
(* Tick is an edge of the 100 MHz controller clock.  What runs on another      *)
(* clock, or at its own pace, is an action of its own that happens between     *)
(* two edges; what crosses into the controller clock does so through the       *)
(* synchronisers, which Tick shifts.                                           *)
EXTENDS SystemController, ProgramReceiver

CONSTANTS
    ProgramFrames,   \* 1024-byte frames of the program image
    LogFrames,       \* Ethernet frames of one complete dump
    MacDepth,        \* frames the MAC buffers at most
    MaxLost,         \* frames the network may lose on their way to the board
    MaxRequests,     \* replays the host asks for
    May,             \* what may happen that need not
    BitSkew,         \* may two synchronised bits of one event part ways?
    Timely           \* is every timeout longer than the work it guards?

ASSUME SystemAssumption ==
    /\ ProgramFrames \in Nat \ {0} /\ LogFrames \in Nat \ {0}
    /\ MacDepth \in Nat \ {0} /\ Counts > 2 * MacDepth
    /\ MaxLost \in Nat /\ MaxRequests \in Nat
    /\ May \subseteq {"STATUS", "INSTR", "DATA", "ATG", "ZERO", "INIT", "OTHER",
                     "ACCESS", "OPERATOR"}
    /\ BitSkew \in BOOLEAN /\ Timely \in BOOLEAN

VARIABLES
    link,    \* the information path: code FIFO and returning acknowledgements
    mac,     \* frames handed to the MAC and frames that physically left
    ops,     \* bring-up, pattern generator, checkers and zero engine
    cores,   \* the two harts and their memory bus
    dump,    \* the log dump from DDR1
    alarm,   \* system_error_monitor
    host,    \* what the host has sent
    heard    \* what the host has heard, in its order (HostProtocol)

board == <<ctl, rx, link, mac, ops, cores, dump, alarm>>
vars == <<board, host, heard>>

InfoDepth == 16
Outcomes(fault) == {"PASS"} \cup (IF fault \in May THEN {"FAIL"} ELSE {})
Ended == {"PASS", "FAIL"}

LinkInitial == [fifo |-> <<>>, acks |-> <<>>]
MacInitial == [submitted |-> 0, completed |-> 0, sync |-> <<0, 0, 0>>]
OpsInitial == [ready |-> FALSE, atg |-> "IDLE", instr |-> "IDLE", data |-> "IDLE",
               zero |-> "IDLE", fresh |-> {}]
CoresInitial == [init |-> "IDLE", hart |-> [h \in Harts |-> "RESET"],
                 bus |-> FALSE, written |-> FALSE, idle |-> <<FALSE, FALSE>>]
DumpInitial == [starting |-> FALSE, running |-> FALSE, left |-> 0, done |-> FALSE,
                sync |-> <<FALSE, FALSE>>]
AlarmInitial == [other |-> FALSE, overflow |-> FALSE, pending |-> NoCode]
HostInitial == [test |-> FALSE, program |-> FALSE, requests |-> 0, replays |-> 0,
                lost |-> 0]

Init ==
    /\ ctl = InitialRegisters /\ rx = RxInitial /\ link = LinkInitial
    /\ mac = MacInitial /\ ops = OpsInitial /\ cores = CoresInitial
    /\ dump = DumpInitial /\ alarm = AlarmInitial /\ host = HostInitial
    /\ heard = Silence

(* ---------------------------- one clock edge ----------------------------- *)

(* A checker raises done and its verdict at one edge of its own clock.  Each   *)
(* bit has a synchroniser of its own, so at the first edge that sees one of    *)
(* them the other may still show its old value.                                *)
Seen(op, late) ==
    [done |-> ops[op] \in Ended /\ <<op, "done">> \notin late,
     fail |-> ops[op] # "PASS" \/ <<op, "pass">> \in late]
Skews ==
    SUBSET (IF BitSkew THEN (ops.fresh \cap {"instr", "data"}) \X {"done", "pass"}
            ELSE {})

Sampled(late) ==
    [initReady |-> ops.ready,
     firstWrite |-> rx.firstWrite, programEnd |-> rx.end, endTotal |-> rx.total,
     frameCount |-> rx.frames, dmaDoneCount |-> rx.doneCount, dmaBusy |-> DmaBusy,
     reset |-> rx.reset, retransmit |-> rx.retransmit,
     atgDone |-> ops.atg \in Ended, atgError |-> ops.atg = "FAIL",
     instrDone |-> Seen("instr", late).done, instrFail |-> Seen("instr", late).fail,
     dataDone |-> Seen("data", late).done, dataFail |-> Seen("data", late).fail,
     zeroDone |-> ops.zero \in Ended, zeroError |-> ops.zero = "FAIL",
     initDone |-> cores.init = "PASS", initError |-> cores.init = "FAIL",
     started |-> {h \in Harts : cores.hart[h] \in {"STARTED", "STOPPED"}},
     stopped |-> {h \in Harts : cores.hart[h] = "STOPPED"},
     axiIdle |-> cores.idle[2], writeDone |-> cores.written, dumpDone |-> dump.sync[2],
     fatal |-> alarm.pending # NoCode, fatalCode |-> alarm.pending,
     full |-> Len(link.fifo) = InfoDepth,
     frameDone |-> link.acks # <<>>,
     sentCode |-> IF link.acks = <<>> THEN NoCode ELSE Head(link.acks),
     completed |-> mac.completed, submitted |-> mac.sync[3]]

LinkEdge ==
    link' = [link EXCEPT
               !.fifo = IF ctl.push = NoCode \/ Len(@) = InfoDepth THEN @
                        ELSE Append(@, ctl.push),
               !.acks = IF @ = <<>> THEN @ ELSE Tail(@)]
MacEdge == mac' = [mac EXCEPT !.sync = <<mac.submitted, @[1], @[2]>>]
Launch(op, pulse) == IF pulse \in ctl.pulses THEN "RUN" ELSE ops[op]
OpsEdge ==
    ops' = [ops EXCEPT !.atg = Launch("atg", "atgStart"),
                       !.instr = Launch("instr", "checkStart"),
                       !.data = Launch("data", "checkStart"),
                       !.zero = Launch("zero", "zeroStart"),
                       !.fresh = {}]
CoresEdge == cores' = [cores EXCEPT !.idle = <<~cores.bus, @[1]>>]
DumpEdge ==
    dump' = [dump EXCEPT !.starting = @ \/ "dumpStart" \in ctl.pulses,
                         !.sync = <<dump.done, @[1]>>]

(* First error wins; of several at one edge, the first in the monitor's list.  *)
Errors ==
    {c \in ErrorCodes :
       \/ c = "ERR_OTHER" /\ alarm.other
       \/ c = "ERR_INFO_TX_FIFO" /\ alarm.overflow
       \/ c = "ERR_DDR_ZERO" /\ ops.zero = "FAIL"
       \/ c = "ERR_EH2_INIT" /\ cores.init = "FAIL"
       \/ c = "ERR_PROGRAM_SEQUENCE" /\ "SEQUENCE" \in rx.errors
       \/ c = "ERR_PROGRAM_WRITE" /\ "WRITE" \in rx.errors}
Rank == [ERR_OTHER |-> 0, ERR_INFO_TX_FIFO |-> 1, ERR_DDR_ZERO |-> 2,
         ERR_EH2_INIT |-> 3, ERR_PROGRAM_SEQUENCE |-> 4, ERR_PROGRAM_WRITE |-> 5]
AlarmEdge ==
    alarm' = [alarm EXCEPT
                !.overflow = ctl.push # NoCode /\ Len(link.fifo) = InfoDepth,
                !.pending = IF @ # NoCode \/ Errors = {} THEN @
                            ELSE CHOOSE c \in Errors :
                                    \A d \in Errors : Rank[c] <= Rank[d]]

(* When Timely, no engine dawdles for the 20 seconds of the program watchdog   *)
(* and no frame stays in the MAC for the 10 ms of the drain timeout: while    *)
(* either counts, an edge comes when nothing it guards can move.               *)
CanMove ==
    \/ link.fifo # <<>> \/ rx.dma = "MOVE"
    \/ DmaBusy /\ ~rx.wrote /\ ~rx.firstWrite
    \/ rx.dma = "STATUS" /\ rx.wrote /\ ~rx.done
    \/ Waiting({"PROGRAM"}) /\ (Ddr0Owner = "PROGRAM" => ~DmaBusy)
    \/ Waiting({"END", "RESET", "RETRANSMIT"}) /\ rx.dma # "MOVE" /\ ~rx.end /\ ~rx.reset
Unhurried ==
    Timely => /\ ctl.timing /\ ~ctl.progEndSeen => ~CanMove
              /\ ctl.targetValid => mac.completed = mac.submitted

Tick ==
    /\ "globalReset" \notin ctl.pulses
    /\ Unhurried
    /\ \E in \in {Sampled(late) : late \in Skews} : ControllerStep(in)
    /\ RxEdge("sessionClear" \in ctl.pulses)
    /\ LinkEdge /\ MacEdge /\ OpsEdge /\ CoresEdge /\ DumpEdge /\ AlarmEdge
    /\ UNCHANGED <<host, heard>>

(* The supervisor resets the whole board; the next session starts from nothing.*)
Restart ==
    /\ "globalReset" \in ctl.pulses
    /\ ctl' = InitialRegisters /\ rx' = RxInitial /\ link' = LinkInitial
    /\ mac' = MacInitial /\ ops' = OpsInitial /\ cores' = CoresInitial
    /\ dump' = DumpInitial /\ alarm' = AlarmInitial /\ host' = HostInitial
    /\ heard' = Silence

(* --------------------------- between the edges --------------------------- *)

(* The receive side takes one step; only the program's owner lets its frames   *)
(* through.                                                                    *)
Open == Ddr0Owner = "PROGRAM"
Elsewhere == UNCHANGED <<ctl, link, mac, ops, cores, dump, alarm, host, heard>>
ReceiveFrame == (SwallowProgram(Open) \/ TakeProgram(Open) \/ TakeControl) /\ Elsewhere
WriteBegins == AcceptWrite /\ Elsewhere
PayloadMoved == MovePayload /\ Elsewhere
WriteEnds == (\E r \in Outcomes("STATUS") : TakeStatus(r = "PASS")) /\ Elsewhere

(* A frame is handed to the MAC; once its last byte has gone, an information   *)
(* frame is acknowledged to the controller.                                    *)
Submit ==
    /\ (mac.submitted - mac.completed) % Counts < MacDepth
    /\ mac' = [mac EXCEPT !.submitted = (@ + 1) % Counts]

SendInfo ==
    LET code == Head(link.fifo)
    IN  /\ link.fifo # <<>> /\ Submit
        /\ link' = [fifo |-> Tail(link.fifo), acks |-> Append(link.acks, code)]
        /\ heard' = Hear(heard, code)
        /\ host' = IF code = "RETRANSMIT_BEGIN" /\ host.replays <= MaxRequests
                   THEN [host EXCEPT !.replays = @ + 1] ELSE host
        /\ UNCHANGED <<ctl, rx, ops, cores, dump, alarm>>

FrameLeaves ==
    /\ mac.completed # mac.submitted
    /\ mac' = [mac EXCEPT !.completed = (@ + 1) % Counts]
    /\ UNCHANGED <<ctl, rx, link, ops, cores, dump, alarm, host, heard>>

(* The dump subsystem (module InfoLogDump) seen from here: its completion      *)
(* level falls when the start arrives and rises after its last frame.  A dump  *)
(* sends at least the two frames that close the harts' logs, which takes       *)
(* longer than the level needs to cross.                                       *)
DumpBegins ==
    /\ dump.starting
    /\ dump' = [dump EXCEPT !.starting = FALSE, !.running = TRUE,
                            !.left = LogFrames, !.done = FALSE]
    /\ UNCHANGED <<ctl, rx, link, mac, ops, cores, alarm, host, heard>>

SendLog ==
    /\ dump.running /\ dump.left > 0 /\ Submit
    /\ dump' = [dump EXCEPT !.left = @ - 1]
    /\ heard' = Hear(heard, "LOG")
    /\ UNCHANGED <<ctl, rx, link, ops, cores, alarm, host>>

DumpEnds ==
    /\ dump.running /\ dump.left = 0 /\ dump.sync = <<FALSE, FALSE>>
    /\ dump' = [dump EXCEPT !.running = FALSE, !.done = TRUE]
    /\ UNCHANGED <<ctl, rx, link, mac, ops, cores, alarm, host, heard>>

(* Clocks, PHY, link and memory controllers are up.                            *)
BringUp ==
    /\ ~ops.ready
    /\ ops' = [ops EXCEPT !.ready = TRUE]
    /\ UNCHANGED <<ctl, rx, link, mac, cores, dump, alarm, host, heard>>

(* The pattern generator, a checker or the zero engine ends.                   *)
FaultOf == [atg |-> "ATG", instr |-> "INSTR", data |-> "DATA", zero |-> "ZERO"]
FinishOp(op) ==
    /\ ops[op] = "RUN"
    /\ \E r \in Outcomes(FaultOf[op]) :
          ops' = [ops EXCEPT ![op] = r, !.fresh = @ \cup {op}]
    /\ UNCHANGED <<ctl, rx, link, mac, cores, dump, alarm, host, heard>>

CoreStep(c) ==
    /\ ctl.execute
    /\ cores' = c
    /\ UNCHANGED <<ctl, rx, link, mac, ops, dump, alarm, host, heard>>

InitCores ==
    /\ cores.init = "IDLE"
    /\ \E r \in Outcomes("INIT") : CoreStep([cores EXCEPT !.init = r])
StartHart(h) ==
    /\ cores.init = "PASS" /\ cores.hart[h] = "RESET"
    /\ CoreStep([cores EXCEPT !.hart[h] = "STARTED"])
Access ==
    /\ "ACCESS" \in May /\ ~cores.bus /\ \E h \in Harts : cores.hart[h] = "STARTED"
    /\ CoreStep([cores EXCEPT !.bus = TRUE])
(* A hart stops by a store to the marker address, which is then under way.     *)
StopHart(h) ==
    /\ cores.hart[h] = "STARTED"
    /\ CoreStep([cores EXCEPT !.hart[h] = "STOPPED", !.bus = TRUE])
AccessEnds == cores.bus /\ CoreStep([cores EXCEPT !.bus = FALSE])
(* The last record of either hart is in DDR1.                                  *)
InfoWritten ==
    /\ ~cores.written /\ \A h \in Harts : cores.hart[h] = "STOPPED"
    /\ CoreStep([cores EXCEPT !.written = TRUE])

OtherFault ==
    /\ "OTHER" \in May /\ ~alarm.other
    /\ alarm' = [alarm EXCEPT !.other = TRUE]
    /\ UNCHANGED <<ctl, rx, link, mac, ops, cores, dump, host, heard>>

(* -------------------------------- the host ------------------------------- *)

(* The host answers what it hears.  Its answer takes a network round trip, and *)
(* the board's own acknowledgement a few cycles: it is always there first.     *)
Answering == link.acks = <<>> /\ heard.error = NoCode

(* Up to MaxLost of the frames do not arrive; the others keep their order.     *)
Thinnings(n, all) == {pick \in [1 .. n -> 1 .. all] :
                        \A i, j \in 1 .. n : i < j => pick[i] < pick[j]}
Deliver(frames) ==
    \E n \in 0 .. Len(frames) : \E pick \in Thinnings(n, Len(frames)) :
        /\ host.lost + Len(frames) - n <= MaxLost
        /\ rx' = [rx EXCEPT !.inbox = @ \o [i \in 1 .. n |-> frames[pick[i]]]]
        /\ host' = [host EXCEPT !.lost = @ + Len(frames) - n,
                                !.test = TRUE, !.program = heard.last = "READY"]
        /\ UNCHANGED <<ctl, link, mac, ops, cores, dump, alarm, heard>>

SendTest ==
    /\ Answering /\ heard.last = "PREINIT_DONE" /\ ~host.test
    /\ Deliver(<<Test(0), End(1)>>)
SendProgram ==
    /\ Answering /\ heard.last = "READY" /\ ~host.program
    /\ Deliver([i \in 1 .. ProgramFrames + 1 |->
                  IF i <= ProgramFrames THEN Program(i - 1) ELSE End(ProgramFrames)])

Command(kind) ==
    /\ ~\E i \in DOMAIN rx.inbox : rx.inbox[i] = Control(kind)
    /\ rx' = [rx EXCEPT !.inbox = Append(@, Control(kind))]
    /\ UNCHANGED <<ctl, link, mac, ops, cores, dump, alarm, heard>>

LogComplete == /\ heard.last \in {"EXE_END", "RETRANSMIT_BEGIN"}
               /\ heard.logs = LogFrames
RequestReplay ==
    /\ Answering /\ LogComplete /\ host.requests < MaxRequests
    /\ host' = [host EXCEPT !.requests = @ + 1]
    /\ Command("RETRANSMIT")
RequestReset ==
    /\ LogComplete \/ heard.error # NoCode \/ "OPERATOR" \in May
    /\ Command("RESET") /\ UNCHANGED host

(* ------------------------------------------------------------------------- *)

Receive == ReceiveFrame \/ WriteBegins \/ PayloadMoved \/ WriteEnds
Transmit == SendInfo \/ FrameLeaves \/ DumpBegins \/ SendLog \/ DumpEnds
Operate == BringUp \/ \E op \in DOMAIN FaultOf : FinishOp(op)
Compute == \/ InitCores \/ InfoWritten
           \/ \E h \in Harts : StartHart(h) \/ StopHart(h)

(* What somebody is bound to do in the end.                                    *)
Work == Receive \/ Transmit \/ Operate \/ Compute \/ SendTest \/ SendProgram
(* What may happen or not, as often as it likes; an access under way ends.     *)
Option == Access \/ AccessEnds \/ OtherFault \/ RequestReplay \/ RequestReset
Clock == Tick \/ Restart

Next == Clock \/ Work \/ Option

Spec == Init /\ [][Next]_vars

(* The clock runs; as long as there is work, some of it gets done: engines     *)
(* end, the MAC sends, the program stops both harts, the host does its part.   *)
(* Nobody has to start an access, fail, ask for a replay or for a reset.          *)
Fairness == WF_vars(Clock) /\ WF_vars(Work) /\ WF_vars(AccessEnds)
FairSpec == Spec /\ Fairness
=============================================================================
