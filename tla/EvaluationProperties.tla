------------------------ MODULE EvaluationProperties ------------------------
(* What makes a session correct.                                             *)
EXTENDS EvaluationSystem

(* The controller is in a phase its code has a branch for, and every counter *)
(* is in its range.                                                          *)
TypeOK ==
    /\ LegalPhase
    /\ ctl.pending \subseteq HartStatuses /\ ctl.sent \subseteq HartStatuses
    /\ ctl.pulses \subseteq Pulses
    /\ rx.dma \in {"IDLE", "MOVE", "STATUS"}
    /\ rx.doneCount <= rx.frames /\ rx.frames <= ProgramFrames
    /\ Len(link.fifo) <= InfoDepth
    /\ mac.submitted \in 0 .. Counts - 1 /\ mac.completed \in 0 .. Counts - 1
    /\ alarm.pending \in ErrorCodes \cup {NoCode}

(* The controller switches the memories by a level; nothing in the           *)
(* multiplexers waits for transactions under way.  So a memory changes hands *)
(* only when the master that has it is done, except in ERROR, where a reset  *)
(* is the only way on.                                                       *)
MemoryHandover ==
    ctl.state # "ERROR" =>
        /\ DmaBusy => Ddr0Owner = "PROGRAM"
        /\ ops.instr = "RUN" => Ddr0Owner = "CHECKER"
        /\ ops.zero = "RUN" => Ddr0Owner = "ZERO"
        /\ cores.bus => Ddr0Owner = "EH2"
        /\ ops.atg = "RUN" => Ddr1Owner = "ATG"
        /\ ops.data = "RUN" => Ddr1Owner = "CHECKER"
        /\ dump.running => Ddr1Owner = "INFO_READ"
        /\ (\E h \in Harts : cores.hart[h] # "RESET") /\ ~cores.written =>
              Ddr1Owner = "INFO_WRITE"

(* The cores run only on the complete image: every frame the host sent is in *)
(* DDR0, none is left over from the receive test, whatever the network lost. *)
ExecutesWholeProgram ==
    ctl.execute =>
        /\ Len(rx.ddr0) >= ProgramFrames
        /\ \A i \in 1 .. ProgramFrames : rx.ddr0[i] = "PROGRAM"

(* The cores are put back into reset only after the store that stopped the   *)
(* last hart has landed, although its stop is seen as soon as it is issued.  *)
StoresLanded == ctl.state = "END" => ~cores.bus

(* A replay is announced only when every frame submitted before it has left  *)
(* the board: the announcement separates the old frames from the new ones.   *)
BarrierHolds ==
    ctl.push = "RETRANSMIT_BEGIN" => mac.completed = mac.submitted

(* Out of reset the cores own the program memory, and the log memory takes   *)
(* their records; for the one edge after the end, when it is handed to the   *)
(* dump, no dump has been asked for.                                         *)
Dumping == "dumpStart" \in ctl.pulses \/ dump.starting \/ dump.running
CoresOwnMemory ==
    ctl.execute =>
        /\ Ddr0Owner = "EH2"
        /\ Ddr1Owner = "INFO_WRITE" \/ (Ddr1Owner = "INFO_READ" /\ ~Dumping)

(* The first error is the one that is reported: once in ERROR the controller *)
(* keeps the code it captured and stays until the board is reset.            *)
FirstErrorKept ==
    [][ctl.state = "ERROR" =>
         \/ ctl'.state = "ERROR" /\ ctl'.captured = ctl.captured
         \/ ctl' = InitialRegisters]_vars

(* The status frames and log frames a listener hears follow the protocol.    *)
Protocol == INSTANCE HostProtocol
ImplementsHostProtocol == Protocol!Spec

(* Whoever listens learns of a failure.                                      *)
Told == heard.error # NoCode \/ heard.last \in {"DATA_FAIL", "INSTR_FAIL"}

(* Where a lost frame leaves the controller waiting with no timer running:   *)
(* for the test frame, for its end frame, and for the first program frame    *)
(* when none of them arrived.                                                *)
Stalled ==
    /\ host.lost > 0 /\ rx.inbox = <<>> /\ rx.dma = "IDLE"
    /\ ~rx.firstWrite /\ ~rx.end
    /\ \/ ctl.state = "PRECONFIG" /\ ctl.phase = 2 /\ ~ctl.startSeen
       \/ ctl.state = "PRECONFIG" /\ ctl.phase = 7 /\ ~ctl.preEndSeen
       \/ /\ ctl.state = "PROGRAM_WRITE" /\ ctl.phase = 0 /\ ~ctl.startSeen
          /\ host.program

(* A session ends with the whole log sent or with a failure the host hears   *)
(* of, whatever is lost or fails; where it does not, it is stalled.          *)
SessionConcludes == <>(LogComplete \/ Told \/ Stalled)

(* A replay that was asked for begins and brings the whole log again, unless *)
(* the host resets the board first or hears of a failure.                    *)
ReplayServed ==
    \A n \in 1 .. MaxRequests :
        (host.requests = n) ~>
            (host.requests = 0 \/ Told \/ (host.replays >= n /\ heard.logs = LogFrames))

(* One request is answered by one replay.                                    *)
OneReplayPerRequest == host.replays <= host.requests

(* The controller reports a pass and goes on to the program only when both   *)
(* memories have read back what was written to them, however the bits of a   *)
(* checker's event part on their way through the synchronisers.              *)
BadMemoryStops ==
    ctl.push = "CHECK_PASS" \/ ctl.state \notin {"PRECONFIG", "ERROR"} =>
        ops.instr = "PASS" /\ ops.data = "PASS"

(* A memory that reads back what was written passes the check.               *)
GoodMemoryPasses ==
    /\ "INSTR" \in ctl.fail => ops.instr = "FAIL"
    /\ "DATA" \in ctl.fail => ops.data = "FAIL"
=============================================================================
