-------------------------- MODULE ControllerMoves --------------------------
(* What one clock edge does to the registers of the controller, as a table    *)
(* of its moves: one line per branch of the phase actions, with the inputs    *)
(* that choose it.  The proofs use the table instead of the assignments.      *)
EXTENDS EvaluationInvariants

(* ------------------------------ the columns ------------------------------ *)

(* The code queued at the edge, or NoCode.                                    *)
Sends(in, code) ==
    /\ ctl'.push = code
    /\ ctl'.expected = IF code = NoCode THEN ctl.expected ELSE code
    /\ ctl'.waiting <=> (code # NoCode \/ (ctl.waiting /\ ~InfoDone(in)))
Moves(in, from, to, code, pulses) ==
    /\ ctl.phase = from /\ ctl'.phase = to /\ ctl'.state = ctl.state
    /\ Sends(in, code) /\ ctl'.pulses = pulses
Enters(in, from, state) ==
    /\ ctl.phase = from /\ ctl'.phase = 0 /\ ctl'.state = state
    /\ Sends(in, NoCode) /\ ctl'.pulses = {}
Stays(in) ==
    /\ ctl'.phase = ctl.phase /\ ctl'.state = ctl.state /\ ctl'.pulses = {}
    /\ Sends(in, NoCode) /\ (Awaiting => ~InfoDone(in))
Errs ==
    /\ ctl'.state = "ERROR" /\ ctl'.phase \in 0 .. 3 /\ ctl'.pulses = {}
    /\ \/ ctl'.captured \in ErrorCodes
       \/ ctl'.captured \in {"INSTR_FAIL", "DATA_FAIL"} /\ ctl'.errorSent
    /\ \/ ctl'.push = NoCode
       \/ /\ ctl'.push = "PROGRAM_START" /\ ctl.state = "PROGRAM_WRITE"
          /\ ctl.phase = 0 /\ ctl'.phase = 2

(* What is noted of the receive side.                                         *)
Ends(in, state) == in.programEnd /\ ctl.state = state
Recalls(in) ==
    /\ ctl'.startSeen <=>
          (ctl.startSeen \/ (in.firstWrite /\ ctl.state \in {"PRECONFIG", "PROGRAM_WRITE"}))
    /\ ctl'.preEndSeen <=> (ctl.preEndSeen \/ Ends(in, "PRECONFIG"))
    /\ ctl'.progEndSeen <=> (ctl.progEndSeen \/ Ends(in, "PROGRAM_WRITE"))
    /\ ctl'.progEnd = IF Ends(in, "PROGRAM_WRITE") THEN Count(in) ELSE ctl.progEnd

(* The other registers.                                                       *)
Captures == ctl'.state # "ERROR" => ctl'.captured = ctl.captured
SameCounter == ctl'.counter = ctl.counter
Aims == ctl'.target = ctl.target /\ (ctl'.targetValid <=> ctl.targetValid)
Judges == ctl'.fail = ctl.fail
Cleared == ctl'.pending = {} /\ ctl'.queued = {} /\ ctl'.sent = {}

(* ------------------------------- the moves ------------------------------- *)

PreMoves(in) ==
    /\ ctl.state = "PRECONFIG" /\ DOMAIN ctl' = Fields /\ Captures /\ SameCounter /\ Aims /\ Cleared
    /\ \/ Stays(in) /\ Judges /\ Recalls(in)
       \/ Moves(in, 0, 1, "PREINIT_DONE", {}) /\ Judges /\ Recalls(in)
       \/ InfoDone(in) /\ Moves(in, 1, 2, NoCode, {"atgStart"}) /\ Judges /\ Recalls(in)
       \/ ctl.startSeen /\ Moves(in, 2, 6, "PROGRAM_START", {}) /\ Judges /\ Recalls(in)
       \/ InfoDone(in) /\ Moves(in, 6, 7, NoCode, {}) /\ Judges /\ Recalls(in)
       \/ /\ Moves(in, 7, 8, "RECEIVE_DONE", {}) /\ Judges /\ Recalls(in)
          /\ ctl.preEndSeen \/ in.programEnd
       \/ InfoDone(in) /\ Moves(in, 8, 9, NoCode, {}) /\ Judges /\ Recalls(in)
       \/ /\ Moves(in, 9, 3, NoCode, {"checkStart"}) /\ Judges /\ Recalls(in)
          /\ PreTarget(in).frames = in.dmaDoneCount /\ ~in.dmaBusy /\ in.atgDone
       \/ /\ Moves(in, 3, 4, NoCode, {}) /\ Recalls(in)
          /\ in.instrDone /\ in.dataDone
          /\ ctl'.fail \subseteq {"INSTR", "DATA"}
          /\ "INSTR" \in ctl'.fail <=> in.instrFail
          /\ "DATA" \in ctl'.fail <=> in.dataFail
       \/ Moves(in, 4, 5, Verdict, {}) /\ Judges /\ Recalls(in)
       \/ /\ InfoDone(in) /\ Moves(in, 5, 4, NoCode, {}) /\ Recalls(in)
          /\ ctl.fail = {"INSTR", "DATA"} /\ ctl'.fail = {"INSTR"}
       \/ /\ InfoDone(in) /\ Enters(in, 5, "READY") /\ ctl.fail = {} /\ ctl'.fail = {}
          /\ ~ctl'.startSeen /\ ~ctl'.preEndSeen
       \/ Errs /\ (Judges \/ ctl'.fail = {})

ReadyMoves(in) ==
    /\ ctl.state = "READY" /\ DOMAIN ctl' = Fields /\ Captures /\ SameCounter /\ Aims /\ Judges /\ Cleared
    /\ \/ Stays(in) /\ Recalls(in)
       \/ Moves(in, 0, 1, NoCode, {"zeroStart"}) /\ Recalls(in)
       \/ in.zeroDone /\ Moves(in, 1, 2, NoCode, {"sessionClear"}) /\ Recalls(in)
       \/ Moves(in, 2, 3, NoCode, {}) /\ Recalls(in)
       \/ Moves(in, 3, 4, "READY", {}) /\ Recalls(in)
       \/ /\ InfoDone(in) /\ Enters(in, 4, "PROGRAM_WRITE")
          /\ ~ctl'.startSeen /\ ~ctl'.progEndSeen
       \/ Errs

(* The watchdog may end the state in any phase before the end frame.         *)
ProgMoves(in) ==
    /\ ctl.state = "PROGRAM_WRITE" /\ DOMAIN ctl' = Fields /\ Aims /\ Judges /\ Cleared
    /\ \/ /\ SameCounter /\ Captures /\ Recalls(in)
          /\ \/ Stays(in)
             \/ ctl.startSeen /\ Moves(in, 0, 2, "PROGRAM_START", {})
             \/ InfoDone(in) /\ Moves(in, 2, 3, NoCode, {})
             \/ /\ Moves(in, 3, 4, "RECEIVE_DONE", {})
                /\ ctl.progEndSeen \/ in.programEnd
             \/ InfoDone(in) /\ Moves(in, 4, 5, NoCode, {})
             \/ /\ Moves(in, 5, 1, "PROGRAM_DONE", {})
                /\ ProgTarget(in).total = in.dmaDoneCount /\ ~in.dmaBusy
       \/ /\ InfoDone(in) /\ Enters(in, 1, "EXECUTE") /\ ctl'.counter = 0
          /\ Captures /\ Recalls(in)
       \/ Errs /\ SameCounter

Tracks(in) ==
    /\ ctl'.push = Tracked(in).push /\ ctl'.pending = Tracked(in).pending
    /\ ctl'.queued = Tracked(in).queued /\ ctl'.sent = Tracked(in).sent
    /\ ctl'.expected = ctl.expected
    /\ ctl'.waiting <=> (ctl.waiting /\ ~InfoDone(in))
ExecPhase(in, from, to) ==
    /\ ctl.phase = from /\ ctl'.phase = to /\ ctl'.state = "EXECUTE" /\ ctl'.pulses = {}
ExecMoves(in) ==
    /\ ctl.state = "EXECUTE" /\ DOMAIN ctl' = Fields /\ Captures /\ Aims /\ Judges
    /\ Recalls(in) /\ Tracks(in) /\ ~in.fatal
    /\ \/ ExecPhase(in, 0, 0) /\ ctl'.counter = ctl.counter + 1
       \/ ExecPhase(in, 0, 1) /\ ctl'.counter = 0
       \/ (ExecPhase(in, 1, 1) \/ ExecPhase(in, 1, 2)) /\ SameCounter
       \/ ExecPhase(in, 2, 2) /\ ctl'.counter = 0
       \/ ExecPhase(in, 2, 2) /\ Finished(in) /\ ctl'.counter = ctl.counter + 1
       \/ /\ ctl.phase = 2 /\ ctl'.phase = 0 /\ ctl'.state = "END" /\ ctl'.pulses = {}
          /\ Finished(in) /\ ctl.counter >= IdleGuard - 1 /\ ctl'.counter = 0
       \/ /\ ctl.phase = 1 /\ ctl'.phase = 0 /\ ctl'.state = "ERROR" /\ ctl'.pulses = {}
          /\ ctl'.captured = "ERR_EH2_INIT" /\ SameCounter

EndMoves(in) ==
    /\ ctl.state = "END" /\ DOMAIN ctl' = Fields /\ Captures /\ Judges /\ Cleared /\ Recalls(in)
    /\ \/ SameCounter /\ Aims /\ Stays(in) /\ (ctl.phase = 7 => in.dumpDone)
       \/ SameCounter /\ Aims /\ Moves(in, 0, 1, "EH2_DONE", {})
       \/ SameCounter /\ Aims /\ InfoDone(in) /\ Moves(in, 1, 4, NoCode, {"dumpStart"})
       \/ SameCounter /\ Aims /\ in.dumpDone /\ Moves(in, 4, 2, NoCode, {})
       \/ SameCounter /\ Aims /\ Moves(in, 2, 3, "EXE_END", {})
       \/ /\ InfoDone(in) /\ Moves(in, 3, 5, NoCode, {})
          /\ ctl'.counter = 0 /\ ~ctl'.targetValid
       \/ /\ Moves(in, 5, 5, NoCode, {}) /\ ~ctl.waiting /\ ~ctl.targetValid
          /\ \/ ctl'.counter = ctl.counter + 1 /\ ctl.counter < CountGuard - 1 /\ Aims
             \/ /\ ctl.counter >= CountGuard - 1 /\ ctl'.counter = 0
                /\ ctl'.target = in.submitted /\ ctl'.targetValid
       \/ /\ Moves(in, 5, 5, NoCode, {}) /\ ctl.targetValid /\ SameCounter
          /\ ctl'.target = ctl.target
       \/ /\ Moves(in, 5, 6, "RETRANSMIT_BEGIN", {}) /\ SameCounter /\ ~ctl.waiting
          /\ ctl.targetValid /\ Reached(in.completed, ctl.target) /\ ~ctl'.targetValid
       \/ SameCounter /\ Aims /\ InfoDone(in) /\ Moves(in, 6, 7, NoCode, {"dumpStart"})
       \/ SameCounter /\ Aims /\ ~in.dumpDone /\ Moves(in, 7, 8, NoCode, {})
       \/ SameCounter /\ Aims /\ in.dumpDone /\ Moves(in, 8, 5, NoCode, {})
       \/ Errs /\ SameCounter

(* The operator's reset leaves everything in place and asks for the board's; *)
(* a failure of the hardware ends the session.                               *)
ResetMoves(in) ==
    /\ DOMAIN ctl' = Fields /\ ctl'.state = ctl.state /\ ctl'.phase = ctl.phase
    /\ ctl'.pulses = {"globalReset"} /\ ~ctl'.execute /\ ctl'.captured = ctl.captured
    /\ SameCounter /\ Judges /\ Aims /\ (ctl.errorSent => ctl'.errorSent)
    /\ ctl'.push = Tracked(in).push /\ ctl'.push \in HartStatuses \cup {NoCode}
    /\ ctl'.pending = Tracked(in).pending /\ ctl'.sent = Tracked(in).sent
FatalMoves(in) ==
    /\ DOMAIN ctl' = Fields /\ ctl.state # "ERROR" /\ ctl'.state = "ERROR" /\ ctl'.phase = 0
    /\ ctl'.pulses = {} /\ in.fatal /\ ctl'.captured = in.fatalCode /\ SameCounter /\ Judges /\ Aims
    /\ ctl'.push = Tracked(in).push /\ ctl'.push \in HartStatuses \cup {NoCode}
    /\ ctl'.pending = Tracked(in).pending /\ ctl'.sent = Tracked(in).sent
ErrorMoves(in) ==
    /\ DOMAIN ctl' = Fields /\ ctl.state = "ERROR" /\ ctl'.state = "ERROR"
    /\ ctl'.pulses = {} /\ ctl'.captured = ctl.captured /\ SameCounter /\ Judges /\ Aims
    /\ ctl'.pending = {} /\ ctl'.sent = {}
    /\ \/ ctl'.phase = ctl.phase /\ ctl'.push = NoCode /\ (ctl.errorSent => ctl'.errorSent)
       \/ /\ ctl.phase = 0 /\ ctl'.phase = 1 /\ ~ctl.errorSent /\ ctl'.push = ctl.captured

Moved(in) ==
    \/ PreMoves(in) \/ ReadyMoves(in) \/ ProgMoves(in) \/ ExecMoves(in) \/ EndMoves(in)
    \/ ResetMoves(in) \/ FatalMoves(in) \/ ErrorMoves(in)
=============================================================================
