---------------------------- MODULE HostProtocol ----------------------------
(* What the board promises to whoever listens on the Ethernet side: the       *)
(* order of its status frames and log frames over one session, in which every *)
(* dump is complete before the frame that closes it, and an error code is the *)
(* last status frame of a session.                                            *)
EXTENDS Naturals, HostCodes

CONSTANT LogFrames

VARIABLE heard

Init == heard = Silence

Whole == heard.logs = LogFrames
Milestones ==
    CASE heard.last = NoCode -> {"PREINIT_DONE"}
      [] heard.last = "PREINIT_DONE" -> {"PROGRAM_START"}
      [] heard.last = "PROGRAM_START" -> {"RECEIVE_DONE"}
      [] heard.last = "RECEIVE_DONE" /\ ~heard.ready ->
            {"CHECK_PASS", "DATA_FAIL", "INSTR_FAIL"}
      [] heard.last = "DATA_FAIL" -> {"INSTR_FAIL"}
      [] heard.last = "CHECK_PASS" -> {"READY"}
      [] heard.last = "READY" -> {"PROGRAM_START"}
      [] heard.last = "RECEIVE_DONE" /\ heard.ready -> {"PROGRAM_DONE"}
      [] heard.last = "PROGRAM_DONE" /\ heard.harts = HartStatuses -> {"EH2_DONE"}
      [] heard.last = "EH2_DONE" /\ Whole -> {"EXE_END"}
      [] heard.last \in {"EXE_END", "RETRANSMIT_BEGIN"} /\ Whole -> {"RETRANSMIT_BEGIN"}
      [] OTHER -> {}

Milestone ==
    \E code \in Milestones : heard.error = NoCode /\ heard' = Hear(heard, code)

(* Each hart starts before it stops, and is announced once.                   *)
HartStatus ==
    \E s \in HartStatuses \ heard.harts :
        /\ heard.error = NoCode /\ heard.last = "PROGRAM_DONE"
        /\ s # StartOf[s] => StartOf[s] \in heard.harts
        /\ heard' = Hear(heard, s)

(* Log frames may still leave when an error has been reported.                *)
Log == /\ heard.last \in {"EH2_DONE", "RETRANSMIT_BEGIN"} /\ ~Whole
       /\ heard' = Hear(heard, "LOG")

Error == \E code \in ErrorCodes :
            heard.error = NoCode /\ heard' = Hear(heard, code)

Restart == heard' = Silence

Next == Milestone \/ HartStatus \/ Log \/ Error \/ Restart

Spec == Init /\ [][Next]_heard
=============================================================================
