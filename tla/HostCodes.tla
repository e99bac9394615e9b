----------------------------- MODULE HostCodes -----------------------------
(* The status codes of common/eh2_system_pkg.sv, and what a listener on the   *)
(* Ethernet side remembers of the frames it has seen in one session.          *)
EXTENDS Naturals

(* The status frames of the two harts, in the order in which they are sent   *)
(* when several are pending.                                                 *)
HartStatuses == {"HART0_START", "HART1_START", "HART0_DONE", "HART1_DONE"}
StartOf == [HART0_START |-> "HART0_START", HART0_DONE |-> "HART0_START",
            HART1_START |-> "HART1_START", HART1_DONE |-> "HART1_START"]

ErrorCodes == {"ERR_OTHER", "ERR_INFO_TX_FIFO", "ERR_DDR_CHECK", "ERR_DDR_ZERO",
               "ERR_EH2_INIT", "ERR_PROGRAM_SEQUENCE", "ERR_PROGRAM_WRITE",
               "ERR_PROGRAM_COUNT", "ERR_PROGRAM_OVERTIME", "ERR_TXMAC_STREAM"}
NoCode == "none"

(* last: the latest milestone; ready: the board has announced READY; logs:    *)
(* log frames since the latest start of a dump; error: the error code; turn   *)
(* changes with every frame, so that a repeated one does not go unnoticed.    *)
Silence == [last |-> NoCode, ready |-> FALSE, harts |-> {}, logs |-> 0,
            error |-> NoCode, turn |-> FALSE]

Hear(before, code) ==
    LET h == [before EXCEPT !.turn = ~@]
    IN  CASE code \in HartStatuses -> [h EXCEPT !.harts = @ \cup {code}]
          [] code \in ErrorCodes -> [h EXCEPT !.error = code]
          [] code = "LOG" -> [h EXCEPT !.logs = @ + 1]
          [] code = "RETRANSMIT_BEGIN" -> [h EXCEPT !.last = code, !.logs = 0]
          [] OTHER -> [h EXCEPT !.last = code, !.ready = @ \/ code = "READY"]
=============================================================================
