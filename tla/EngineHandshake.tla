--------------------------- MODULE EngineHandshake ---------------------------
(* How the controller has the data memory cleared: the start hold and its    *)
(* arming (rtl/eh2logcomp_system_top.sv), the two synchronisers, and the     *)
(* fill engine (rtl/ddr/ddr_fill_master.sv) with its sticky done.            *)
(* A memory line is zero or not; other masters write while the controller    *)
(* is in another state.                                                      *)
EXTENDS Integers, FiniteSets

CONSTANTS FillBeats,   \* lines to clear: LENGTH_BYTES / 64
          BurstBeats,  \* longest burst: 256
          FillRatios,  \* UI edges between two controller edges: {2, 3}
          MaxFills     \* bound: how often READY is entered

ASSUME EngineAssumption ==
    /\ FillBeats \in Nat \ {0} /\ BurstBeats \in Nat \ {0} /\ MaxFills \in Nat
    /\ FillRatios \subseteq Nat \ {0} /\ IsFiniteSet(FillRatios)

VARIABLES
    ready,     \* controller clock: where in READY, start hold, arming, status
    sync,      \* UI clock: chains of the start and of the select level
    fill,      \* UI clock: registers of the engine
    nonzero,   \* lines that are not zero
    uiEdges,   \* UI edges since the last controller edge
    fresh,     \* status bits that changed with the last UI edge
    parted,    \* history: done was caught without the error of the same edge
    fills

engineVars == <<ready, sync, fill, nonzero, uiEdges, fresh, parted, fills>>

Lines == 0 .. FillBeats - 1
Least(a, b) == IF a < b THEN a ELSE b

ReadyTypes ==
    [at : {"away", "ask", "wait", "cleared", "failed"},
     start : BOOLEAN, select : BOOLEAN, hold : BOOLEAN, armed : BOOLEAN,
     done : [1..2 -> BOOLEAN], error : [1..2 -> BOOLEAN]]
FillTypes ==
    [state : {"IDLE", "SEND_AW", "SEND_W", "WAIT_B", "COMPLETE", "FAILED"},
     addr : 0..FillBeats, left : 0..FillBeats, burst : 0..BurstBeats,
     beat : 0..BurstBeats, done : BOOLEAN, error : BOOLEAN]

EngineInit ==
    /\ ready = [at |-> "away", start |-> FALSE, select |-> FALSE,
                hold |-> FALSE, armed |-> FALSE,
                done |-> <<FALSE, FALSE>>, error |-> <<FALSE, FALSE>>]
    /\ sync = [start |-> <<FALSE, FALSE>>, select |-> <<FALSE, FALSE>>]
    /\ fill = [state |-> "IDLE", addr |-> 0, left |-> FillBeats,
               burst |-> 0, beat |-> 0, done |-> FALSE, error |-> FALSE]
    /\ nonzero = Lines /\ uiEdges = 0 /\ fresh = {} /\ parted = FALSE /\ fills = 0

-----------------------------------------------------------------------------
(* Controller clock.                                                         *)

(* Slip: the level of done is taken as it is.                                *)
DoneLevel == ready.hold /\ ready.done[2]
ZeroDone == ready.armed /\ ready.done[2]

(* A bit that changed with the last UI edge is caught or missed on its own.  *)
Sample(bit, missed) == fill[bit] # (bit \in missed)

(* Owner of DDR0 is ZERO in all of READY.                                    *)
InReady == ready.at \in {"ask", "wait", "cleared"}

(* READY phases 0, 1 and 2 to 4; an error is left by a reset only.           *)
Phases ==
    CASE ready.at = "away" -> {"away"} \cup {to \in {"ask"} : fills < MaxFills}
      [] ready.at = "ask" -> {"wait"}
      [] ready.at = "wait" /\ ~ZeroDone -> {"wait"}
      [] ready.at = "wait" /\ ZeroDone -> {IF ready.error[2] THEN "failed" ELSE "cleared"}
      [] ready.at = "cleared" -> {"cleared", "away"}
      [] ready.at = "failed" -> {"failed"}

Armed ==
    IF ready.start THEN FALSE
    ELSE IF ready.armed /\ ready.done[2] THEN FALSE
    ELSE ready.armed \/ (ready.hold /\ ~ready.done[2])

(* Slip: the hold falls with the level of done, as those of the checkers do. *)
HoldUntilDone == ready.start \/ (ready.hold /\ ~ready.done[2])
HoldNext ==
    IF ready.start THEN TRUE
    ELSE ready.hold /\ ~(ready.armed /\ ready.done[2])

ControlEdge ==
    /\ uiEdges \in FillRatios
    /\ \E to \in Phases, missed \in SUBSET fresh :
          /\ ready' = [at |-> to, start |-> ready.at = "ask", select |-> InReady,
                       hold |-> HoldNext, armed |-> Armed,
                       done |-> <<Sample("done", missed), ready.done[1]>>,
                       error |-> <<Sample("error", missed), ready.error[1]>>]
          /\ fills' = IF to = "ask" THEN fills + 1 ELSE fills
          /\ parted' = (parted \/ (fill.done /\ fill.error /\ missed = {"error"}))
    /\ nonzero' = IF ready.at = "away" THEN Lines ELSE nonzero
    /\ uiEdges' = 0 /\ fresh' = {}
    /\ UNCHANGED <<sync, fill>>

-----------------------------------------------------------------------------
(* The fill engine; ok is the answer of the memory to a burst.               *)
Start == sync.start[2] /\ sync.select[2]

FillIdle ==
    /\ fill.state = "IDLE"
    /\ nonzero' = nonzero
    /\ fill' = IF ~Start THEN fill
               ELSE [fill EXCEPT !.state = "SEND_AW", !.addr = 0, !.left = FillBeats,
                                 !.burst = Least(FillBeats, BurstBeats), !.beat = 0,
                                 !.done = FALSE, !.error = FALSE]

FillAddress ==
    /\ fill.state = "SEND_AW" /\ nonzero' = nonzero
    /\ \E awready \in BOOLEAN :
          fill' = IF awready THEN [fill EXCEPT !.state = "SEND_W", !.beat = 0] ELSE fill

FillData ==
    /\ fill.state = "SEND_W"
    /\ \E wready \in BOOLEAN :
          IF ~wready THEN UNCHANGED <<fill, nonzero>>
          ELSE /\ nonzero' = nonzero \ {fill.addr + fill.beat}
               /\ fill' = IF fill.beat = fill.burst - 1
                          THEN [fill EXCEPT !.state = "WAIT_B"]
                          ELSE [fill EXCEPT !.beat = @ + 1]

(* A burst that is answered with an error has left its lines as they were.   *)
FillAnswer ==
    /\ fill.state = "WAIT_B"
    /\ \E b \in {"none", "ok", "error"} :
          CASE b = "none" -> UNCHANGED <<fill, nonzero>>
            [] b = "error" ->
                 /\ nonzero' = nonzero \cup (fill.addr .. fill.addr + fill.burst - 1)
                 /\ fill' = [fill EXCEPT !.state = "FAILED",
                                         !.done = TRUE, !.error = TRUE]
            [] b = "ok" ->
                 LET rest == fill.left - fill.burst
                     next == [fill EXCEPT !.addr = @ + fill.burst, !.left = rest]
                 IN  /\ nonzero' = nonzero
                     /\ fill' = IF rest = 0
                                THEN [next EXCEPT !.state = "COMPLETE", !.done = TRUE]
                                ELSE [next EXCEPT !.state = "SEND_AW",
                                                  !.burst = Least(rest, BurstBeats)]

FillRests ==
    /\ fill.state \in {"COMPLETE", "FAILED"} /\ nonzero' = nonzero
    /\ fill' = [fill EXCEPT !.done = TRUE, !.state = IF Start THEN @ ELSE "IDLE"]

FillUiEdge ==
    /\ \E r \in FillRatios : uiEdges < r
    /\ FillIdle \/ FillAddress \/ FillData \/ FillAnswer \/ FillRests
    /\ sync' = [start |-> <<ready.hold, sync.start[1]>>,
                select |-> <<ready.select, sync.select[1]>>]
    /\ uiEdges' = uiEdges + 1
    /\ fresh' = {bit \in {"done", "error"} : fill'[bit] # fill[bit]}
    /\ UNCHANGED <<ready, parted, fills>>

EngineNext == ControlEdge \/ FillUiEdge
EngineSpec == EngineInit /\ [][EngineNext]_engineVars

-----------------------------------------------------------------------------
EngineTypeOK ==
    /\ ready \in ReadyTypes /\ fill \in FillTypes /\ nonzero \subseteq Lines
    /\ sync \in [start : [1..2 -> BOOLEAN], select : [1..2 -> BOOLEAN]]
    /\ fresh \subseteq {"done", "error"} /\ parted \in BOOLEAN

(* The done the controller acts on is that of the fill it asked for: when it *)
(* goes on, every line is zero, although done is sticky in the UI domain and *)
(* READY is entered again and again.  The one way out is a failed fill whose *)
(* error bit crosses one edge after its done (top:512-525).                  *)
ZeroedIsZero == ready.at = "cleared" => nonzero = {} \/ parted

(* Hold, arming and the engine's return to rest never wait for one another:  *)
(* every request is answered.                                                *)
RequestAnswered == (ready.at = "wait") ~> (ready.at # "wait")
=============================================================================
