---------------------------- MODULE DataMemoryProofs ---------------------------
(* Proofs about the data memory: that the done the controller acts on        *)
(* answers its own request, for every number of lines, every burst length    *)
(* and every ratio of the clocks; and that the answers and the data of the   *)
(* cores' accesses come home and the idle level is true, for every number of *)
(* accesses a port may have under way.                                       *)
EXTENDS EngineHandshake, MemoryPort, TLAPS

(* ------------------------ the zero fill and its done --------------------- *)

(* Where a request stands.                                                   *)
Working == fill.state \in {"SEND_AW", "SEND_W", "WAIT_B"}
Resting == fill.state \in {"COMPLETE", "FAILED"}
Flowing == sync.start[1] /\ sync.start[2]
OldDone == ready.done[1] = fill.done /\ ready.done[2] = fill.done /\ "done" \notin fresh

(* The hold, its arming and the select level belong to one visit of READY.   *)
Asking ==
    /\ ready.hold => ready.at = "wait" /\ ~ready.start
    /\ ready.start => ready.at = "wait"
    /\ ready.armed => ready.hold
    /\ ready.at = "wait" => ready.select
    /\ sync.start[1] => sync.select[1]
    /\ sync.start[2] => sync.select[2]

(* Without a hold the engine rests on the last done, and every register      *)
(* shows it.                                                                 *)
AtEase ==
    ~ready.hold =>
        /\ ~Working /\ OldDone
        /\ sync.start[1] => sync.start[2]
        /\ fill.state = "IDLE" => ~sync.start[2]

(* With a hold the engine has yet to start, and the arming waits if an old   *)
(* done is up; or it works; or its done rises through the two registers,     *)
(* which the arming has seen low.                                            *)
Requested ==
    ready.hold =>
        /\ fill.state = "IDLE" =>
               OldDone /\ (fill.done => ~ready.armed) /\ (sync.start[2] => sync.start[1])
        /\ Working =>
               /\ Flowing /\ ~fill.done
               /\ ready.done[1] => ready.done[2]
               /\ ready.armed => ~ready.done[2]
               /\ "done" \in fresh => ready.done[1]
        /\ Resting =>
               /\ (OldDone /\ ~ready.armed) \/ Flowing
               /\ ready.done[1] /\ ~ready.done[2] => "done" \notin fresh
               /\ ready.armed /\ ready.done[2] => ready.done[1] /\ "done" \notin fresh

Resolved == Resting => fill.done

(* Lines from the first one up to the beat under way are zero.               *)
ZeroUpTo(n) == \A l \in nonzero : n <= l
Progress ==
    /\ Working => /\ fill.addr + fill.left = FillBeats /\ fill.left > 0
                  /\ fill.burst = Least(fill.left, BurstBeats)
                  /\ ZeroUpTo(fill.addr)
    /\ fill.state = "SEND_W" => fill.beat < fill.burst /\ ZeroUpTo(fill.addr + fill.beat)
    /\ fill.state = "WAIT_B" => ZeroUpTo(fill.addr + fill.burst)
    /\ fill.state = "COMPLETE" /\ ready.hold =>
           (OldDone /\ ~ready.armed) \/ nonzero = {}
    /\ ready.at = "cleared" => nonzero = {} \/ parted

(* Until two bits of one edge have parted, an error that is up belongs to    *)
(* the fill under way and travels beside its done.                           *)
ErrorBeside ==
    ~parted /\ ready.at # "failed" =>
        /\ fill.state # "FAILED" => ~fill.error
        /\ fill.state = "FAILED" =>
               /\ ready.hold /\ Flowing /\ fill.error
               /\ "done" \in fresh <=> "error" \in fresh
               /\ ready.done[1] /\ (ready.armed \/ ~ready.done[2]) => ready.error[1]
               /\ ready.armed /\ ready.done[2] => ready.error[2]

EngineInv ==
    EngineTypeOK /\ Asking /\ AtEase /\ Requested /\ Resolved /\ Progress /\ ErrorBeside

-----------------------------------------------------------------------------
LEMMA PairOfBits ==
    ASSUME NEW a \in BOOLEAN, NEW b \in BOOLEAN
    PROVE  <<a, b>> \in [1..2 -> BOOLEAN]
OBVIOUS

(* After reset nothing is asked and nothing is up.                           *)
LEMMA EngineStarts == EngineInit => EngineInv
<1> SUFFICES ASSUME EngineInit PROVE EngineInv
  OBVIOUS
<1> USE EngineAssumption DEF EngineAssumption, EngineInit
<1>1. EngineTypeOK
  <2>1. <<FALSE, FALSE>> \in [1..2 -> BOOLEAN]
    BY PairOfBits
  <2>2. ready \in ReadyTypes
    BY <2>1 DEF ReadyTypes
  <2>3. fill \in FillTypes
    BY DEF FillTypes
  <2> QED
    BY <2>1, <2>2, <2>3 DEF EngineTypeOK
<1>2. Asking /\ Requested /\ Resolved /\ ErrorBeside
  BY DEF Asking, Requested, Resolved, ErrorBeside, Resting
<1>4. AtEase
  BY DEF AtEase, Working, OldDone
<1>3. Progress
  BY DEF Progress, Working, ZeroUpTo
<1> QED
  BY <1>1, <1>2, <1>3, <1>4 DEF EngineInv

-----------------------------------------------------------------------------
(* An edge of the controller: a sample of the done is the old or the new     *)
(* value, and the new one where nothing has just changed.                    *)
LEMMA SampleIsEither ==
    ASSUME EngineTypeOK, NEW bit \in {"done", "error"}, NEW missed \in SUBSET fresh
    PROVE  /\ Sample(bit, missed) \in BOOLEAN
           /\ bit \notin missed => Sample(bit, missed) = fill[bit]
           /\ bit \in missed => Sample(bit, missed) = ~fill[bit]
BY DEF EngineTypeOK, FillTypes, Sample

LEMMA ControlEdgeKeeps == EngineInv /\ ControlEdge => EngineInv'
<1> SUFFICES ASSUME EngineInv, ControlEdge PROVE EngineInv'
  OBVIOUS
<1>0. EngineTypeOK /\ Asking /\ AtEase /\ Requested /\ Resolved /\ Progress /\ ErrorBeside
  BY DEF EngineInv
<1>1. PICK to \in Phases, missed \in SUBSET fresh :
        /\ ready' = [at |-> to, start |-> ready.at = "ask", select |-> InReady,
                     hold |-> HoldNext, armed |-> Armed,
                     done |-> <<Sample("done", missed), ready.done[1]>>,
                     error |-> <<Sample("error", missed), ready.error[1]>>]
        /\ parted' = (parted \/ (fill.done /\ fill.error /\ missed = {"error"}))
  BY DEF ControlEdge
<1>2. /\ nonzero' = IF ready.at = "away" THEN Lines ELSE nonzero
      /\ fresh' = {} /\ sync' = sync /\ fill' = fill
  BY DEF ControlEdge
<1> DEFINE d == Sample("done", missed)
           e == Sample("error", missed)
<1>3. /\ d \in BOOLEAN /\ e \in BOOLEAN
      /\ "done" \notin missed => d = fill.done
      /\ "done" \in missed => d = ~fill.done
      /\ "error" \notin missed => e = fill.error
      /\ "error" \in missed => e = ~fill.error
  BY <1>0, SampleIsEither
<1> HIDE DEF d, e
<1>4. /\ ready'.at = to /\ ready'.start = (ready.at = "ask") /\ ready'.select = InReady
      /\ ready'.hold = HoldNext /\ ready'.armed = Armed
      /\ ready'.done[1] = d /\ ready'.done[2] = ready.done[1]
      /\ ready'.error[1] = e /\ ready'.error[2] = ready.error[1]
  BY <1>1 DEF d, e
<1>5. /\ ready \in ReadyTypes /\ ready.done[1] \in BOOLEAN /\ ready.done[2] \in BOOLEAN
      /\ ready.error[1] \in BOOLEAN /\ ready.error[2] \in BOOLEAN
      /\ ready.hold \in BOOLEAN /\ ready.armed \in BOOLEAN /\ ready.start \in BOOLEAN
      /\ fill.done \in BOOLEAN /\ fill.error \in BOOLEAN /\ fresh \subseteq {"done", "error"}
      /\ fill.state = "IDLE" \/ Working \/ Resting
  BY <1>0 DEF EngineTypeOK, ReadyTypes, FillTypes, Working, Resting
<1>6. /\ to \in {"away", "ask", "wait", "cleared", "failed"}
      /\ to = "wait" => ready.at \in {"ask", "wait"}
      /\ ready.at = "ask" => to = "wait"
      /\ ready.at = "wait" /\ ~ZeroDone => to = "wait"
      /\ ready.at = "wait" /\ ZeroDone =>
             to = IF ready.error[2] THEN "failed" ELSE "cleared"
      /\ to = "cleared" /\ ready.at # "wait" => ready.at = "cleared"
      /\ ready.at = "failed" => to = "failed"
  BY <1>1, <1>5 DEF Phases, ReadyTypes
<1>7. EngineTypeOK'
  <2>1. <<d, ready.done[1]>> \in [1..2 -> BOOLEAN] /\ <<e, ready.error[1]>> \in [1..2 -> BOOLEAN]
    BY <1>3, <1>5
  <2>2. HoldNext \in BOOLEAN /\ Armed \in BOOLEAN /\ InReady \in BOOLEAN
    <3>1. HoldNext \in BOOLEAN
      BY <1>5 DEF HoldNext
    <3>2. Armed \in BOOLEAN
      BY <1>5 DEF Armed
    <3>3. InReady \in BOOLEAN
      BY DEF InReady
    <3> QED
      BY <3>1, <3>2, <3>3
  <2>3. ready' = [at |-> to, start |-> ready.at = "ask", select |-> InReady,
                  hold |-> HoldNext, armed |-> Armed,
                  done |-> <<d, ready.done[1]>>, error |-> <<e, ready.error[1]>>]
    BY <1>1 DEF d, e
  <2>4. ready' \in ReadyTypes
    BY <1>6, <2>1, <2>2, <2>3 DEF ReadyTypes
  <2> QED
    BY <1>0, <1>1, <1>2, <2>4 DEF EngineTypeOK
<1>8. Asking'
  BY <1>0, <1>2, <1>4, <1>5, <1>6 DEF Asking, HoldNext, Armed, InReady, ZeroDone
<1>9. AtEase'
  BY <1>0, <1>2, <1>3, <1>4, <1>5, <1>6
  DEF Asking, AtEase, Requested, Resolved, HoldNext, Working, Resting, OldDone, Flowing
<1>10. Requested'
  BY <1>0, <1>2, <1>3, <1>4, <1>5, <1>6
  DEF Asking, AtEase, Requested, Resolved, HoldNext, Armed, Working, Resting, OldDone, Flowing
<1>11. Resolved'
  BY <1>0, <1>2 DEF Resolved, Resting
<1>12. Progress'
  <2>1. ready.at = "away" => ~Working
    BY <1>0 DEF Asking, AtEase
  <2>2. /\ Working => Working'
        /\ Working' => Working /\ nonzero' = nonzero
    BY <1>2, <2>1 DEF Working
  <2>3. fill'.state = "COMPLETE" /\ ready'.hold => (OldDone' /\ ~ready'.armed) \/ nonzero' = {}
    BY <1>0, <1>2, <1>3, <1>4, <1>5, <1>6
    DEF Asking, AtEase, Requested, Resolved, Progress, HoldNext, Armed, Working, Resting, OldDone
  <2>4. ready'.at = "cleared" => nonzero' = {} \/ parted'
    BY <1>0, <1>1, <1>2, <1>3, <1>4, <1>5, <1>6
    DEF Asking, AtEase, Requested, Resolved, Progress, ErrorBeside, ZeroDone, Working,
        Resting, OldDone, EngineTypeOK, FillTypes
  <2> QED
    BY <1>0, <1>2, <2>2, <2>3, <2>4 DEF Progress, Working, ZeroUpTo
<1>13. ErrorBeside'
  BY ZenonT(60), <1>0, <1>1, <1>2, <1>3, <1>4, <1>5, <1>6
  DEF Asking, AtEase, Requested, Resolved, ErrorBeside, HoldNext, Armed, ZeroDone, Working,
      Resting, OldDone, Flowing
<1> QED
  BY <1>7, <1>8, <1>9, <1>10, <1>11, <1>12, <1>13 DEF EngineInv

-----------------------------------------------------------------------------
(* An edge of the engine.                                                    *)
LEMMA FillEdgeKeeps == EngineInv /\ FillUiEdge => EngineInv'
<1> SUFFICES ASSUME EngineInv, FillUiEdge PROVE EngineInv'
  OBVIOUS
<1> USE EngineAssumption DEF EngineAssumption
<1>0. EngineTypeOK /\ Asking /\ AtEase /\ Requested /\ Resolved /\ Progress /\ ErrorBeside
  BY DEF EngineInv
<1>1. /\ sync' = [start |-> <<ready.hold, sync.start[1]>>,
                  select |-> <<ready.select, sync.select[1]>>]
      /\ fresh' = {bit \in {"done", "error"} : fill'[bit] # fill[bit]}
      /\ ready' = ready /\ parted' = parted
  BY DEF FillUiEdge
<1>2. /\ sync'.start[1] = ready.hold /\ sync'.start[2] = sync.start[1]
      /\ sync'.select[1] = ready.select /\ sync'.select[2] = sync.select[1]
  BY <1>1
<1>3. /\ ready.done[1] \in BOOLEAN /\ ready.done[2] \in BOOLEAN
      /\ ready.hold \in BOOLEAN /\ ready.armed \in BOOLEAN /\ ready.select \in BOOLEAN
      /\ sync.start[1] \in BOOLEAN /\ sync.start[2] \in BOOLEAN
      /\ sync.select[1] \in BOOLEAN /\ sync.select[2] \in BOOLEAN
      /\ fill \in FillTypes /\ nonzero \subseteq Lines
  BY <1>0 DEF EngineTypeOK, ReadyTypes
<1>4. /\ "done" \in fresh' <=> fill'.done # fill.done
      /\ "error" \in fresh' <=> fill'.error # fill.error
  BY <1>1
<1>5. Start <=> sync.start[2]
  BY <1>0, <1>3 DEF Start, Asking
<1>6. Asking'
  BY <1>0, <1>1, <1>2, <1>3 DEF Asking
<1>7. FillIdle \/ FillAddress \/ FillData \/ FillAnswer \/ FillRests
  BY DEF FillUiEdge
<1>8. ASSUME fill' \in FillTypes, nonzero' \subseteq Lines PROVE EngineTypeOK'
  <2>1. <<ready.hold, sync.start[1]>> \in [1..2 -> BOOLEAN]
        /\ <<ready.select, sync.select[1]>> \in [1..2 -> BOOLEAN]
    BY <1>3
  <2> QED
    BY <1>0, <1>1, <1>8, <2>1 DEF EngineTypeOK
<1>9. /\ fill.addr \in Nat /\ fill.left \in Nat /\ fill.burst \in Nat /\ fill.beat \in Nat
      /\ fill.done \in BOOLEAN /\ fill.error \in BOOLEAN
      /\ fill.state = "IDLE" \/ Working \/ Resting
  BY <1>3 DEF FillTypes, Working, Resting
<1>10. CASE FillIdle
  <2>1. CASE Start
    <3>1. /\ fill' = [fill EXCEPT !.state = "SEND_AW", !.addr = 0, !.left = FillBeats,
                                  !.burst = Least(FillBeats, BurstBeats), !.beat = 0,
                                  !.done = FALSE, !.error = FALSE]
          /\ nonzero' = nonzero /\ fill.state = "IDLE"
      BY <1>10, <2>1 DEF FillIdle
    <3>2. /\ fill'.state = "SEND_AW" /\ fill'.addr = 0 /\ fill'.left = FillBeats
          /\ fill'.burst = Least(FillBeats, BurstBeats)
          /\ fill'.done = FALSE /\ fill'.error = FALSE
      BY <1>3, <3>1 DEF FillTypes
    <3>3. ready.hold /\ sync.start[1] /\ sync.start[2]
      BY <1>0, <1>3, <1>5, <2>1, <3>1 DEF AtEase, Requested
    <3>4. EngineTypeOK'
      <4>1. /\ Least(FillBeats, BurstBeats) \in 0..BurstBeats
            /\ 0 \in 0..FillBeats /\ 0 \in 0..BurstBeats /\ FillBeats \in 0..FillBeats
        BY DEF Least
      <4>2. fill' \in FillTypes
        BY <1>3, <3>1, <4>1 DEF FillTypes
      <4> QED
        BY <1>3, <1>8, <3>1, <4>2
    <3>5. Working' /\ ~Resting'
      BY <3>2 DEF Working, Resting
    <3>6. /\ AtEase'
          /\ Resolved'
          /\ ErrorBeside'
      <4>1. ready'.hold /\ fill'.state # "FAILED"
        BY <1>1, <3>2, <3>3
      <4> QED
        BY <3>2, <3>5, <4>1 DEF AtEase, Resolved, ErrorBeside
    <3>7. Requested'
      <4>1. OldDone /\ (fill.done => ~ready.armed)
        BY <1>0, <3>1, <3>3 DEF Requested
      <4>2. Flowing' /\ ("done" \in fresh' => fill.done)
        BY <1>2, <1>3, <1>4, <1>9, <3>2, <3>3 DEF Flowing
      <4>3. /\ ready.done[1] => ready.done[2]
            /\ ready.armed => ~ready.done[2]
            /\ "done" \in fresh' => ready.done[1]
        BY <1>3, <1>9, <4>1, <4>2 DEF OldDone
      <4> QED
        BY <1>1, <3>2, <3>5, <4>2, <4>3 DEF Requested
    <3>8. Progress'
      <4>1. ZeroUpTo(0)'
        BY <1>3, <3>1 DEF ZeroUpTo, Lines
      <4>2. ready.at # "cleared"
        BY <1>0, <3>3 DEF Asking
      <4> QED
        BY <1>1, <3>2, <4>1, <4>2 DEF Progress
    <3> QED
      BY <1>6, <3>4, <3>6, <3>7, <3>8 DEF EngineInv
  <2>2. CASE ~Start
    <3>1. fill' = fill /\ nonzero' = nonzero /\ fill.state = "IDLE"
      BY <1>10, <2>2 DEF FillIdle
    <3>2. EngineTypeOK'
      BY <1>3, <1>8, <3>1
    <3>3. AtEase' /\ Requested'
      BY <1>0, <1>1, <1>2, <1>3, <1>4, <1>5, <2>2, <3>1
      DEF AtEase, Requested, Working, Resting, OldDone
    <3>4. Resolved' /\ Progress' /\ ErrorBeside'
      BY <1>0, <1>1, <3>1 DEF Resolved, Progress, ErrorBeside, Working, Resting
    <3> QED
      BY <1>6, <3>2, <3>3, <3>4 DEF EngineInv
  <2> QED
    BY <2>1, <2>2
<1>11. ASSUME Working, Working', Progress', fill' \in FillTypes, nonzero' \subseteq Lines,
              fill'.done = fill.done, fill'.error = fill.error
       PROVE  EngineInv'
  <2>1. ready.hold /\ Flowing /\ ~Resting' /\ fill'.state # "IDLE" /\ fill.state # "FAILED"
    BY <1>0, <1>11 DEF AtEase, Requested, Working, Resting
  <2>2. AtEase' /\ Requested' /\ Resolved'
    BY <1>0, <1>1, <1>2, <1>4, <1>11, <2>1 DEF AtEase, Requested, Resolved, Flowing
  <2>3. ErrorBeside'
    BY <1>0, <1>1, <1>11, <2>1 DEF ErrorBeside, Resting
  <2> QED
    BY <1>0, <1>6, <1>8, <1>11, <2>2, <2>3 DEF EngineInv
<1>12. CASE FillAddress
  <2>1. PICK awready \in BOOLEAN :
          fill' = IF awready THEN [fill EXCEPT !.state = "SEND_W", !.beat = 0] ELSE fill
    BY <1>12 DEF FillAddress
  <2>2. fill.state = "SEND_AW" /\ nonzero' = nonzero
    BY <1>12 DEF FillAddress
  <2>3. /\ fill'.state \in {"SEND_AW", "SEND_W"}
        /\ fill'.addr = fill.addr /\ fill'.left = fill.left /\ fill'.burst = fill.burst
        /\ fill'.done = fill.done /\ fill'.error = fill.error
        /\ fill'.state = "SEND_W" => fill'.beat = 0
    BY <1>3, <2>1, <2>2 DEF FillTypes
  <2>4. fill' \in FillTypes
    <3>1. 0 \in 0..BurstBeats
      OBVIOUS
    <3> QED
      BY <1>3, <2>1, <3>1 DEF FillTypes
  <2>5. Working /\ Working' /\ fill.burst > 0
    BY <1>0, <2>2, <2>3 DEF Working, Progress, Least
  <2>6. Progress'
    BY <1>0, <1>1, <1>9, <2>2, <2>3, <2>5 DEF Progress, ZeroUpTo
  <2> QED
    BY <1>3, <1>11, <2>2, <2>3, <2>4, <2>5, <2>6
<1>13. CASE FillData
  <2>1. CASE fill' = fill /\ nonzero' = nonzero
    BY <1>0, <1>1, <1>3, <1>11, <1>13, <2>1 DEF FillData, Working, Progress, ZeroUpTo
  <2>2. CASE /\ nonzero' = nonzero \ {fill.addr + fill.beat}
             /\ fill' = IF fill.beat = fill.burst - 1
                        THEN [fill EXCEPT !.state = "WAIT_B"]
                        ELSE [fill EXCEPT !.beat = @ + 1]
    <3>1. fill.state = "SEND_W" /\ Working
      BY <1>13 DEF FillData, Working
    <3>2. /\ fill.beat < fill.burst /\ ZeroUpTo(fill.addr + fill.beat)
          /\ fill.burst <= BurstBeats /\ ZeroUpTo(fill.addr)
      BY <1>0, <1>9, <3>1 DEF Progress, Least
    <3>3. /\ fill'.addr = fill.addr /\ fill'.left = fill.left /\ fill'.burst = fill.burst
          /\ fill'.done = fill.done /\ fill'.error = fill.error
          /\ \/ fill'.state = "WAIT_B" /\ fill.burst = fill.beat + 1
             \/ fill'.state = "SEND_W" /\ fill'.beat = fill.beat + 1
                /\ fill.beat + 1 < fill.burst
      BY <1>3, <1>9, <2>2, <3>1, <3>2 DEF FillTypes
    <3>4. fill' \in FillTypes
      BY <1>3, <1>9, <2>2, <3>2 DEF FillTypes
    <3>5. \A l \in nonzero' : fill.addr <= l /\ fill.addr + fill.beat + 1 <= l
      BY <1>3, <1>9, <2>2, <3>2 DEF ZeroUpTo, Lines
    <3>6. Working'
      BY <3>3 DEF Working
    <3>7. Progress'
      BY <1>0, <1>1, <1>9, <2>2, <3>1, <3>2, <3>3, <3>5, <3>6 DEF Progress, ZeroUpTo
    <3> QED
      BY <1>3, <1>11, <2>2, <3>1, <3>3, <3>4, <3>6, <3>7
  <2> QED
    BY <1>13, <2>1, <2>2 DEF FillData
<1>14. CASE FillAnswer
  <2>1. fill.state = "WAIT_B" /\ Working /\ ~Resting
    BY <1>14 DEF FillAnswer, Working, Resting
  <2>2. /\ ready.hold /\ Flowing /\ ~fill.done /\ (~parted => ~fill.error)
        /\ ready.done[1] => ready.done[2]
        /\ ready.armed => ~ready.done[2]
        /\ ready.at = "wait"
    BY <1>0, <2>1 DEF AtEase, Requested, Asking, ErrorBeside
  <2>3. /\ fill.addr + fill.left = FillBeats /\ fill.left > 0
        /\ fill.burst = Least(fill.left, BurstBeats) /\ ZeroUpTo(fill.addr + fill.burst)
    BY <1>0, <2>1 DEF Progress
  <2>4. CASE UNCHANGED <<fill, nonzero>>
    BY <1>0, <1>1, <1>3, <1>11, <2>1, <2>4 DEF Working, Progress, ZeroUpTo
  <2>5. CASE /\ nonzero' = nonzero \cup (fill.addr .. fill.addr + fill.burst - 1)
             /\ fill' = [fill EXCEPT !.state = "FAILED", !.done = TRUE, !.error = TRUE]
    <3>1. fill'.state = "FAILED" /\ fill'.done /\ fill'.error
      BY <1>3, <2>5 DEF FillTypes
    <3>2. fill' \in FillTypes /\ nonzero' \subseteq Lines
      <4>1. fill.addr + fill.burst <= FillBeats
        BY <1>9, <2>3 DEF Least
      <4>2. fill.addr .. fill.addr + fill.burst - 1 \subseteq Lines
        BY <1>9, <4>1 DEF Lines
      <4> QED
        BY <1>3, <2>5, <4>2 DEF FillTypes
    <3>3. Requested' /\ Resolved' /\ AtEase'
      BY <1>1, <1>2, <1>3, <1>4, <1>9, <2>2, <3>1
      DEF Requested, AtEase, Resolved, Working, Resting, OldDone, Flowing
    <3>4. Progress'
      BY <1>1, <2>2, <3>1 DEF Progress, Working
    <3>5. ErrorBeside'
      BY <1>1, <1>2, <1>3, <1>4, <1>9, <2>2, <3>1 DEF ErrorBeside, Flowing
    <3> QED
      BY <1>6, <1>8, <3>2, <3>3, <3>4, <3>5 DEF EngineInv
  <2> DEFINE rest == fill.left - fill.burst
             next == [fill EXCEPT !.addr = @ + fill.burst, !.left = rest]
  <2>6. CASE rest = 0 /\ nonzero' = nonzero
             /\ fill' = [next EXCEPT !.state = "COMPLETE", !.done = TRUE]
    <3>1. /\ fill'.state = "COMPLETE" /\ fill'.done /\ fill'.error = fill.error
          /\ fill.addr + fill.burst = FillBeats
      BY <1>3, <1>9, <2>3, <2>6 DEF FillTypes
    <3>2. fill' \in FillTypes /\ nonzero' \subseteq Lines
      <4>1. fill.addr + fill.burst \in 0..FillBeats /\ rest \in 0..FillBeats
        BY <1>9, <2>6, <3>1
      <4> QED
        BY <1>3, <2>6, <4>1 DEF FillTypes
    <3>3. Requested' /\ Resolved' /\ AtEase'
      BY <1>1, <1>2, <1>3, <1>4, <1>9, <2>2, <3>1
      DEF Requested, AtEase, Resolved, Working, Resting, OldDone, Flowing
    <3>4. nonzero = {}
      BY <1>3, <1>9, <2>3, <3>1 DEF ZeroUpTo, Lines
    <3>5. Progress'
      BY <1>1, <2>2, <2>6, <3>1, <3>4 DEF Progress, Working
    <3>6. ErrorBeside'
      BY <1>1, <2>2, <3>1 DEF ErrorBeside
    <3> QED
      BY <1>6, <1>8, <3>2, <3>3, <3>5, <3>6 DEF EngineInv
  <2>7. CASE rest # 0 /\ nonzero' = nonzero
             /\ fill' = [next EXCEPT !.state = "SEND_AW", !.burst = Least(rest, BurstBeats)]
    <3>1. /\ fill'.state = "SEND_AW" /\ fill'.done = fill.done /\ fill'.error = fill.error
          /\ fill'.addr = fill.addr + fill.burst /\ fill'.left = rest
          /\ fill'.burst = Least(rest, BurstBeats)
          /\ rest \in Nat \ {0} /\ rest <= FillBeats
      BY <1>3, <1>9, <2>3, <2>7 DEF FillTypes, Least
    <3>2. /\ Least(rest, BurstBeats) \in 0..BurstBeats
          /\ rest \in 0..FillBeats /\ fill.addr + fill.burst \in 0..FillBeats
      BY <1>9, <2>3, <3>1 DEF Least
    <3>3. fill' \in FillTypes
      BY <1>3, <2>7, <3>2 DEF FillTypes
    <3>4. Working'
      BY <3>1 DEF Working
    <3>5. Progress'
      BY <1>1, <1>9, <2>2, <2>3, <2>7, <3>1, <3>2 DEF Progress, ZeroUpTo
    <3> QED
      BY <1>3, <1>11, <2>1, <2>7, <3>1, <3>3, <3>4, <3>5
  <2> QED
    BY <1>14, <2>4, <2>5, <2>6, <2>7 DEF FillAnswer
<1>15. CASE FillRests
  <2>1. /\ Resting /\ ~Working /\ fill.state # "IDLE" /\ fill.done /\ nonzero' = nonzero
        /\ fill' = [fill EXCEPT !.done = TRUE, !.state = IF Start THEN @ ELSE "IDLE"]
    BY <1>0, <1>15 DEF FillRests, Resting, Working, Resolved
  <2>2. /\ fill'.state = (IF Start THEN fill.state ELSE "IDLE")
        /\ fill'.done = TRUE /\ fill'.error = fill.error
        /\ fill' \in FillTypes
    BY <1>3, <2>1 DEF FillTypes, Resting
  <2>3. EngineTypeOK'
    BY <1>3, <1>8, <2>1, <2>2
  <2>4. "done" \notin fresh' /\ "error" \notin fresh'
    BY <1>4, <1>9, <2>1, <2>2
  <2>5. CASE Start
    <3>1. fill'.state = fill.state /\ Resting' /\ ~Working'
      BY <2>1, <2>2, <2>5 DEF Resting, Working
    <3>2. AtEase' /\ Resolved'
      BY <1>0, <1>1, <1>2, <1>3, <1>9, <2>1, <2>2, <2>4, <3>1
      DEF AtEase, Resolved, OldDone
    <3>3. Requested'
      BY <1>0, <1>1, <1>2, <1>3, <1>5, <1>9, <2>1, <2>2, <2>4, <2>5, <3>1
      DEF Requested, OldDone, Flowing
    <3>4. Progress'
      <4>1. fill'.state # "SEND_W" /\ fill'.state # "WAIT_B"
        BY <3>1 DEF Working
      <4>2. OldDone => OldDone'
        BY <1>1, <1>9, <2>1, <2>2, <2>4 DEF OldDone
      <4> QED
        BY <1>0, <1>1, <2>1, <3>1, <4>1, <4>2 DEF Progress
    <3>5. ErrorBeside'
      BY <1>0, <1>1, <1>2, <1>3, <2>2, <2>4, <3>1 DEF ErrorBeside, Flowing
    <3> QED
      BY <1>6, <2>3, <3>2, <3>3, <3>4, <3>5 DEF EngineInv
  <2>6. CASE ~Start
    <3>1. fill'.state = "IDLE" /\ ~Resting' /\ ~Working'
      BY <2>1, <2>2, <2>6 DEF Resting, Working
    <3>2. AtEase' /\ Resolved'
      BY <1>0, <1>1, <1>2, <1>3, <1>5, <1>9, <2>1, <2>2, <2>4, <2>6, <3>1
      DEF AtEase, Resolved, OldDone
    <3>3. Requested'
      BY <1>0, <1>1, <1>2, <1>3, <1>5, <1>9, <2>1, <2>2, <2>4, <2>6, <3>1
      DEF Requested, OldDone, Flowing
    <3>4. Progress' /\ ErrorBeside'
      BY <1>0, <1>1, <1>5, <2>1, <2>2, <2>6, <3>1 DEF Progress, ErrorBeside, Flowing
    <3> QED
      BY <1>6, <2>3, <3>2, <3>3, <3>4 DEF EngineInv
  <2> QED
    BY <2>5, <2>6
<1> QED
  BY <1>7, <1>10, <1>12, <1>13, <1>14, <1>15

-----------------------------------------------------------------------------
(* The invariant holds in every state, whatever the lengths and the clocks.  *)
THEOREM EngineInvariant == EngineSpec => []EngineInv
<1>1. EngineInv /\ UNCHANGED engineVars => EngineInv'
  BY DEF EngineInv, EngineTypeOK, Asking, AtEase, Requested, Resolved, Progress,
         ErrorBeside, Working, Resting, Flowing, OldDone, ZeroUpTo, engineVars
<1>2. EngineInv /\ [EngineNext]_engineVars => EngineInv'
  BY <1>1, ControlEdgeKeeps, FillEdgeKeeps DEF EngineNext
<1> QED
  BY EngineStarts, <1>2, PTL DEF EngineSpec

(* When the controller leaves the zero fill every line is zero, however      *)
(* often READY is entered and whatever the sticky done still shows, unless   *)
(* done and error of one edge have parted on their way (top:512-525).        *)
THEOREM DoneIsItsOwn == EngineSpec => []ZeroedIsZero
<1>1. EngineInv => ZeroedIsZero
  BY DEF EngineInv, Progress, ZeroedIsZero
<1> QED
  BY EngineInvariant, <1>1, PTL

(* -------------------------- the cores' two ports ------------------------- *)

Commands == {{}, {"ar"}, {"aw"}, {"w"}, {"aw", "w"}}
MemoryTypes ==
    /\ command \in [Ports -> Commands]
    /\ open \in [Ports -> [rd : Nat, wr : Nat]] /\ busIdle \in BOOLEAN
    /\ readQ \in [Ports -> [ar : Nat, r : Nat]]
    /\ writeQ \in [Ports -> [aw : Nat, w : Nat, b : Nat]]
    /\ reading \in [state : {"IDLE", "DATA"}, owner : Ports, prefer : Ports,
                    at : Ports \cup {"none"}, home : {TRUE}]
    /\ writing \in [state : {"IDLE", "DATA", "RESP"}, owner : Ports, prefer : Ports,
                    at : Ports \cup {"none"}, data : Ports \cup {"none"}, home : {TRUE}]
    /\ slice \in Ports \cup {"none"}

(* What a port has open is in its converters or at the arbiter.              *)
AtRead(p) == One(reading.state = "DATA" /\ reading.owner = p)
AtWrite(p) == One(writing.state # "IDLE" /\ writing.owner = p)
ReadsCounted == \A p \in Ports : open[p].rd = readQ[p].ar + readQ[p].r + AtRead(p)
WritesCounted == \A p \in Ports : open[p].wr = writeQ[p].aw + writeQ[p].b + AtWrite(p)

(* Every address has its beat, unless one of the two is still offered.       *)
BeatDue(p) == One(writing.state = "DATA" /\ writing.owner = p)
BeatAhead(p) == One("aw" \in command[p] /\ "w" \notin command[p])
BeatBehind(p) == One("w" \in command[p] /\ "aw" \notin command[p])
BeatsMatch ==
    \A p \in Ports : writeQ[p].w + BeatBehind(p) = writeQ[p].aw + BeatAhead(p) + BeatDue(p)

(* DDR0 serves the access of the owner, with the beat of the owner.          *)
OwnerServed ==
    /\ reading.state = "DATA" => reading.at = reading.owner
    /\ writing.state # "IDLE" => writing.at = writing.owner
    /\ writing.state # "RESP" => slice = "none" /\ writing.data = "none"
    /\ writing.state = "RESP" =>
          \/ slice = writing.owner /\ writing.data = "none"
          \/ slice = "none" /\ writing.data = writing.owner

IdleIsTrue == busIdle => NothingUnderWay

PortInv == /\ MemoryTypes /\ ReadsCounted /\ WritesCounted /\ BeatsMatch
           /\ OwnerServed /\ IdleIsTrue

-----------------------------------------------------------------------------
LEMMA StartsAtRest == ASSUME MemoryInit PROVE PortInv
<1> USE DEF MemoryInit
<1>1. MemoryTypes
  BY DEF MemoryTypes, Commands, Ports
<1>2. \A p \in Ports : /\ AtRead(p) = 0 /\ AtWrite(p) = 0
                       /\ BeatDue(p) = 0 /\ BeatAhead(p) = 0 /\ BeatBehind(p) = 0
  BY DEF AtRead, AtWrite, BeatDue, BeatAhead, BeatBehind, One
<1>3. ReadsCounted /\ WritesCounted /\ BeatsMatch
  BY <1>2 DEF ReadsCounted, WritesCounted, BeatsMatch
<1> QED
  BY <1>1, <1>3 DEF PortInv, OwnerServed, IdleIsTrue

LEMMA Fields ==
    ASSUME MemoryTypes, NEW p \in Ports
    PROVE  /\ open[p] \in [rd : Nat, wr : Nat] /\ open[p].rd \in Nat /\ open[p].wr \in Nat
           /\ readQ[p] \in [ar : Nat, r : Nat] /\ readQ[p].ar \in Nat /\ readQ[p].r \in Nat
           /\ writeQ[p] \in [aw : Nat, w : Nat, b : Nat]
           /\ writeQ[p].aw \in Nat /\ writeQ[p].w \in Nat /\ writeQ[p].b \in Nat
<1>1. /\ open[p] \in [rd : Nat, wr : Nat] /\ readQ[p] \in [ar : Nat, r : Nat]
      /\ writeQ[p] \in [aw : Nat, w : Nat, b : Nat]
  BY DEF MemoryTypes
<1> QED
  BY <1>1

LEMMA NoneLeft ==
    ASSUME NEW a \in Nat, NEW b \in Nat, NEW c \in Nat, a + b + c = 0
    PROVE  a = 0 /\ b = 0 /\ c = 0
OBVIOUS

(* With every counter at zero and no valid up, nothing is under way.         *)
LEMMA IdleMeansRest ==
    ASSUME PortInv, BusIdleNow PROVE NothingUnderWay
<1> USE DEF PortInv
<1>1. ASSUME NEW p \in Ports
      PROVE  /\ readQ[p].ar = 0 /\ readQ[p].r = 0 /\ AtRead(p) = 0
             /\ writeQ[p].aw = 0 /\ writeQ[p].b = 0 /\ AtWrite(p) = 0
  <2>1. /\ readQ[p].ar \in Nat /\ readQ[p].r \in Nat
        /\ writeQ[p].aw \in Nat /\ writeQ[p].b \in Nat
    BY Fields
  <2>2. AtRead(p) \in Nat /\ AtWrite(p) \in Nat
    BY DEF AtRead, AtWrite, One
  <2>3. open[p].rd = 0 /\ open[p].wr = 0
    BY DEF BusIdleNow
  <2>4. /\ open[p].rd = readQ[p].ar + readQ[p].r + AtRead(p)
        /\ open[p].wr = writeQ[p].aw + writeQ[p].b + AtWrite(p)
    BY DEF ReadsCounted, WritesCounted
  <2>5. readQ[p].ar + readQ[p].r + AtRead(p) = 0 /\ writeQ[p].aw + writeQ[p].b + AtWrite(p) = 0
    BY <2>3, <2>4
  <2>6. readQ[p].ar = 0 /\ readQ[p].r = 0 /\ AtRead(p) = 0
    BY <2>1, <2>2, <2>5, NoneLeft
  <2>7. writeQ[p].aw = 0 /\ writeQ[p].b = 0 /\ AtWrite(p) = 0
    BY <2>1, <2>2, <2>5, NoneLeft
  <2> QED
    BY <2>6, <2>7
<1>2. reading.state = "IDLE" /\ writing.state = "IDLE"
  <2>1. reading.owner \in Ports /\ reading.state \in {"IDLE", "DATA"} /\ writing.owner \in Ports
    BY DEF MemoryTypes
  <2> QED
    BY <2>1, <1>1 DEF AtRead, AtWrite, One
<1>3. ASSUME NEW p \in Ports PROVE writeQ[p].w = 0
  <2>1. writeQ[p] \in [aw : Nat, w : Nat, b : Nat]
    BY DEF MemoryTypes
  <2>2. BeatDue(p) = 0 /\ BeatAhead(p) = 0 /\ BeatBehind(p) = 0
    BY <1>2 DEF BeatDue, BeatAhead, BeatBehind, One, BusIdleNow
  <2> QED
    BY <2>1, <2>2, <1>1 DEF BeatsMatch
<1> QED
  BY <1>1, <1>2, <1>3 DEF NothingUnderWay, OwnerServed

-----------------------------------------------------------------------------
(* An edge of the core clock, for each port on its own.                      *)
LEMMA CoreEdgeCounts ==
    ASSUME PortInv, NEW p \in Ports, NEW go \in SUBSET MayGo(p),
           NEW next \in CommandNext(p, go)
    PROVE  /\ next \in Commands
           /\ CountNext(open[p].rd, "ar" \in go, "r" \in go) =
                 readQ[p].ar + One("ar" \in go) + (readQ[p].r - One("r" \in go)) + AtRead(p)
           /\ readQ[p].r - One("r" \in go) \in Nat
           /\ CountNext(open[p].wr, "aw" \in go, "b" \in go) =
                 writeQ[p].aw + One("aw" \in go) + (writeQ[p].b - One("b" \in go)) + AtWrite(p)
           /\ writeQ[p].b - One("b" \in go) \in Nat
           /\ writeQ[p].w + One("w" \in go) + One("w" \in next /\ "aw" \notin next) =
                 writeQ[p].aw + One("aw" \in go) + One("aw" \in next /\ "w" \notin next)
                     + BeatDue(p)
<1> USE DEF PortInv
<1>1. /\ readQ[p] \in [ar : Nat, r : Nat] /\ writeQ[p] \in [aw : Nat, w : Nat, b : Nat]
      /\ open[p] \in [rd : Nat, wr : Nat] /\ command[p] \in Commands
  BY DEF MemoryTypes
<1>2. AtRead(p) \in 0..1 /\ AtWrite(p) \in 0..1 /\ BeatDue(p) \in 0..1
  BY DEF AtRead, AtWrite, BeatDue, One
<1>3. /\ "r" \in go => readQ[p].r > 0
      /\ "b" \in go => writeQ[p].b > 0
      /\ \A c \in {"ar", "aw", "w"} : c \in go => c \in command[p]
  BY <1>1 DEF MayGo, Commands
<1>4. readQ[p].r - One("r" \in go) \in Nat /\ writeQ[p].b - One("b" \in go) \in Nat
  BY <1>1, <1>3 DEF One
<1>5. CountNext(open[p].rd, "ar" \in go, "r" \in go) =
         readQ[p].ar + One("ar" \in go) + (readQ[p].r - One("r" \in go)) + AtRead(p)
  BY <1>1, <1>2 DEF ReadsCounted, CountNext, One
<1>6. CountNext(open[p].wr, "aw" \in go, "b" \in go) =
         writeQ[p].aw + One("aw" \in go) + (writeQ[p].b - One("b" \in go)) + AtWrite(p)
  BY <1>1, <1>2 DEF WritesCounted, CountNext, One
<1>7. next \in Commands
      /\ One("w" \in go) + One("w" \in next /\ "aw" \notin next) + BeatAhead(p) =
            One("aw" \in go) + One("aw" \in next /\ "w" \notin next) + BeatBehind(p)
  <2>1. CASE command[p] \ go = {}
    <3>1. next \in {{}, {"ar"}, {"aw", "w"}}
      BY <2>1 DEF CommandNext, Issues
    <3>2. ("aw" \in go <=> "aw" \in command[p]) /\ ("w" \in go <=> "w" \in command[p])
      BY <2>1, <1>3
    <3> QED
      BY <3>1, <3>2 DEF Commands, BeatAhead, BeatBehind, One
  <2>2. CASE command[p] \ go # {}
    <3>1. next = command[p] \ go
      BY <2>2 DEF CommandNext
    <3>2. next \in Commands
      BY <3>1, <1>1 DEF Commands
    <3>3. \A c \in {"aw", "w"} : c \in next <=> c \in command[p] /\ c \notin go
      BY <3>1
    <3> QED
      BY <3>2, <3>3, <1>3 DEF BeatAhead, BeatBehind, One
  <2> QED
    BY <2>1, <2>2
<1>8. /\ One("w" \in go) \in 0..1 /\ One("aw" \in go) \in 0..1
      /\ One("w" \in next /\ "aw" \notin next) \in 0..1
      /\ One("aw" \in next /\ "w" \notin next) \in 0..1
      /\ BeatAhead(p) \in 0..1 /\ BeatBehind(p) \in 0..1
  BY DEF One, BeatAhead, BeatBehind
<1>9. writeQ[p].w + BeatBehind(p) = writeQ[p].aw + BeatAhead(p) + BeatDue(p)
  BY DEF BeatsMatch
<1> QED
  BY <1>1, <1>2, <1>4, <1>5, <1>6, <1>7, <1>8, <1>9

LEMMA CoreEdgeKeeps == ASSUME PortInv, MemoryCoreEdge PROVE PortInv'
<1> USE DEF PortInv
<1>0. PICK ifu \in SUBSET MayGo("ifu"), lsu \in SUBSET MayGo("lsu") :
        /\ \E ifuNext \in CommandNext("ifu", ifu), lsuNext \in CommandNext("lsu", lsu) :
              command' = Both(ifuNext, lsuNext)
        /\ PortEdge(Both(ifu, lsu))
  BY DEF MemoryCoreEdge
<1>1. PICK ifuNext \in CommandNext("ifu", ifu), lsuNext \in CommandNext("lsu", lsu) :
        command' = Both(ifuNext, lsuNext)
  BY <1>0
<1> DEFINE go == Both(ifu, lsu)
<1>2. \A p \in Ports : go[p] \in SUBSET MayGo(p) /\ command'[p] \in CommandNext(p, go[p])
  BY <1>0, <1>1 DEF Both, Ports
<1> HIDE DEF go
<1>3. PortEdge(go) /\ command' = [p \in Ports |-> command'[p]]
  BY <1>0, <1>1 DEF go, Both
<1>4. UNCHANGED <<reading, writing, slice>> /\ busIdle' = BusIdleNow
  BY <1>3 DEF PortEdge
<1>5. ASSUME NEW p \in Ports
      PROVE  /\ open'[p].rd = CountNext(open[p].rd, "ar" \in go[p], "r" \in go[p])
             /\ open'[p].wr = CountNext(open[p].wr, "aw" \in go[p], "b" \in go[p])
             /\ readQ'[p].ar = readQ[p].ar + One("ar" \in go[p])
             /\ readQ'[p].r = readQ[p].r - One("r" \in go[p])
             /\ writeQ'[p].aw = writeQ[p].aw + One("aw" \in go[p])
             /\ writeQ'[p].w = writeQ[p].w + One("w" \in go[p])
             /\ writeQ'[p].b = writeQ[p].b - One("b" \in go[p])
  <2>1. /\ open'[p] = [rd |-> CountNext(open[p].rd, "ar" \in go[p], "r" \in go[p]),
                       wr |-> CountNext(open[p].wr, "aw" \in go[p], "b" \in go[p])]
        /\ readQ'[p] = [ar |-> readQ[p].ar + One("ar" \in go[p]),
                        r  |-> readQ[p].r - One("r" \in go[p])]
        /\ writeQ'[p] = [aw |-> writeQ[p].aw + One("aw" \in go[p]),
                         w  |-> writeQ[p].w + One("w" \in go[p]),
                         b  |-> writeQ[p].b - One("b" \in go[p])]
    BY <1>3 DEF PortEdge
  <2>2. /\ open'[p].rd = CountNext(open[p].rd, "ar" \in go[p], "r" \in go[p])
        /\ open'[p].wr = CountNext(open[p].wr, "aw" \in go[p], "b" \in go[p])
    BY <2>1
  <2>3. /\ readQ'[p].ar = readQ[p].ar + One("ar" \in go[p])
        /\ readQ'[p].r = readQ[p].r - One("r" \in go[p])
    BY <2>1
  <2>4. /\ writeQ'[p].aw = writeQ[p].aw + One("aw" \in go[p])
        /\ writeQ'[p].w = writeQ[p].w + One("w" \in go[p])
        /\ writeQ'[p].b = writeQ[p].b - One("b" \in go[p])
    BY <2>1
  <2> QED
    BY <2>2, <2>3, <2>4
<1>6. ASSUME NEW p \in Ports
      PROVE  /\ command'[p] \in Commands
             /\ open'[p] \in [rd : Nat, wr : Nat]
             /\ readQ'[p] \in [ar : Nat, r : Nat]
             /\ writeQ'[p] \in [aw : Nat, w : Nat, b : Nat]
             /\ open'[p].rd = readQ'[p].ar + readQ'[p].r + AtRead(p)
             /\ open'[p].wr = writeQ'[p].aw + writeQ'[p].b + AtWrite(p)
             /\ writeQ'[p].w + One("w" \in command'[p] /\ "aw" \notin command'[p]) =
                   writeQ'[p].aw + One("aw" \in command'[p] /\ "w" \notin command'[p])
                       + BeatDue(p)
  <2>1. /\ readQ[p].ar \in Nat /\ readQ[p].r \in Nat
        /\ writeQ[p].aw \in Nat /\ writeQ[p].w \in Nat /\ writeQ[p].b \in Nat
    BY Fields
  <2>2. /\ One("ar" \in go[p]) \in Nat /\ One("r" \in go[p]) \in Nat
        /\ One("aw" \in go[p]) \in Nat /\ One("w" \in go[p]) \in Nat
        /\ One("b" \in go[p]) \in Nat
    BY DEF One
  <2>3. AtRead(p) \in 0..1 /\ AtWrite(p) \in 0..1
    BY DEF AtRead, AtWrite, One
  <2>4. /\ command'[p] \in Commands
        /\ CountNext(open[p].rd, "ar" \in go[p], "r" \in go[p]) =
              readQ[p].ar + One("ar" \in go[p]) + (readQ[p].r - One("r" \in go[p])) + AtRead(p)
        /\ readQ[p].r - One("r" \in go[p]) \in Nat
        /\ CountNext(open[p].wr, "aw" \in go[p], "b" \in go[p]) =
              writeQ[p].aw + One("aw" \in go[p]) + (writeQ[p].b - One("b" \in go[p])) + AtWrite(p)
        /\ writeQ[p].b - One("b" \in go[p]) \in Nat
        /\ writeQ[p].w + One("w" \in go[p])
                 + One("w" \in command'[p] /\ "aw" \notin command'[p]) =
              writeQ[p].aw + One("aw" \in go[p])
                 + One("aw" \in command'[p] /\ "w" \notin command'[p]) + BeatDue(p)
    BY <1>2, CoreEdgeCounts
  <2>5. /\ open'[p].rd = readQ'[p].ar + readQ'[p].r + AtRead(p)
        /\ open'[p].wr = writeQ'[p].aw + writeQ'[p].b + AtWrite(p)
        /\ writeQ'[p].w + One("w" \in command'[p] /\ "aw" \notin command'[p]) =
              writeQ'[p].aw + One("aw" \in command'[p] /\ "w" \notin command'[p])
                  + BeatDue(p)
    BY <1>5, <2>4
  <2>6. /\ readQ'[p].ar \in Nat /\ readQ'[p].r \in Nat
        /\ writeQ'[p].aw \in Nat /\ writeQ'[p].w \in Nat /\ writeQ'[p].b \in Nat
    BY <1>5, <2>1, <2>2, <2>4
  <2>7. open'[p].rd \in Nat /\ open'[p].wr \in Nat
    BY <2>3, <2>5, <2>6
  <2>8. /\ open'[p] = [rd |-> open'[p].rd, wr |-> open'[p].wr]
        /\ readQ'[p] = [ar |-> readQ'[p].ar, r |-> readQ'[p].r]
        /\ writeQ'[p] = [aw |-> writeQ'[p].aw, w |-> writeQ'[p].w, b |-> writeQ'[p].b]
    BY <1>3, <1>5 DEF PortEdge
  <2>9. /\ open'[p] \in [rd : Nat, wr : Nat] /\ readQ'[p] \in [ar : Nat, r : Nat]
        /\ writeQ'[p] \in [aw : Nat, w : Nat, b : Nat]
    BY <2>6, <2>7, <2>8
  <2> QED
    BY <2>4, <2>5, <2>9
<1>7. MemoryTypes'
  <2>1. /\ open' = [p \in Ports |-> open'[p]] /\ readQ' = [p \in Ports |-> readQ'[p]]
        /\ writeQ' = [p \in Ports |-> writeQ'[p]]
    BY <1>3 DEF PortEdge
  <2>2. busIdle' \in BOOLEAN
    BY <1>4 DEF BusIdleNow
  <2> QED
    BY <1>3, <1>4, <1>6, <2>1, <2>2 DEF MemoryTypes
<1>8. /\ \A p \in Ports : AtRead(p)' = AtRead(p) /\ AtWrite(p)' = AtWrite(p)
                            /\ BeatDue(p)' = BeatDue(p)
      /\ OwnerServed'
  BY <1>4 DEF AtRead, AtWrite, BeatDue, OwnerServed
<1>9. ReadsCounted' /\ WritesCounted' /\ BeatsMatch'
  BY <1>6, <1>8 DEF ReadsCounted, WritesCounted, BeatsMatch, BeatAhead, BeatBehind
<1>10. IdleIsTrue'
  <2>1. SUFFICES ASSUME BusIdleNow PROVE NothingUnderWay'
    BY <1>4 DEF IdleIsTrue
  <2>2. NothingUnderWay
    BY <2>1, IdleMeansRest
  <2>3. ASSUME NEW p \in Ports PROVE go[p] = {}
    BY <1>2, <2>1, <2>2 DEF BusIdleNow, NothingUnderWay, MayGo
  <2>4. ASSUME NEW p \in Ports
        PROVE  /\ readQ'[p].ar = 0 /\ readQ'[p].r = 0
               /\ writeQ'[p].aw = 0 /\ writeQ'[p].w = 0 /\ writeQ'[p].b = 0
    <3>1. \A c \in {"ar", "r", "aw", "w", "b"} : One(c \in go[p]) = 0
      BY <2>3 DEF One
    <3>2. /\ readQ[p].ar = 0 /\ readQ[p].r = 0
          /\ writeQ[p].aw = 0 /\ writeQ[p].w = 0 /\ writeQ[p].b = 0
      BY <2>2 DEF NothingUnderWay
    <3> QED
      BY <1>5, <3>1, <3>2
  <2> QED
    BY <1>4, <2>2, <2>4 DEF NothingUnderWay
<1> QED
  BY <1>7, <1>8, <1>9, <1>10

-----------------------------------------------------------------------------
LEMMA ChosenAsks ==
    ASSUME NEW valid \in SUBSET Ports, valid # {}, NEW prefer \in Ports
    PROVE  Chosen(valid, prefer) \in valid
BY DEF Chosen, Ports

(* One more or one less in a queue of a port.                                *)
LEMMA ReadQueueMoves ==
    ASSUME MemoryTypes, NEW q \in Ports
    PROVE  /\ readQ[q].ar > 0 =>
                 [readQ EXCEPT ![q].ar = @ - 1] \in [Ports -> [ar : Nat, r : Nat]]
           /\ [readQ EXCEPT ![q].r = @ + 1] \in [Ports -> [ar : Nat, r : Nat]]
<1>1. readQ \in [Ports -> [ar : Nat, r : Nat]]
  BY DEF MemoryTypes
<1>2. readQ[q].ar > 0 => [readQ[q] EXCEPT !.ar = @ - 1] \in [ar : Nat, r : Nat]
  BY Fields
<1>3. [readQ[q] EXCEPT !.r = @ + 1] \in [ar : Nat, r : Nat]
  BY Fields
<1> QED
  BY <1>1, <1>2, <1>3

LEMMA WriteQueueMoves ==
    ASSUME MemoryTypes, NEW q \in Ports
    PROVE  /\ writeQ[q].aw > 0 =>
                 [writeQ EXCEPT ![q].aw = @ - 1] \in [Ports -> [aw : Nat, w : Nat, b : Nat]]
           /\ writeQ[q].w > 0 =>
                 [writeQ EXCEPT ![q].w = @ - 1] \in [Ports -> [aw : Nat, w : Nat, b : Nat]]
           /\ [writeQ EXCEPT ![q].b = @ + 1] \in [Ports -> [aw : Nat, w : Nat, b : Nat]]
<1>1. writeQ \in [Ports -> [aw : Nat, w : Nat, b : Nat]]
  BY DEF MemoryTypes
<1>2. /\ writeQ[q].aw > 0 => [writeQ[q] EXCEPT !.aw = @ - 1] \in [aw : Nat, w : Nat, b : Nat]
      /\ writeQ[q].w > 0 => [writeQ[q] EXCEPT !.w = @ - 1] \in [aw : Nat, w : Nat, b : Nat]
  BY Fields
<1>3. [writeQ[q] EXCEPT !.b = @ + 1] \in [aw : Nat, w : Nat, b : Nat]
  BY Fields
<1> QED
  BY <1>1, <1>2, <1>3

(* An edge of the UI clock: the read side.                                   *)
LEMMA ReadHalfKeeps ==
    ASSUME PortInv, ReadHalf,
           UNCHANGED <<writeQ, writing, slice, command, open, busIdle>>
    PROVE  PortInv'
<1> USE DEF PortInv
<1>1. /\ \A p \in Ports : readQ[p] \in [ar : Nat, r : Nat]
      /\ reading \in [state : {"IDLE", "DATA"}, owner : Ports, prefer : Ports,
                      at : Ports \cup {"none"}, home : {TRUE}]
  BY DEF MemoryTypes
<1>2. ASSUME ~NothingUnderWay
      PROVE  WritesCounted' /\ BeatsMatch' /\ IdleIsTrue'
  BY <1>2 DEF WritesCounted, AtWrite, BeatsMatch, BeatDue, BeatAhead, BeatBehind, IdleIsTrue
<1>3. CASE ReadAddress
  <2>1. PICK valid \in (SUBSET {p \in Ports : readQ[p].ar > 0}) \ {{}} :
          LET p == Chosen(valid, reading.prefer)
          IN  /\ reading' = [reading EXCEPT !.state = "DATA", !.owner = p, !.at = p]
              /\ readQ' = [readQ EXCEPT ![p].ar = @ - 1]
    BY <1>3 DEF ReadAddress
  <2> DEFINE q == Chosen(valid, reading.prefer)
  <2>2. q \in Ports /\ readQ[q].ar > 0
    <3>1. valid \in SUBSET Ports /\ valid # {}
      OBVIOUS
    <3>2. reading.prefer \in Ports
      BY <1>1
    <3> QED
      BY <3>1, <3>2, ChosenAsks
  <2> HIDE DEF q
  <2>3. /\ reading' = [reading EXCEPT !.state = "DATA", !.owner = q, !.at = q]
        /\ readQ' = [readQ EXCEPT ![q].ar = @ - 1]
    BY <2>1 DEF q
  <2>4. MemoryTypes'
    <3>1. reading' \in [state : {"IDLE", "DATA"}, owner : Ports, prefer : Ports,
                        at : Ports \cup {"none"}, home : {TRUE}]
      BY <1>1, <2>2, <2>3
    <3>2. readQ' \in [Ports -> [ar : Nat, r : Nat]]
      BY <2>2, <2>3, ReadQueueMoves
    <3> QED
      BY <3>1, <3>2 DEF MemoryTypes
  <2>5. reading.state = "IDLE" /\ reading'.state = "DATA" /\ reading'.owner = q
    BY <1>1, <1>3, <2>3 DEF ReadAddress
  <2>6. ReadsCounted'
    <3> SUFFICES ASSUME NEW p \in Ports
                 PROVE  open[p].rd = readQ'[p].ar + readQ'[p].r + AtRead(p)'
      BY DEF ReadsCounted
    <3>1. open[p].rd = readQ[p].ar + readQ[p].r
      BY <1>1, <2>5 DEF ReadsCounted, AtRead, One
    <3>2. AtRead(p)' = IF p = q THEN 1 ELSE 0
      BY <2>5 DEF AtRead, One
    <3>3. readQ'[p] = IF p = q THEN [readQ[p] EXCEPT !.ar = @ - 1] ELSE readQ[p]
      BY <2>3 DEF MemoryTypes
    <3> QED
      BY <1>1, <3>1, <3>2, <3>3
  <2>7. OwnerServed'
    BY <1>1, <2>3 DEF OwnerServed
  <2>8. ~NothingUnderWay
    BY <2>2 DEF NothingUnderWay
  <2> QED
    BY <1>2, <2>4, <2>6, <2>7, <2>8
<1>4. CASE ReadAnswer
  <2> DEFINE q == reading.owner
  <2>1. /\ reading.state = "DATA" /\ q \in Ports /\ reading.at = q
        /\ reading' = [reading EXCEPT !.state = "IDLE", !.prefer = OtherPort(q),
                                      !.at = "none", !.home = TRUE]
        /\ readQ' = [readQ EXCEPT ![q].r = @ + 1]
    BY <1>1, <1>4 DEF ReadAnswer, OwnerServed
  <2>2. MemoryTypes'
    <3>1. reading' \in [state : {"IDLE", "DATA"}, owner : Ports, prefer : Ports,
                        at : Ports \cup {"none"}, home : {TRUE}]
      BY <1>1, <2>1 DEF OtherPort, Ports
    <3>2. readQ' \in [Ports -> [ar : Nat, r : Nat]]
      BY <2>1, ReadQueueMoves
    <3> QED
      BY <3>1, <3>2 DEF MemoryTypes
  <2>3. ReadsCounted'
    <3> SUFFICES ASSUME NEW p \in Ports
                 PROVE  open[p].rd = readQ'[p].ar + readQ'[p].r + AtRead(p)'
      BY DEF ReadsCounted
    <3>1. open[p].rd = readQ[p].ar + readQ[p].r + (IF p = q THEN 1 ELSE 0)
      BY <1>1, <2>1 DEF ReadsCounted, AtRead, One
    <3>2. AtRead(p)' = 0
      BY <1>1, <2>1 DEF AtRead, One
    <3>3. readQ'[p] = IF p = q THEN [readQ[p] EXCEPT !.r = @ + 1] ELSE readQ[p]
      BY <2>1 DEF MemoryTypes
    <3> QED
      BY <1>1, <3>1, <3>2, <3>3
  <2>4. OwnerServed'
    BY <1>1, <2>1 DEF OwnerServed
  <2>5. ~NothingUnderWay
    BY <2>1 DEF NothingUnderWay
  <2> QED
    BY <1>2, <2>2, <2>3, <2>4, <2>5
<1> QED
  BY <1>3, <1>4 DEF ReadHalf

(* The write side.                                                           *)
LEMMA WriteHalfKeeps ==
    ASSUME PortInv, WriteHalf,
           UNCHANGED <<readQ, reading, command, open, busIdle>>
    PROVE  PortInv'
<1> USE DEF PortInv
<1> DEFINE q == writing.owner
<1>1. /\ \A p \in Ports : writeQ[p] \in [aw : Nat, w : Nat, b : Nat]
      /\ writing \in [state : {"IDLE", "DATA", "RESP"}, owner : Ports, prefer : Ports,
                      at : Ports \cup {"none"}, data : Ports \cup {"none"}, home : {TRUE}]
      /\ writeQ = [p \in Ports |-> writeQ[p]]
  BY DEF MemoryTypes
<1>3. /\ \A p \in Ports : BeatAhead(p)' = BeatAhead(p) /\ BeatBehind(p)' = BeatBehind(p)
                           /\ BeatAhead(p) \in 0..1 /\ BeatBehind(p) \in 0..1
      /\ ReadsCounted'
  BY DEF BeatAhead, BeatBehind, One, ReadsCounted, AtRead
<1>4. \A p \in Ports : /\ open[p].wr = writeQ[p].aw + writeQ[p].b + AtWrite(p)
                       /\ writeQ[p].w + BeatBehind(p) = writeQ[p].aw + BeatAhead(p) + BeatDue(p)
  BY DEF WritesCounted, BeatsMatch
<1>5. CASE WriteAddress
  <2>1. PICK valid \in (SUBSET {p \in Ports : writeQ[p].aw > 0}) \ {{}} :
          LET p == Chosen(valid, writing.prefer)
          IN  /\ writing' = [writing EXCEPT !.state = "DATA", !.owner = p, !.at = p]
              /\ writeQ' = [writeQ EXCEPT ![p].aw = @ - 1]
    BY <1>5 DEF WriteAddress
  <2> DEFINE n == Chosen(valid, writing.prefer)
  <2>2. n \in Ports /\ writeQ[n].aw > 0
    <3>1. valid \in SUBSET Ports /\ valid # {}
      OBVIOUS
    <3>2. writing.prefer \in Ports
      BY <1>1
    <3> QED
      BY <3>1, <3>2, ChosenAsks
  <2> HIDE DEF n
  <2>3. /\ writing' = [writing EXCEPT !.state = "DATA", !.owner = n, !.at = n]
        /\ writeQ' = [writeQ EXCEPT ![n].aw = @ - 1]
        /\ writing.state = "IDLE" /\ slice' = slice
    BY <1>5, <2>1 DEF n, WriteAddress
  <2>4. MemoryTypes'
    <3>1. writing' \in [state : {"IDLE", "DATA", "RESP"}, owner : Ports, prefer : Ports,
                        at : Ports \cup {"none"}, data : Ports \cup {"none"}, home : {TRUE}]
      BY <1>1, <2>2, <2>3
    <3>2. writeQ' \in [Ports -> [aw : Nat, w : Nat, b : Nat]] /\ slice' \in Ports \cup {"none"}
      BY <2>2, <2>3, WriteQueueMoves DEF MemoryTypes
    <3> QED
      BY <3>1, <3>2 DEF MemoryTypes
  <2>5. writing'.state = "DATA" /\ writing'.owner = n
    BY <1>1, <2>3
  <2>6. WritesCounted' /\ BeatsMatch'
    <3> SUFFICES ASSUME NEW p \in Ports
                 PROVE  /\ open[p].wr = writeQ'[p].aw + writeQ'[p].b + AtWrite(p)'
                        /\ writeQ'[p].w + BeatBehind(p) =
                              writeQ'[p].aw + BeatAhead(p) + BeatDue(p)'
      BY <1>3 DEF WritesCounted, BeatsMatch
    <3>1. AtWrite(p) = 0 /\ BeatDue(p) = 0
      BY <2>3 DEF AtWrite, BeatDue, One
    <3>2. AtWrite(p)' = (IF p = n THEN 1 ELSE 0) /\ BeatDue(p)' = (IF p = n THEN 1 ELSE 0)
      BY <2>5 DEF AtWrite, BeatDue, One
    <3>3. writeQ'[p] = IF p = n THEN [writeQ[p] EXCEPT !.aw = @ - 1] ELSE writeQ[p]
      BY <1>1, <2>3
    <3>4. /\ writeQ'[p].aw = writeQ[p].aw - (IF p = n THEN 1 ELSE 0)
          /\ writeQ'[p].w = writeQ[p].w /\ writeQ'[p].b = writeQ[p].b
      BY <1>1, <3>3
    <3>5. /\ writeQ[p].aw \in Nat /\ writeQ[p].w \in Nat /\ writeQ[p].b \in Nat
      BY Fields
    <3>6. /\ open[p].wr = writeQ[p].aw + writeQ[p].b
          /\ writeQ[p].w + BeatBehind(p) = writeQ[p].aw + BeatAhead(p)
      BY <1>3, <1>4, <3>1, <3>5
    <3> QED
      BY <1>3, <3>2, <3>4, <3>5, <3>6
  <2>7. OwnerServed'
    BY <1>1, <2>3 DEF OwnerServed
  <2>8. IdleIsTrue'
    BY <2>2 DEF IdleIsTrue, NothingUnderWay
  <2> QED
    BY <1>3, <2>8, <2>4, <2>6, <2>7
<1>6. CASE WriteBeat
  <2>1. /\ writing.state = "DATA" /\ writeQ[q].w > 0 /\ slice' = q /\ q \in Ports
        /\ writing' = [writing EXCEPT !.state = "RESP"]
        /\ writeQ' = [writeQ EXCEPT ![q].w = @ - 1]
    BY <1>1, <1>6 DEF WriteBeat
  <2>2. MemoryTypes'
    <3>1. writing' \in [state : {"IDLE", "DATA", "RESP"}, owner : Ports, prefer : Ports,
                        at : Ports \cup {"none"}, data : Ports \cup {"none"}, home : {TRUE}]
      BY <1>1, <2>1
    <3>2. writeQ' \in [Ports -> [aw : Nat, w : Nat, b : Nat]] /\ slice' \in Ports \cup {"none"}
      BY <2>1, WriteQueueMoves DEF MemoryTypes
    <3> QED
      BY <3>1, <3>2 DEF MemoryTypes
  <2>3. WritesCounted' /\ BeatsMatch'
    <3> SUFFICES ASSUME NEW p \in Ports
                 PROVE  /\ open[p].wr = writeQ'[p].aw + writeQ'[p].b + AtWrite(p)'
                        /\ writeQ'[p].w + BeatBehind(p) =
                              writeQ'[p].aw + BeatAhead(p) + BeatDue(p)'
      BY <1>3 DEF WritesCounted, BeatsMatch
    <3>1. BeatDue(p) = IF p = q THEN 1 ELSE 0
      BY <2>1 DEF BeatDue, One
    <3>2. AtWrite(p)' = AtWrite(p) /\ BeatDue(p)' = 0
      BY <1>1, <2>1 DEF AtWrite, BeatDue, One
    <3>3. writeQ'[p] = IF p = q THEN [writeQ[p] EXCEPT !.w = @ - 1] ELSE writeQ[p]
      BY <1>1, <2>1
    <3> QED
      BY <1>1, <1>3, <1>4, <3>1, <3>2, <3>3
  <2>4. OwnerServed'
    BY <1>1, <2>1 DEF OwnerServed
  <2>5. IdleIsTrue'
    BY <2>1 DEF IdleIsTrue, NothingUnderWay
  <2> QED
    BY <1>3, <2>5, <2>2, <2>3, <2>4
<1>7. CASE SliceBeat
  <2>1. /\ slice \in Ports /\ slice' = "none" /\ writing' = [writing EXCEPT !.data = slice]
        /\ writeQ' = writeQ
    BY <1>7 DEF SliceBeat, MemoryTypes
  <2>2. MemoryTypes'
    <3>1. writing' \in [state : {"IDLE", "DATA", "RESP"}, owner : Ports, prefer : Ports,
                        at : Ports \cup {"none"}, data : Ports \cup {"none"}, home : {TRUE}]
      BY <1>1, <2>1
    <3>2. writeQ' \in [Ports -> [aw : Nat, w : Nat, b : Nat]] /\ slice' \in Ports \cup {"none"}
      BY <2>1 DEF MemoryTypes
    <3> QED
      BY <3>1, <3>2 DEF MemoryTypes
  <2>3. WritesCounted' /\ BeatsMatch'
    BY <1>1, <1>3, <2>1 DEF WritesCounted, BeatsMatch, AtWrite, BeatDue
  <2>4. OwnerServed'
    BY <1>1, <2>1 DEF OwnerServed, Ports
  <2>5. IdleIsTrue'
    BY <2>1 DEF IdleIsTrue, NothingUnderWay
  <2> QED
    BY <1>3, <2>5, <2>2, <2>3, <2>4
<1>8. CASE WriteAnswer
  <2>1. /\ writing.state = "RESP" /\ q \in Ports /\ writing.at = q /\ writing.data = q
        /\ slice = "none" /\ slice' = slice
    BY <1>1, <1>8 DEF WriteAnswer, OwnerServed
  <2>2. /\ writing' = [writing EXCEPT !.state = "IDLE", !.prefer = OtherPort(q),
                            !.at = "none", !.data = "none", !.home = TRUE]
        /\ writeQ' = [writeQ EXCEPT ![q].b = @ + 1]
    BY <1>1, <1>8, <2>1 DEF WriteAnswer
  <2>3. MemoryTypes'
    <3>1. writing' \in [state : {"IDLE", "DATA", "RESP"}, owner : Ports, prefer : Ports,
                        at : Ports \cup {"none"}, data : Ports \cup {"none"}, home : {TRUE}]
      BY <1>1, <2>1, <2>2 DEF OtherPort, Ports
    <3>2. writeQ' \in [Ports -> [aw : Nat, w : Nat, b : Nat]] /\ slice' \in Ports \cup {"none"}
      BY <2>1, <2>2, WriteQueueMoves DEF MemoryTypes
    <3> QED
      BY <3>1, <3>2 DEF MemoryTypes
  <2>4. WritesCounted' /\ BeatsMatch'
    <3> SUFFICES ASSUME NEW p \in Ports
                 PROVE  /\ open[p].wr = writeQ'[p].aw + writeQ'[p].b + AtWrite(p)'
                        /\ writeQ'[p].w + BeatBehind(p) =
                              writeQ'[p].aw + BeatAhead(p) + BeatDue(p)'
      BY <1>3 DEF WritesCounted, BeatsMatch
    <3>1. AtWrite(p) = (IF p = q THEN 1 ELSE 0) /\ BeatDue(p) = 0
      BY <2>1 DEF AtWrite, BeatDue, One
    <3>2. AtWrite(p)' = 0 /\ BeatDue(p)' = 0
      BY <1>1, <2>2 DEF AtWrite, BeatDue, One
    <3>3. writeQ'[p] = IF p = q THEN [writeQ[p] EXCEPT !.b = @ + 1] ELSE writeQ[p]
      BY <1>1, <2>2
    <3> QED
      BY <1>1, <1>3, <1>4, <3>1, <3>2, <3>3
  <2>5. OwnerServed'
    BY <1>1, <2>1, <2>2 DEF OwnerServed
  <2>6. IdleIsTrue'
    BY <2>1 DEF IdleIsTrue, NothingUnderWay
  <2> QED
    BY <1>3, <2>6, <2>3, <2>4, <2>5
<1> QED
  BY <1>5, <1>6, <1>7, <1>8 DEF WriteHalf

LEMMA StutterKeepsPorts == ASSUME PortInv, UNCHANGED memoryVars PROVE PortInv'
BY DEF memoryVars, PortInv, MemoryTypes, ReadsCounted, WritesCounted, BeatsMatch, AtRead,
       AtWrite, BeatDue, BeatAhead, BeatBehind, One, OwnerServed, IdleIsTrue, NothingUnderWay

(* Whatever the converters and DDR0 do, and however many accesses the ports  *)
(* have under way, an answer goes to the port that asked, a store is answered *)
(* with its own data in DDR0, and the bus is said to be idle only when it is. *)
THEOREM AccessesComeHome == MemorySpec => []AccessesLand
<1>1. MemoryInit => PortInv
  BY StartsAtRest
<1>2. PortInv /\ [MemoryNext]_memoryVars => PortInv'
  <2> SUFFICES ASSUME PortInv, [MemoryNext]_memoryVars PROVE PortInv'
    OBVIOUS
  <2>1. CASE MemoryCoreEdge
    BY <2>1, CoreEdgeKeeps
  <2>2. CASE MemoryUiEdge
    BY <2>2, ReadHalfKeeps, WriteHalfKeeps DEF MemoryUiEdge
  <2>3. CASE UNCHANGED memoryVars
    BY <2>3, StutterKeepsPorts
  <2> QED
    BY <2>1, <2>2, <2>3 DEF MemoryNext
<1>3. PortInv => AccessesLand
  BY DEF PortInv, MemoryTypes, IdleIsTrue, AccessesLand
<1> QED
  BY <1>1, <1>2, <1>3, PTL DEF MemorySpec
=============================================================================
