----------------------------- MODULE MemoryPort -----------------------------
(* How the cores reach DDR0: fetch and load-store port of EH2, the clock and *)
(* width converters, the arbiter that shares the memory between the two      *)
(* ports (rtl/ddr/axi_burst_arbiter_2x1.sv), the register slice of the write *)
(* data, and the level that tells the controller that the bus is idle        *)
(* (rtl/eh2logcomp_system_top.sv).  All IDs are zero behind the converters:  *)
(* only the owner the arbiter holds tells whose an answer is.  The cores'    *)
(* bursts have one beat, and fetches never write.  An access is known by its *)
(* port alone.                                                               *)
EXTENDS Integers

CONSTANTS MaxReads, MaxWrites   \* a port asks again while fewer are under way

(* So the eight bits of the counters never wrap.                             *)
ASSUME MemoryAssumption == MaxReads \in 0..254 /\ MaxWrites \in 0..254

VARIABLES
    command,   \* core clock: per port, the channels whose valid is up
    open,      \* ifu_ and lsu_ rd_outstanding and wr_outstanding
    busIdle,   \* eh2_axi_idle_core
    readQ, writeQ,   \* what the converters hold of each channel, per port
    reading,   \* UI clock: read side of the arbiter, and the read DDR0 serves
    writing,   \* the same of the write side, with the data DDR0 has got
    slice      \* the port whose beat is in the register slice, or "none"

memoryVars == <<command, open, busIdle, readQ, writeQ, reading, writing, slice>>

Ports == {"ifu", "lsu"}
OtherPort(p) == IF p = "ifu" THEN "lsu" ELSE "ifu"

MemoryInit ==
    /\ command = [p \in Ports |-> {}] /\ open = [p \in Ports |-> [rd |-> 0, wr |-> 0]]
    /\ busIdle = FALSE
    /\ readQ = [p \in Ports |-> [ar |-> 0, r |-> 0]]
    /\ writeQ = [p \in Ports |-> [aw |-> 0, w |-> 0, b |-> 0]]
    /\ reading = [state |-> "IDLE", owner |-> "ifu", prefer |-> "ifu",
                  at |-> "none", home |-> TRUE]
    /\ writing = [state |-> "IDLE", owner |-> "ifu", prefer |-> "ifu",
                  at |-> "none", data |-> "none", home |-> TRUE]
    /\ slice = "none"

-----------------------------------------------------------------------------
(* Core clock.  A port offers one command at a time; address and data of a   *)
(* store are taken in any order.                                             *)
Issues(p) ==
    {{}} \cup {c \in {{"ar"}} : open[p].rd < MaxReads}
         \cup {c \in {{"aw", "w"}} : p = "lsu" /\ open[p].wr < MaxWrites}

MayGo(p) == command[p] \cup {c \in {"r"} : readQ[p].r > 0}
                       \cup {c \in {"b"} : writeQ[p].b > 0}

(* Slip: a handshake of the answer hides one of the address.                 *)
AnswerFirst(n, up, down) == IF down THEN n - 1 ELSE IF up THEN n + 1 ELSE n
CountNext(n, up, down) ==
    IF up /\ ~down THEN n + 1 ELSE IF down /\ ~up THEN n - 1 ELSE n

BusIdleNow == \A p \in Ports : open[p].rd = 0 /\ open[p].wr = 0 /\ command[p] = {}

One(condition) == IF condition THEN 1 ELSE 0

CommandNext(p, go) == IF command[p] \ go = {} THEN Issues(p) ELSE {command[p] \ go}

Both(ifu, lsu) == [p \in Ports |-> IF p = "ifu" THEN ifu ELSE lsu]

PortEdge(go) ==
    /\ open' = [p \in Ports |->
                   [rd |-> CountNext(open[p].rd, "ar" \in go[p], "r" \in go[p]),
                    wr |-> CountNext(open[p].wr, "aw" \in go[p], "b" \in go[p])]]
    /\ busIdle' = BusIdleNow
    /\ readQ' = [p \in Ports |-> [ar |-> readQ[p].ar + One("ar" \in go[p]),
                                  r  |-> readQ[p].r - One("r" \in go[p])]]
    /\ writeQ' = [p \in Ports |-> [aw |-> writeQ[p].aw + One("aw" \in go[p]),
                                   w  |-> writeQ[p].w + One("w" \in go[p]),
                                   b  |-> writeQ[p].b - One("b" \in go[p])]]
    /\ UNCHANGED <<reading, writing, slice>>

MemoryCoreEdge ==
    \E ifu \in SUBSET MayGo("ifu"), lsu \in SUBSET MayGo("lsu") :
        /\ \E ifuNext \in CommandNext("ifu", ifu), lsuNext \in CommandNext("lsu", lsu) :
              command' = Both(ifuNext, lsuNext)
        /\ PortEdge(Both(ifu, lsu))

-----------------------------------------------------------------------------
(* UI clock.  A converter shows a request at some edge after it came in; the *)
(* two sides of the arbiter share nothing.                                   *)
Chosen(valid, prefer) ==
    IF valid = Ports THEN prefer ELSE IF "lsu" \in valid THEN "lsu" ELSE "ifu"

ReadAddress ==
    /\ reading.state = "IDLE"
    /\ \E valid \in (SUBSET {p \in Ports : readQ[p].ar > 0}) \ {{}} :
          LET p == Chosen(valid, reading.prefer)
          IN  /\ reading' = [reading EXCEPT !.state = "DATA", !.owner = p, !.at = p]
              /\ readQ' = [readQ EXCEPT ![p].ar = @ - 1]

ReadAnswer ==
    /\ reading.state = "DATA"
    /\ reading' = [reading EXCEPT !.state = "IDLE", !.prefer = OtherPort(reading.owner),
                                  !.at = "none", !.home = @ /\ reading.at = reading.owner]
    /\ readQ' = [readQ EXCEPT ![reading.owner].r = @ + 1]

WriteAddress ==
    /\ writing.state = "IDLE"
    /\ \E valid \in (SUBSET {p \in Ports : writeQ[p].aw > 0}) \ {{}} :
          LET p == Chosen(valid, writing.prefer)
          IN  /\ writing' = [writing EXCEPT !.state = "DATA", !.owner = p, !.at = p]
              /\ writeQ' = [writeQ EXCEPT ![p].aw = @ - 1]
    /\ slice' = slice

(* The arbiter goes on when the slice has the beat; DDR0 gets it later.      *)
WriteBeat ==
    /\ writing.state = "DATA" /\ writeQ[writing.owner].w > 0 /\ slice = "none"
    /\ slice' = writing.owner
    /\ writing' = [writing EXCEPT !.state = "RESP"]
    /\ writeQ' = [writeQ EXCEPT ![writing.owner].w = @ - 1]

SliceBeat ==
    /\ slice # "none" /\ slice' = "none"
    /\ writing' = [writing EXCEPT !.data = slice]
    /\ writeQ' = writeQ

WriteAnswer ==
    /\ writing.state = "RESP" /\ writing.data # "none"
    /\ writing' = [writing EXCEPT !.state = "IDLE", !.prefer = OtherPort(writing.owner),
                      !.at = "none", !.data = "none",
                      !.home = @ /\ {writing.at, writing.data} = {writing.owner}]
    /\ writeQ' = [writeQ EXCEPT ![writing.owner].b = @ + 1]
    /\ slice' = slice

ReadHalf == ReadAddress \/ ReadAnswer
WriteHalf == WriteAddress \/ WriteBeat \/ SliceBeat \/ WriteAnswer

(* An edge at which both sides move is two at which one of them moves.       *)
MemoryUiEdge ==
    /\ \/ ReadHalf /\ UNCHANGED <<writeQ, writing, slice>>
       \/ WriteHalf /\ UNCHANGED <<readQ, reading>>
    /\ UNCHANGED <<command, open, busIdle>>

MemoryNext == MemoryCoreEdge \/ MemoryUiEdge
MemorySpec == MemoryInit /\ [][MemoryNext]_memoryVars

-----------------------------------------------------------------------------
(* Nothing is under way between the cores and DDR0.                          *)
NothingUnderWay ==
    /\ \A p \in Ports : /\ readQ[p].ar = 0 /\ readQ[p].r = 0
                        /\ writeQ[p].aw = 0 /\ writeQ[p].w = 0 /\ writeQ[p].b = 0
    /\ reading.state = "IDLE" /\ writing.state = "IDLE" /\ slice = "none"

(* Each answer goes to the port whose access it answers, and each store has  *)
(* its own data (axi_burst_arbiter_2x1.sv:4-6); and while the bus is said to *)
(* be idle, no access that was begun is still on its way: the controller     *)
(* resets the cores on that word, and hands DDR0 over.                       *)
AccessesLand ==
    /\ reading.home /\ writing.home
    /\ busIdle => NothingUnderWay
=============================================================================
