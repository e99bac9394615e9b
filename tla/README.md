# A TLA+ verification of the EH2 evaluation board

The repository holds an FPGA system that runs a RISC-V program on a two-hart
VeeR EH2 core, records every retired instruction in DDR memory, and sends the
log over Ethernet to a host, which compares it with a reference simulator. The
current design is `src/eh2logcomp`; the other directories are its predecessors
and vendored IP. This project models the part of it in which ordering, clock
domains and hand-over decide whether a session is right: the controller and
what it steers, the capture of instructions and the path of the log into DDR1, its
path from DDR1 to the network, the cores' way to their memory, the path of the status
codes, the threads of the host program that runs round after round, and the comparison
in which a round ends.

Contents:
[1 Inventory](#1-inventory) ·
[2 Modules](#2-modules-and-the-code) ·
[3 Properties](#3-properties) ·
[4 Runs and bounds](#4-runs-bounds-and-what-they-show) ·
[5 Fairness and timing](#5-fairness-and-timing-assumptions) ·
[6 Proofs](#6-proofs) ·
[7 Disagreements](#7-where-the-code-and-its-documents-disagree) ·
[8 Not modelled](#8-what-is-not-modelled) ·
[9 Plan](#9-plan)

Paths below are relative to `src/eh2logcomp/`; `ctl` is
`rtl/control/eh2_system_controller.sv`, `top` is `rtl/eh2logcomp_system_top.sv`.

## 1 Inventory

### Clocks

| clock | frequency | what runs on it |
|---|---|---|
| ctrl | 100 MHz | controller, program receive path, decoder, error monitor |
| core | 50 MHz | EH2, instruction capture, write side of the log FIFO |
| UI | 266.525 MHz | DDR engines, log write DMA, log dump (reading side) |
| TX | 125 MHz | frame FIFO output, formatters, arbiter, MAC |

Nothing is shared between two of them except through `sync_bits` (a chain of two
or three registers), `event_toggle_cdc` (a toggle, a chain and an edge
detector), asynchronous FIFOs, and data that is *promised* to be stable.

### Components

| component | state | operations | talks to | hard part | must hold |
|---|---|---|---|---|---|
| controller (`ctl`) | state, phase, end snapshot, hart tracker, drain target, error code | six states, about forty phases, watchdog, replay, error and reset overrides | everything, by pulses and levels | pulses that come early, stale levels, memory ownership as a pure function of the phase | memories change hands when idle; only whole programs run; the host hears the protocol |
| program receive path (`rtl/eth/program_*`, classifier, decoder) | sequence, DataMover transfer, counts, decoded pulses | route, check, command, move, status; decode end and control frames | controller, DDR0 | counts and `dma_busy` change on different edges; frames may be lost | each accepted frame is stored once, in its place |
| information path (`rtl/eth/system_info_tx_*`) | 16-entry code FIFO, acknowledgement toggle | push, send, acknowledge | controller, arbiter | full flag, acknowledgement after the last byte | codes leave in order, once |
| MAC counters (`top`, `ethernet_subsystem.sv`) | submitted, completed | count | controller | two counters, two crossings, wrap | the barrier is real |
| DDR engines (`rtl/ddr`) | start hold, busy, done, verdict | pattern generator, two checkers, zero fill | controller | sticky done, bits synchronised one by one | the verdict is the memory's |
| cores and capture (`rtl/eh2`, `rtl/info/instr_*`) | started, stopped, pending records | init, run, stop on a store to a marker | controller, log FIFO, DDR0 | the stop is visible before its store lands; write-after-write cancellation | one record per instruction |
| ping-pong FIFO and write DMA (`rtl/info`, `rtl/ddr`) | four banks with an owner each | fill, freeze, claim, drain, release, flush | capture, DDR1 | release and fill on one edge, flush before empty | no record is lost before "all written" |
| log dump (`rtl/eth/info_log_dump_subsystem.sv`) | sequencer, reservations | plan, read, build, drain, completion frame | DDR1, arbiter | two clocks, back-pressure, short tails | both logs, in order, each closed by its own completion frame |
| two-slot frame FIFO (`rtl/eth/info_tx_frame_fifo_2slot.sv`) | two slots with toggles | build, fill, publish, send, release | dump, arbiter | unsynchronised reads of the slot memory | a queue of whole frames |
| read DMA (`rtl/ddr/info_ddr_read_dma.sv`) | address, burst, index | plan, address, data, pad | DDR1, FIFO | 4 KiB pages, lines never written | legal bursts only |
| memory port (`axi_burst_arbiter_2x1.sv`, `axi_w_channel_register_slice.sv`, `top:1122-1169`) | owner of each side, outstanding counters, idle level | grant, beat, answer, count | cores, DDR0, controller | one ID for both ports, data apart from its address, counts up and down in one edge | an answer goes home; idle means idle |
| transmit arbiter, MAC (`rtl/eth`) | source of the frame under way | grant, switch between frames | all frame sources | log preference, a frame never split | every source is served |
| error monitor, reset supervisor | first error; 64-clock stretch | latch, reset | controller | several errors at once | the first one is reported |
| host automation (`webui/eh2web/automation.py`) | round, flags, worker threads | react to status codes, poll the VM, compare, discard a round | board, VM | five kinds of threads that give up the lock between test and act; late codes of an old epoch | rounds follow one another; no failure without cause |
| trace comparator (`webui/eh2web/comparator.py`) | a byte per sequence number, counts per hart, verdict | read the log once, frame by frame and slot by slot | log file, simulator's stream | records out of order, cancelled results, padding, counts of the completion frame | PASS only of a log with one true record per instruction, FAIL only of a log with a fault |
| host service (`webui/eh2web/service.py`), session | board state, sender, reset watchdog, capture files | receive, check continuity, send, reset and repeat it | automation, network | a lost frame or reset, codes overtaking states | the log judged is the whole log of its round |

### How they interact

A session: bring-up, receive test of one frame and read-back of both memories
(PRECONFIG); zero fill (READY); program over Ethernet (PROGRAM_WRITE); run with
the log going to DDR1 (EXECUTE); dump of the log, possibly again on request (END);
global reset. Any failure leads to ERROR, which sends one code and waits for a
reset by the host. The controller owns the two memories: `ctl:138-179` derives the
owner of each from state and phase alone, and the multiplexers follow that
level without asking whether a transaction is under way.

## 2 Modules and the code

| module | models | how |
|---|---|---|
| `ClockCrossing` | `rtl/common/sync_bits.sv`, `event_toggle_cdc.sv` | chains of registers as tuples, shifted by the destination's edge; source toggle and destination pulse |
| `InfoTxFrameFifo` | the two-slot frame FIFO | one operator per process: `UiStep` for a UI edge, `TxStep` for a TX edge, with one action per transmit state; a record is a value, a frame its words |
| `FrameFifoSpec` | the same with any legal builder and any clocks | either clock ticks next, with no ratio assumed |
| `FrameQueue` | *abstract*: a queue of at most two whole frames | what the FIFO implements |
| `InfoReadDma` | read DMA and its two-entry elastic | one action per state |
| `InfoLogDump` | the dump subsystem: sequencer, DMA, FIFO, formatter and crossings | all UI registers move on `UiEdge`, all TX registers on `TxEdge`; between two TX edges there are `MinUiEdges..MaxUiEdges` UI edges |
| `InfoDumpService` | *abstract*: on request send exactly these frames, then complete | what the dump implements |
| `InfoLogDumpProperties` | properties of the dump | |
| `InfoFifoPingpong` | `rtl/info/info_fifo_pingpong_4w2r.sv` | the registers of one FIFO as a record per clock; `CoreStep` and `UiStep` are one edge of each |
| `InfoWriteDma` | `rtl/ddr/info_ddr_pingpong_write_dma.sv` | one action per state, `DmaStep` their disjunction |
| `InfoLogWrite` | `top` from the capture block to DDR1: core queue, both FIFOs with their crossings, beat queue, DMA, memory | all core registers move on `CoreEdge`, all UI registers on `UiEdge`; between two core edges there are `MinUiEdges..MaxUiEdges` UI edges |
| `RecordLog` | *abstract*: each hart's log grows in order, and "complete" is said once it is | what the log path implements |
| `InfoLogWriteProperties` | properties of the log path | |
| `HostCodes` | the status codes and what a listener remembers of them | |
| `SystemController` | `ctl`, one operator per phase | `ControllerStep(in)` is one clock edge with sampled inputs `in`; the record `ctl` holds the registers |
| `ProgramReceiver` | classifier, DataMover control, decoder, counts | record `rx`; `RxEdge` ends the one-clock pulses |
| `EvaluationSystem` | the session: controller, receiver, information path, MAC, engines, cores, dump, monitor, and the host | `Tick` is an edge of the controller clock; every other actor is an action between two edges |
| `HostProtocol` | *abstract*: the order of frames a listener may hear | what the session implements |
| `EvaluationProperties` | properties of the session | |
| `EvaluationInvariants` | parts of the session's inductive invariants | what holds between the controller and the rest of the board, most of it while the session is `Alive`: not in ERROR, no reset on its way; and what a listener will hear |
| `ControllerMoves` | which branches the controller's phase actions can take | one line per branch, with the codes, pulses and counters it changes; proved of `SystemController` and used in the proofs instead of its assignments |
| `InstrCapture` | `rtl/info/instr_info_capture_dual_hier.sv`, `instr_info_capture_hart_bank.sv`, and the write-back interface of the EH2 decoder they listen to | one action per core edge (`CaptureEdge`): what retires, which late result arrives, which half of a store leaves; `BankStep` is one bank register process |
| `EngineHandshake` | `top:438-529` and `rtl/ddr/ddr_fill_master.sv` | `ControlEdge` and `FillUiEdge`, one operator per state of the fill; done and error are synchronised bit by bit |
| `TransmitPath` | `system_info_tx_cdc.sv`, `system_info_tx_fifo.sv`, the two asynchronous queues, `system_tx_arbiter.sv` | `PushEdge` and `MacEdge`; what an asynchronous queue shows to the other side lags by up to `CrossEdges` edges |
| `MemoryPort` | the cores' two AXI ports, their counters and idle level, arbiter and write slice | `MemoryCoreEdge` and `MemoryUiEdge`; the converters between the clocks are counts of what they hold of each channel |
| `TraceComparator` | `compare_fpga` of `webui/eh2web/comparator.py` | one action per kind of input: frame header, padding, record, completion frame, unreadable frame, end of the log; what was read is kept in the history `trace` |
| `SeparateUnits` | the five modules above and `FrameFifoSpec` as a disjoint union | they share no state with one another, so a behaviour is one of one `unit`, chosen at the start, and each is explored in full without a product of their states |
| `HostAutomation` | `automation.py` and the part of `service.py` it drives | one action per stretch of code between two points where a thread gives up the lock; the board and the VM are the environment |
| `FrameFifoProofs`, `InfoLogDumpProofs`, `InfoLogWriteProofs`, `EvaluationProofs`, `DataMemoryProofs`, `TransmitPathProofs`, `InstrCaptureProofs`, `HostProofs` | theorems | section 6; `DataMemoryProofs` is on `EngineHandshake` and `MemoryPort`, `HostProofs` on `HostAutomation` and `TraceComparator` |
| `MC_*` | values of the constants for TLC | |

Two properties of the translation matter for reading it. A register is read at
its value before the edge and written for after it, as nonblocking assignments do:
later assignments of the same edge override earlier ones, so an operator such as
`Latched` gives the registers after the lines before the `case`, and the phase
operators change that record. And the clock crossings are not abstracted where
they can hurt: in `InfoLogDump` every stage of every chain is a variable; in
`EvaluationSystem` a signal that takes several controller edges to become visible
does so (`cores.idle`, `dump.sync`, `mac.sync`).

Definitions marked *Slip* beside a definition are the same definition with a
plausible mistake; they serve to show that each property can fail.

Abstractions: a log record is the pair of hart and position; an instruction, an
address or a MAC header has no bits. A UI start of the dump is an environment choice
in `InfoLogDump`; in `EvaluationSystem` the whole dump is *start, `LogFrames` frames,
done*, which is what `InfoDumpService` promises. The two hand-shakes of
`system_info_tx_cdc.sv` are one step. Counters with a width that matters (the MAC
counters) wrap at `Counts`; the watchdog and the drain timer count to
`ProgramTimeout` and `DrainTimeout` instead of 20 s and 10 ms.

In `InfoLogWrite` a record is its number; the capture block delivers any bundle of
up to `WritePorts` records and ends at any time. The vendor FIFO of a bank
is the records in it and a count the read side sees with a delay: for `CountLag` edges
after a bank is picked it reads any value between the last one and the true one. A level that
changed with the last core edge may be caught or missed by the first register of its
chain, each on its own (`Moving`, `Seen`). The end of capture reaches the banks in
three stages and the DMA's completion in two; the model takes the second stage of the
one chain for the latter.

In `InstrCapture` the core is a model of what its decoder promises (which writes are
cancelled, which results come late, one divide at a time); a hart that has stored the marker only
retires instructions without a result from then on (the test program ends in an idle
loop), and loads do not end in a bus error. A store to the stop address may hold the marker or another value: the
address half of either sets the pending hart, since the code matches the address alone (`strayed`).
At most one record per edge is refused by the log path. A record that
contradicts the instruction it stands for is noted in the history `story`.

In `MemoryPort` an access is known by its port alone. Bursts have one beat, fetches never
write (both are ties to zero in the core: `eh2_lsu_bus_intf.sv`, `eh2_ifu_mem_ctl.sv`), the two halves of a store stay
offered until each is taken, and the converters keep the order of a channel. Since the two sides of the
arbiter share nothing, an edge at which both move is two at which one moves.

In `TraceComparator` PC, instruction word and privilege are one value, `what`; a frame that cannot be
parsed at all (length, addresses, frame type, reserved bits) is one kind of input. Header and completion
counts are the right ones or up to `MaxOff` above.

In `HostAutomation` a log frame is good or lost; the result of a
comparison, the program's content and the display are left out. A round's history is what
its thread has done so far (`history`). Of the capture file the model keeps what it holds, whether it is closed, and
whether a failed VM job has unlinked it while it was empty (`removed`).

The end frame of the program carries its total; that a frame which did arrive is
intact is the MAC's FCS filter, not modelled. A lost frame is one that never arrives.

## 3 Properties

Two-slot FIFO (`FrameFifoSpec`):

* `SlotExclusive`: inside a frame the transmitter reads a reserved, complete slot
  the builder will not touch. The slot memory crosses without a synchroniser, so
  this is what makes it legal.
* `ImplementsFrameQueue`: no frame is torn, lost, repeated or overtaken.
* `SlotComesBack`: a builder waiting for its next slot gets it.

Dump (`InfoLogDumpProperties`):

* `DataFramesInOrder`, `CompletionFramesTrue`: the frames the MAC takes are the
  expected ones; the second says hart and total of each completion frame are right.
* `NoSpuriousError`: with a correct memory none of the four error causes rises.
* `DrainIsReal`: the reservation counter is the number of reserved slots, so its
  zero means empty on *both* sides of the crossing; so the completion formatter never takes
  the port in mid-frame.
* `BurstsLegal`: bursts stay in their page and on lines that were written.
* `ImplementsDumpService`: on request exactly the expected frames, then complete.
* `DumpCompletes`: liveness.

Log path (`InfoLogWriteProperties`):

* `RingOrder`: writer and reader choose banks each for itself. As long as records come,
  the banks to be read follow the reader's pointer without a gap and the one being filled is
  next. Nothing in the code compares the two pointers.
* `BankHandedOver`: while the DMA holds a bank, and until its release has crossed, the
  writer does not touch it; a bank it may fill holds what it counts, nothing from before.
* `BatchIsExact`: the count offered with a bank is what was frozen in it. It is taken
  from the macro's own read count, which crosses on its own and may lag.
* `AllWrittenIsReal`: "all writes done" sends the controller on to the dump. By then every
  record is in DDR1 and counted, those of a bank frozen at the very end included.
* `FailedNeverComplete`: after a failed burst or a full region it is never said.
* `BurstsLegal`: bursts stay in their page and in the region of their hart.
* `ImplementsRecordLog`: records arrive in order, once each, and complete is final.
* `EveryRecordWritten`: liveness; no bank is stranded.

Session (`EvaluationProperties`):

* `MemoryHandover`: a memory changes owner only when its master is done.
* `ExecutesWholeProgram`: released cores find the complete image, whatever was lost.
* `StoresLanded`: the last stores have landed before the cores are reset.
* `BarrierHolds`: a replay is announced only when all earlier frames have left.
* `CoresOwnMemory`: released cores own DDR0, and DDR1 takes their log.
* `FirstErrorKept`: the first error is reported, and only a reset leads on.
* `BadMemoryStops`: only two good memories pass the memory check, however the bits of a checker's event part.
* `GoodMemoryPasses`: only a bad memory fails it. It is violated: section 7.
* `OneReplayPerRequest`: one request, one replay.
* `ImplementsHostProtocol`: every sequence of frames heard is one of `HostProtocol`.
* `SessionConcludes`, `ReplayServed`: liveness.

Units of the board, and the comparator (`SeparateUnits`):

* `OneRecordEach`: each retired instruction of a running hart that was not stopped ahead of its own marker (`Misled`) has one record, in its place,
  with its own result, its cancellation, or the number of the instruction that cancelled it. Unless a
  record was refused, the core's own legal sequences never raise an overflow or a missing cause, nor, with fewer
  registers than slots, a conflict.
* `HandsOff`: no conflict either with as many registers as slots. It is violated: section 7.
* `StopsOnItsOwnMarker`: a hart is stopped after its own marker has been processed, or it has itself stored
  another value at the marker's address.
* `ZeroedIsZero`: the controller leaves READY on a done of the fill it asked for, and every line
  is zero then (unless the error bit of that very edge is still on its way, see section 7).
* `RequestAnswered`: a start that is held is answered.
* `FramesWhole`: a frame begun on the line is finished with its own bytes.
* `CodesConfirmedOnce`, `EveryCodeConfirmed`: each pushed status code leaves once, in order, and is
  acknowledged as itself; none is lost or waits for ever.
* `AccessesLand`: an answer goes to the port that asked, a store is answered when its own data is
  in DDR0, and while the bus is called idle no access is on its way. The controller resets
  the cores and hands DDR0 over on that level.
* `VerdictIsTrue`: the comparator says FAIL exactly if some entry of the log is at fault by what the log
  itself says (not by the comparator's counters), and PASS only if each hart has exactly one
  record of every instruction the simulator retired, each with its result or overwritten by a
  younger one.

Host (`HostAutomation`):

* `ComparesOwnLog`: what is compared is the whole log of the round it is compared for.
* `FailsForCause`: the session ends in failure only for a failure of board, cores, disk or launch,
  never because a lost frame, a lost reset or a failed VM job left its threads out of step, although
  codes of a discarded epoch keep arriving; with one exception, which needs a failed VM job and a lost
  frame: the capture file that the report of the loss needs has been removed (section 7, item 12).
* `RoundsGoOn`: a started round concludes and the next one begins, unless the session was stopped,
  the reset and all its retries were lost (`GivenUp`), or a reset was lost in the one way nobody
  notices (`Stalled`, section 7).

`SessionConcludes` names the controller's silent waits: with the test frame, its end
frame or all program frames lost, no timer of the board runs
(`ctl:352-358`, `363-369`, `528-534`), and only the host's own timeout ends the
session. They are the disjunct `Stalled`; the run shows that there is no other.

## 4 Runs, bounds and what they show

| run | constants | shows |
|---|---|---|
| `dump` | 2 beats, page of 3, totals {0, 1, 9} per hart, two dumps, 2 or 3 UI edges per TX period | everything but the truth of completion frames |
| `dump_ratio2` | the same, exactly 2 UI edges | also completion frames, refinement, completion, slots that come back |
| `dump_meta` | totals {0, 1}, one dump, 2 or 3 UI edges | violation of `CompletionFramesTrue` |
| `log_write` | 3 banks of 4 records, 3 ports, 17 and 1 records, regions of 8 beats, page of 3, one failed burst, ratio 5 | safety and refinement of the log path |
| `log_write_live` | 2 banks of 2 records, 2 ports, 7 and 1 records, ratio 5 or 6, fairness | the log path comes to an end |
| `session` | 2 program frames, 2 log frames, MAC depth 2, one lost frame, one replay, accesses and operator reset at any time | safety and refinement of the session |
| `live` | 2 program frames, 1 log frame; every engine may fail, the bits of one event may part, an unrelated fault at any edge, one lost frame, one replay, fairness | error handling and liveness |
| `replay` | one replay requested | violation of `OneReplayPerRequest` |
| `skew` | bits of one event may part | violation of `GoodMemoryPasses` |
| `handoff` | one hart, 4 registers and 4 slots, a program of 9 instructions | violation of `HandsOff` |
| `units` | frame FIFO: frames of 2 beats, one record value, one frame number, under every interleaving of the two clocks; capture: 2 harts, 2 registers, 3 record slots, 3 instructions in all; fill: 3 lines in bursts of 2, asked for 3 times, 2 or 3 UI edges per control edge; transmit: 4 codes, 1 log frame, frames of 2 bytes, crossings of 2 edges; memory: a port asks again while nothing is under way; comparator: streams of three and one instructions, frames of 2 slots, 2 frames per hart, records right and wrong in every field, counts off by one | FIFO, capture, memory port and comparator, safety; fill and transmit path, also liveness |
| `host` | 1 hart, 2 rounds, 1 retry, 1 frame on the wire, two lost resets, one lost log frame, one VM failure, one board fault or stop | host threads, safety and liveness |

Why the bounds are enough. *Frames of two beats*: the code distinguishes the first, a
middle and the last word (`ST_LOAD_WORD`, next word, last word); with two beats a
frame has a first and a last word, and two slots are both in use. *One record
value*: contents are moved, never inspected; the blanked half of a short frame and
the hart distinguish frames. *Nine records*: three frames of four, so both slots are
reused and the last frame has an odd tail and padding; *page of 3* makes bursts
split at every position of a frame of 2. *Totals 0 and 1*: an empty log is only a
completion frame, one record is half a beat. *Two dumps*: the second starts from the
sequencer's DONE state with toggles in either polarity. *Counts = 8* is more than
twice the MAC depth, as the code's 32 bits are, and wraps during a session with a
replay. *Two program frames* are the least with a gap inside; *one lost frame* can be
any of test, end or program frames. *ExecuteGuard, IdleGuard, CountGuard*
are 16 control cycles each in the code, cut to what still exceeds the synchronisers they
cover: `IdleGuard` the two stages of the idle level, `CountGuard` the three of the submitted
count. In `live` they are smaller, and `StoresLanded` and `BarrierHolds` are not
claimed there.

`dump` and `dump_ratio2`: 266.525 / 125 is 2.13, so most TX periods hold two UI
edges and about one in eight three.
`dump` and `dump_meta` let the environment choose per period; 
`dump_ratio2` is the system without the third edge, in which the finding of section 7
cannot happen, and separates that finding from everything else.

`log_write` and `log_write_live`: *three banks* of *two beats* are the least in which the order of
the ring can go wrong and a bank has a first and a last beat (the code has four of
equal rank); *17 records* fill the ring, start it again, and leave an odd last bank that does not
fit a region of eight beats, so an overflow is reached as well; one record for the other hart is half a
beat, and its bank competes for the DMA. *WritePorts <= BankRecords*, as 4 and 512 are, so
that an edge crosses at most one bank boundary. *Page of 3* splits bursts within a
bank. *StableCycles 10* and *12* are two core periods, as the proofs need and the code's 32 exceed, and more
than `CountLag` 1; *FlushGuard 2* (7 in the code's three bits) still exceeds the one edge by which the ready and
acknowledge levels may part. *QueueDepth* is twice the ports or more (16 and 4).
266.525 / 50 is 5.33: every core period holds five or six UI edges. In `log_write` the
bounds leave room for five only. *Two banks of one beat*
make the writer wait for nearly every release, which then meets the edge that fills the other bank.

The runs `session` and `live` split one system by cost: `session`
has no failing engine, `live` has neither accesses nor operator resets.

`units`: *two registers* tell a cancellation from an unrelated write; *three slots*, one more than the registers, are the
least with which a late record always finds a place; *three
instructions*, all of one hart or shared by the two, hold a late result, the instruction that cancels it and
one that comes after, or a store that strays to the stop address and the marker of the other hart. *Three lines in bursts of two* have a full and a partial burst;
*three requests* meet the done of an earlier one in every register. *Four codes* fill
the smallest queue. Each depth is small enough that the queues are full. *MaxReads* and
*MaxWrites* stop a port from issuing, not from having more under way: a second command is
offered at the edge at which the first is taken, so a count goes up and down in one edge.
In the comparator, *three instructions in frames of two slots* need a second frame, whose rest
is padding; two of them write one register, so the younger may cancel the older; the set of
records has a true one of each instruction and wrong ones in every field that is compared, among
them each bound of a cancellation. *Counts off by one* are the nearest wrong ones.

`host`: *two rounds* are enough for a code, a thread or a file of one to reach the other;
*one retry* (the code has two) and *two lost resets* for the watchdog to repeat a lost reset, to see the
repetition succeed, and to give up when it is lost as well; a second hart would only
repeat the completion frame of the first.

CHECK_DEADLOCK is on everywhere but in `host` and `handoff`: a clock of the board can always tick, while a session
of the host really ends, and so does the given program of nine instructions that `handoff` runs on the core.

## 5 Fairness and timing assumptions

* `dump_ratio2`: strong fairness of a UI edge at which the memory answers and of a TX
  edge at which the MAC is ready. Strong because the two alternate: neither is enabled
  continuously. DDR controllers answer in bounded time.
* `log_write_live`: weak fairness of each clock and strong fairness of a UI edge at which the
  memory port answers. Nothing forces the end of capture: the property starts there.
* `live`: weak fairness of the clock, of *some* work being done as long as there is any,
  and of an access ending. No fairness of requests, faults, accesses or resets.
  `Work` is one disjunction: its parts are a finite amount of work between two
  inputs of the host, so that each gets done.
* `units`: weak fairness of each clock of the fill and of the transmit path; strong fairness of UI
  edges at which the fill moves (the memory port takes what it is offered) and of MAC
  edges at which a byte is taken; a log frame that was begun becomes complete in its slot.
  The preference between log and codes is not fair; it need not be. Capture, frame FIFO, memory port and
  comparator have safety properties only and no fairness.
* `host`: weak fairness of each group of threads, of the board's next frame and of the VM's next step. No
  fairness of faults, losses or stops.
* `live` also sets `Timely`: engines need less than 20 s and a submitted frame leaves within
  10 ms. Without it a watchdog firing for no reason is an allowed (and reported) end.

Timing that the session model takes from the physics of the board, each named in a
comment where it is used: the host's answer to a status frame comes after the
board's own acknowledgement of that frame (a network round trip against a few
clocks, `Answering`); a dump takes longer than its completion level needs to cross
(`DumpEnds`: at least two completion frames, `ctl:735-738` would otherwise miss the low level);
a host has one command of a kind under way at a time (`Command`).

The host model takes the following from the pace of the outside world: a board that boots takes
seconds, so the workers started for the previous round are at rest by then (`Settled`); the reset
watchdog's period is longer than the board's answer, so it never wakes while an answer is on its way
(`Answering`); a program runs for seconds, so that the thread that started it has returned before the
VM goes on (`VmGoesOn`). Without the last one, a start worker delayed over a whole round would install an
old round over a new one. The sender's test of the state and its lock are one step.

## 6 Proofs

Checked by TLAPS, for every value of the constants:

| theorem | statement | argument |
|---|---|---|
| `FifoInvariant` | `Spec => []FifoInv` | inductive invariant of the FIFO |
| `FifoTypes` | `Spec => []TypeOK` | part of it |
| `FifoExclusive` | `Spec => []SlotExclusive` | from it |
| `QueueInvariant`, `FramesInOrder` | `Spec => ImplementsFrameQueue` | refinement: `QueueInv` beside `FifoInv`, then one step of the queue or a stutter |
| `DrivesTheFifo`, `FifoInsideDump` | `Spec => Frame!Spec` (dump) | the dump is a legal driver of the FIFO: composition |
| `ReadInvariant`, `ReadsStayLegal` | `Spec => []BurstsLegal` (dump) | inductive invariant of sequencer, read DMA and elastic queue |
| `DrainInvariant`, `DrainReal` | `Spec => []DrainIsReal` | inductive invariant of the count and of the completion hand-shake, beside both |
| `ErrorsStayClear` | `Spec => []NoSpuriousError` | from all of them |
| `OrderInvariant`, `FramesComeInOrder` | `Spec => []DataFramesInOrder` | inductive invariant `OrderInv` beside them and the FIFO's `QueueInv` |
| `DumpServes` | `Spec => ImplementsDumpService` | refinement: `DumpInv` beside all of them, then one step of the service or a stutter |
| `OwnerInvariant` | `Spec => []OwnerInv` | inductive invariant of the log path |
| `FailureKept` | `Spec => []FailedNeverComplete` | from it |
| `HandInvariant`, `BanksHandedOver` | `Spec => []BankHandedOver` | inductive invariant of the banks' way to the DMA and back |
| `BatchesExact` | `Spec => []BatchIsExact` | from it |
| `BurstInvariant`, `BurstsStayLegal` | `Spec => []BurstsLegal` (log path) | inductive invariant of the DMA's plan |
| `RingInOrder` | `Paced => (Spec => []RingOrder)` | inductive invariant `RingInv` of the ring beside `HandInv` |
| `LogInvariant`, `WrittenIsReal` | `Paced /\ 1 <= FlushGuard => (Spec => []AllWrittenIsReal)` | inductive invariant `LogInv`: the ring and the numbers of the records in it |
| `RefinesRecordLog` | `Paced /\ 1 <= FlushGuard => (Spec => ImplementsRecordLog)` | refinement: `LogInv`, then one step of the log or a stutter |
| `ExecuteInvariant` | `Spec => []ExecuteInv` | inductive invariant of the session |
| `CoresOwn` | `Spec => []CoresOwnMemory` | from it and the owner tables |
| `ErrorKept` | `Spec => FirstErrorKept` | action property |
| `TypeCorrect` | `Spec => []TypeOK` | part of `SessionInv` |
| `SessionInvariant` | `Spec => []SessionInv` | inductive invariant of controller, receiver, information path, engines, dump and MAC |
| `WholeProgram` | `Spec => []ExecutesWholeProgram` | from it: `Stores` |
| `Handover` | `IdleGuard >= 3 => (Spec => []MemoryHandover)` | from it, `Landing` and `Closed` |
| `StoresLand` | `IdleGuard >= 3 => (Spec => []StoresLanded)` | inductive invariant `Landing` beside it |
| `ReplayBarrier` | `CountGuard >= 3 => (Spec => []BarrierHolds)` | inductive invariant `Barrier` beside it |
| `BadMemory` | `Spec => []BadMemoryStops` | inductive invariant `Verdicts` beside it |
| `SpeechInvariant`, `FollowsProtocol` | `Spec => ImplementsHostProtocol` | refinement: `Speech` beside `SessionInv`, then one step of the protocol or a stutter |
| `EngineInvariant`, `DoneIsItsOwn` | `EngineSpec => []ZeroedIsZero` | inductive invariant of the fill and its handshake |
| `LineInvariant`, `NoFrameSplit` | `TransmitSpec => []FramesWhole` | inductive invariant of arbiter, line and byte queue |
| `CodeInvariant`, `CodesComeBack` | `TransmitSpec => []CodesConfirmedOnce` | inductive invariant `CodeInv` beside it |
| `MarkerInvariant`, `StopsAreOwn` | `CaptureSpec => []StopsOnItsOwnMarker` | inductive invariant of the stores and the marker registers |
| `CaptureInvariant`, `RecordsEach` | `CaptureSpec => []OneRecordEach` | inductive invariant of numbers, waits and places beside it |
| `AccessesComeHome` | `MemorySpec => []AccessesLand` | counting invariant of ports, converters and arbiter |
| `VerdictHolds` | `TraceSpec => []VerdictIsTrue` | counters, bytes and flags are those of the log |
| `HostInvariant` | `Spec => []HostInv` (host) | inductive invariant of threads, wire, board and VM |
| `ComparesWholeLogs` | `Spec => []ComparesOwnLog` | part of it: `CompareHolds` |
| `FailsOnlyForCause` | `Spec => []FailsForCause` | part of it, `Caused`, and the inductive invariant `LossInv` beside it |

*FIFO.* `SlotExclusive` is not inductive: that the transmitter's slot is reserved follows
from how far the two toggles have travelled. A slot has nine copies of one bit: the publish
toggle, three TX registers, the release toggle, three UI registers and the value the
UI side has acted on. `Wavefront` says that along this chain the value changes at most
once. `Ownership` ties reservation to the two ends: a slot is occupied and complete exactly
when its publish toggle differs from the release it has seen. `Sending` says that inside a
frame the last TX register differs from the release toggle. With these, a publish toggle
that is ahead at the transmitter is ahead at the builder, so the slot is occupied; the
clock ratio, the frame length and the contents never enter. `UiTypes`, `UiHandshake`, `TxTypes`
and `TxHandshake` treat one clock each; `NextFifoInv` puts them together.

*Refinement of `FrameQueue`* (`FramesInOrder`). `QueueInv` adds what the order rests on: the slots are used in
turn (`InTurn`: the one being read is the older, the one being filled the other or, with both empty, the same), and what
has been sent of a frame is a prefix of its slot. The beat that completes a slot is then `Publish`, the last word
`Deliver`, and every other edge a stutter.

*Dump*, for any frame and page size, any number of records and any spacing of the clocks. `ReadInv` follows a frame
through the UI side. `Sequencing`: what is counted as read and what remains add up to what the hart has written, and a
read and a build are requested together, when DMA and slot are both free. `Streaming`: the beats stored, the beats in the
elastic queue and the beat the DMA is at follow one another without a gap, whatever stalls. `Bursting`: address, beats
left and position in the burst belong to one plan. Legal bursts follow by arithmetic on the padding: only the last
frame is short, and half a beat past its last record is still in a written line. `ReadInv` is also the proof
that the dump keeps the bargain under which the FIFO was verified: `UiDrives` shows each of its UI edges to be one of
`FrameFifoSpec`, so `DrivesTheFifo` holds and `FifoInv` may be used here without being proved again.
`Counting` then relates the counter to the slots. It counts at most one release per edge, so it is right only because the
two slots are never released by one: `Apart` follows the two toggles through the registers. That is where
the clocks enter, as `MinUiEdges >= 1` in `DumpAssumption`: 266.5 against 125 MHz gives two. `Completing` is the request for
the completion frame as one token, in one of five places: the start pulse, its toggle, the formatter, the end pulse, its toggle.
So the formatter is at work only while the sequencer waits for it, after the count came to zero.

*Order and content of the dump* (`OrderInv`). Of the frames of the hart some have been begun, some completed in a
slot, some have left; `Completed` and `Gone` are those counts, expressed by the registers. `Numbering`: the sequencer's
frame number is the first of them. `Building`: the slot under construction has the header of the next frame, its stored beats
are that frame's records, and the beats in the elastic queue will be once the padding is blanked (`Blanked`), which
happens only as they are stored. `Queued`: a complete slot holds frame `Gone` and the other one `Gone + 1`; that it is
this way round is `InTurn` of the FIFO. `Heard`: what the MAC has is as long as the frames that have left, with one more
for the completion frame (`Told`, a place of the token of `Completing`), and each stands in its place of `Expected`.
`ExpectedAt` gives these places and `FramesNeeded` the arithmetic of the last frame. The change of hart is sound because
nothing is left inside then (`NothingInside`), which is `Counting` again.

*Refinement of `InfoDumpService`* (`DumpServes`). The service plans, for each place, the set of frames that may stand
there; it has one member but for completion frames when a transmit period may hold three UI edges. What such a frame carries is
the metadata that crosses beside its request. `Replaced` follows it at any pace of the clocks: the registers hold the metadata
of this completion or of the one before, a stage that the token has passed holds the new one, and between two completions all
are equal (`Settled`). So a frame can be wrong in one way only, with the hart and total of its predecessor. `Metadata` adds that with
`MaxUiEdges <= 2` the new one is one stage ahead of the token, since a TX edge falls among the first two UI
edges, and the frame is its hart's own. The three fields are taken to cross together: bits of one stage that part are not
modelled. `Serving` keeps the phase. A frame that leaves is `Send`,
the edge that raises `allDone` finds the whole plan sent (`DoneIsWhole`) and is `Complete`, and every other edge of
either clock is a stutter.

*Log path.* Nothing in the equation of "all writes done" mentions an error. What
keeps it low is that an error leaves a bank behind. `OwnerInv` says: a busy DMA
serves a bank that is claimed and not yet done, and once an error is latched there is a hart whose
bank is claimed, not done and not served, for ever. `ClaimedStays` and `OfferClaimed` treat
the registers of one FIFO, `UiEdgeKeeps` both FIFOs over a UI edge, `UiEdgeOwner` every
state of the DMA; a core edge changes none of it. A claimed bank is an active one, so its
hart is not empty and "all writes done" is low.

*Banks* (`HandInv`), for any number and size of banks, any `CountLag <= StableCycles` and any spacing of the
clocks. A bank goes to the reader as a level through three registers and comes back as a toggle through three more, and
the reader must not take the level of a released bank for that of a refilled one. `ReadyChain` says when the level can
be believed: it changes at most once along the chain, and while the fall has not come through, the bank is
remembered as completed and is not picked. `ReleaseChain` is the same for the toggle, and adds that
a second release starts only when the first has come back. `Contents` ties both to the records: a bank on its way back is
empty, any other that the DMA does not draw from holds what the writer counts. That a released bank is empty is
a statement about the DMA. `Delivers` says that what it has still to write is what the hart's stream still holds
(`Flow`: three queues and the bank), so that "batch done" finds all four empty; it rests on `OwnerInv`, since a DMA whose
batch failed never gives the bank back. `Settling` is the argument for the count: while the moving count can still be
a stale one, the run of equal samples is shorter than its lag. Each clock edge has a lemma that says what it does to
the registers (`Stepped`, `UiStepped`) and one for the records (`Streamed`); each part of the invariant then has a lemma
per edge. `BurstInv` relates plan, address register and beat of the DMA; no state of the banks enters.

*Ring* (`RingInv`), for any number and size of banks. `HandInv` speaks of one bank at a time; which bank comes next is
decided twice, by the writer from its owner bits and by the reader from the levels it sees. `Ring(h, k, m)` lays the
banks out from the reader's pointer: `k` to be read, then free ones, then `m` on their way back, at most two (`Arc`).
`Apart` is why two are enough: a bank is only given back after its count has been seen equal for longer than two core
periods, so the release before it has been sampled by then. It is the only place where the clocks enter, as
`Paced == 2 <= MinUiEdges /\ 2 * MaxUiEdges <= StableCycles`. `Rising`: the levels rise in the order of the ring at
every stage of the synchronisers, although each is free to miss an edge, since two banks never freeze on one core edge; so the
first level the reader sees is that of the bank at its pointer (`Reading`). `Filling`: the writer fills the first
free bank, the others are empty, and it is without a bank only while none is free or for the one cycle in which a release
arrives. `CoreTurn` and `UiTurn` say how an edge moves `k` and `m`; each part has a lemma per edge, and `RingInOrder`
reads the conclusion off `Arc` and `Filling`.

*Records* (`LogInv`). The records of a hart are numbered, and `Run(s, a)` says that `s` holds those from `a + 1` on.
`StreamRuns` chains DDR1, the two queues, the output register and the rest of the bank being drained: each goes on where the
one before it ends. `BanksRun` continues over the banks to be read, all full but the last one of the run, whose
lengths are multiples of `BankRecords` (`Full`), so that no sum over the banks is needed; `QueueRuns` over the bank being
filled and the queue, up to the number produced, or, once the flush has been acted on, to the end of the last bank.
`Counted` adds that the DMA's counter is what DDR1 holds. For the core edge, `Fed` says what the writer takes,
`CoreFills` what it does to the bank, and `CoreQueueOpen` and `CoreQueueClosed` where the queue then begins;
for the UI edge, `StreamMoves` follows a record through the five places. `Closing` and `LastSeen` order the end: the flush comes
after the last record, and its acknowledgement is never seen before the level of the last bank, since a bank is
frozen no later than the flush is acknowledged. One count of the guard is enough to see all levels,
hence `1 <= FlushGuard`. Then `DoneGives`: when "all writes done" is up no bank is left, the stream is empty,
and DDR1 holds all that has been produced. In the refinement every UI edge that writes is `Move`, as is every core edge
that produces; `CoreStaysDone` and `UiStaysDone` show that nothing moves after the end.

*Session.* `CoresOwnMemory` needs that the execute enable is up only in EXECUTE and on
the edge of entry to END, and that a dump is asked for or under way only with the cores
back in reset (`ExecuteInv`). The controller's step is one record expression with some forty
cases; lemmas such as `LatchedKeeps`, `QueueThenKeeps` and `FailKeeps` say what each building block
leaves alone, one lemma per state (`PreconfigKeepsReset`, ..., `EndKeepsReset`) covers
its phases, `ControllerKeeps` the whole edge, and `OtherSteps` everything that is not the controller.

*Session, between its parts.* None of the other properties of the session is inductive by
itself, since the controller learns of the others through codes, levels and counts that are on their
way. `SessionInv` is the conjunction that is: the registers' ranges (`Registers`, `Codes`,
`Traffic`); which engine may run in which phase (`Engines`) and when its start pulse is up (`Asked`);
what the receiver has counted, stored and still to store (`Received`, `Arrivals`, `Stores`); which
code is on the path to the MAC and back (`Path`); and how far the dump and its `done` have come
(`Dumps`). Most parts are promised while the session is `Alive`: in ERROR nothing leads back,
and a reset of the board that is on its way reaches the controller and the receiver on different
edges. `Path` is the hinge: outside EXECUTE exactly the awaited code is on the path, or none, so
an acknowledgement is the one expected; without it the controller could take the confirmation
of an earlier code and run ahead of its program. The other parts rest on it, and they on one another: that no
program frame arrives before READY has been heard (`Announced`), that the clear between the two images finds
the receiver at rest, that the count declared in the end frame is the number of stored frames. For the step,
`ControllerMoves` turns the controller's record expression into one line per branch
(`MovesOf...`), and each part has a lemma for the controller's edge and one for the other actors.

`WholeProgram` reads the conclusion off `Stores`, and `TypeCorrect` off the ranges: that
`LegalPhase` is inductive is the statement that no branch leads to a phase without code.
`StoresLand` adds `Landing`: while the bus guard counts, all harts have stopped, and the idle level
in each register of the synchroniser is no older than the guard's count allows. `Handover` needs in
addition that no write of the program is under way in EXECUTE and END (`Closed`, also in a session
that is no longer alive). `ReplayBarrier` adds `Barrier`: nobody submits a frame while the guard
counts, so that the synchronised count is the count. `BadMemory` adds `Verdicts`: from the edge of the judgement on, a check
without a fault means two good memories. A bit that is late can make a good memory fail, but no bad one pass.

*Refinement of `HostProtocol`* (`FollowsProtocol`). The abstract protocol moves when a frame leaves, the controller
several edges earlier when it queues the code. `Speech` speaks of the codes between the two, `Owed`: at
its turn each is one the protocol allows (`Sayable`), an error is owed at most once and last (`ErrorTold`), a
dump is under way only when a dump may be heard (`Logging`), and what a listener has
heard fits the phase (`Telling`, with `Asks` and `Heard` as the table of the phases). A step of the MAC
is then a step of the protocol and every other step a stutter. At most five codes are ever owed, so
the queue of `InfoDepth` codes never refuses one; that a full queue drops the code and an error be never
told is thereby excluded for every order of events.

*Engine handshake* (`EngineInv`), for every number of lines, burst length and set of clock ratios. The
done of an earlier fill is still up when the controller asks again; what must not happen is
that it answers. `Asking`: hold, arming and selection belong to one visit of READY. `AtEase`: while
nothing is asked, every register of the chain shows the last done. `Requested`: while a start is held, the old
done blocks arming, or the engine works, or its done rises through registers that arming has
seen low. `Progress`: the lines below the beat are zero. `ErrorBeside`: until the two bits part, the error
travels beside the done.

*Transmit path* (`LineInv`), for every frame length, depth and lag. `InStep`: the arbiter's register and
the line agree on which frame is under way. `InOrder`: the bytes in the queue follow one
another from the one the line waits for to the one the formatter sends next, so the byte taken
is the due one whenever it becomes visible.

*Acknowledgements* (`CodeInv`), for every lag, and every depth above the number of codes under way. `Numbers`: the
codes pushed are numbered through the push register, the code queue, the formatter, the crossing and the
queue back. `Framed`: the bytes on their way are those of the frames still to be sent. What remains is a race of
three queues with lags of their own, since the code and its frame cross apart. `Beside`: the code set out a whole frame
before the last byte and is visible when that byte is, because `CodeLag` is at most a frame longer than the bytes' lag.
`Paired` and `Learnt` are about room, which the writer learns of late: room in the code's queue was freed with the
acknowledgement that makes room for the next push; and a code that could be pushed only once another was
confirmed reaches the line after the room of that one's acknowledgement has been learnt of. No crossing
therefore overflows, a last byte always meets its code, and the rest is counting.

*Marker* (`MarkerInv`), for any harts and instructions: a store to the marker's address that is on the bus, the address half
remembered of one, and every stop belong to a hart that has parked behind its marker or has strayed; the data half may be
anybody's. That a parked hart's marker has also been processed when it stops is part of `CaptureInv`: a hart that is
`Misled` has strayed, and everything said of records is promised of the other harts only.

*Records* (`CaptureInv`), for any harts, registers and instructions, and any number of slots from two up. `OneRecordEach` says
that a record is somewhere; why it comes out right rests on the core and the bank doing the same thing in the same cycle.
`Numbered`: a running hart's next number is the number of instructions it has retired, so each has its own;
here `MarkerInv` is needed, since a hart that is no longer counted, and not `Misled`, must have retired its marker in an earlier
cycle. `InStep`: the core waits for a result exactly where the bank holds a record that is not resolved, of the same
instruction and kind. `TrueRecords`: every other record in a place is final and tells what became of its instruction.
`OnePlace`: no two of the `2 * Regs` places hold one number. `NoneLost`: a number below the next one is in a place or
handed over once, never both. All five hold of a hart that has set no error bit (`Sound`). For the step,
`LaneFates` and `LateRecord` say of a lane and of a late record what record the cycle makes of it, `NextPlaces` where
that record goes, in three cases (it stays, it moves to the second place, a new one takes the first), `HandedIs` that
what goes out is true and no two have one number; each part then has a lemma of its own. `ErrorsJustified` is the rest: a
cancellation always finds its record, and a record that finds no place stands behind as many others as there are slots.

*Memory port* (`PortInv`), for any number of accesses under way: what a port has open is what its
converters hold of it plus what the arbiter serves of it (`ReadsCounted`, `WritesCounted`); every address has its beat,
or one of the two is still offered (`BeatsMatch`); DDR0 serves the owner's access with the owner's beat
(`OwnerServed`). `IdleMeansRest` concludes that counters at zero with no valid up leave nothing
anywhere, and `CoreEdgeKeeps` that this is still so when the registered level shows it.

*Comparator* (`TraceInv`), for every stream, log, frame size and count. While it reads, the comparator's
state is a function of the log so far: counts are cardinalities of the entries of their kind
(`Counted`), the bytes set are the numbers recorded and as many as the records (`BytesSet`), the flags
are the completion frames read (`Finished`), hart and padding those of the last entries (`LastHartKnown`,
`PlaceKnown`), and no entry is at fault (`Clean`). Each test of the code is then equivalent to a fault of
the new entry (`HeaderFault`, `RecordFault`, `DoneFault`, `EndFault`), and at the end
`OnceEach` turns "as many records as numbers, none missing" into one record each.

*Host* (`HostInv`), for any harts, number of rounds, retries and faults, and any wire. Neither property is inductive: what a thread
does wrong is decided by a frame that another sent long before. Some parts hold always: `Numbered` and `JobFits`
tie the round numbers that threads remember and the VM's job to the current round, `Caused` follows every reason for failure back
to a fault, and `CompareHolds` is the conclusion. The others are promised while the session has not ended (`Enabled`), and
the ones about a round only while it is not being discarded either (`Epoch`), since from then on the host believes nothing
the board says until its next PREINIT. What makes that safe is `ResetPath`: a reset is on its way, at the
board or about to be asked for only when there is no round, and then either the host discards or nothing of the next epoch has begun
(`NotBegun`), so the release after a comparison cannot meet frames it would have to
believe. `Announced` and `Checking` lead from a PREINIT, behind which nothing but an error follows (`PreinitLast`), to the test
frame; `NotYet` and `AtGrant` say that the grant is there only in the board's WRITE, with nothing but errors behind it,
and is consumed once, so that `PROGRAM` is refused only if the board has failed. From the last program frame on `OwnLog` says that the board,
its queue, the wire and the receiving thread have log frames of the current round only; `Captured` that what was received and not lost
is in the capture of the round, each completion after its data; `Reported` that the status a poll brings back late is never
ahead of the VM. `Ending` closes the argument: a comparison begins only when the completion of every hart is in the log, hence its
data too, while no other thread is about to discard the round, and none can begin to. There is one lemma per action
(`...Keeps`), with a step for each part it can disturb, and `HostNext` puts them together.

That the capture file is missing only after a lost frame (`FailsOnlyForCause`) needs that no loss is reported without one. `LossInv`
says so beside `HostInv`: while no frame of the log has been lost (`Lossless`), what the board has yet to send, what is on the wire, in the hand of
the receiving thread and in the capture follow one another in the order of the log, each completion after its data (`Flows`; `WireSorted`,
`BoardSorted`, `ToCome`), so that each completion received finds its data there (`Conclusive`) and no continuity check fails. `Spoiled` is the other half:
a file is removed only after a VM job has failed. The lemmas end in `...Flows` for the actions that move a frame, and in `...Quiet` for those that do not.

The rows from `EngineInvariant` to `VerdictHolds` are over each unit's own specification; the run `units` checks the
same properties over their union, in which the other units stand still.

The proofs rest on the typing of the constants in `FifoAssumption`, `DumpAssumption`,
`PingpongAssumption`, `LogWriteAssumption`, `ControllerAssumption`, `SystemAssumption`,
`CaptureAssumption`, `EngineAssumption`, `TransmitAssumption`, `MemoryAssumption`, `TraceAssumption` and `HostAssumption`, which the
runs evaluate, and six theorems on a condition more. `RingInOrder`, `WrittenIsReal` and
`RefinesRecordLog` need `Paced`, the last two `1 <= FlushGuard` as well: in the code there are five or six UI edges to a core edge, 32
equal counts and a guard of seven. Both runs of the log path are within these bounds. `StoresLand` and `Handover` need
`IdleGuard >= 3`, `ReplayBarrier` needs `CountGuard >= 3`: the levels and counts they guard are
two registers late. The code's values are 16 for both (`AXI_IDLE_GUARD_CYCLES`,
`TX_COUNT_SYNC_GUARD_CYCLES`); with 2 TLC finds the property violated.

Every safety invariant that a passing run checks is proved. Only model-checked: liveness (`RoundsGoOn` and the other `~>` and `<>`
properties), since the prover does not handle fairness and ENABLED. So is induction over data with an operator parameter and anything about a RECURSIVE operator;
none is used in the proved modules.

## 7 Where the code and its documents disagree

**Completion metadata (`dump_meta`).** `info_log_dump_subsystem.sv:127` says the metadata of a
completion frame "is registered in the UI domain before the start event crosses".
It is, two
UI edges before the toggle of the start event flips. But the metadata crosses in three TX
stages and the start pulse appears after two. When a TX period holds three UI edges, all three
can fall into the same one: then the pulse reaches the formatter one TX edge before the
metadata, and the completion frame carries hart and count of the previous completion (or
zeros). `dump_ratio2` shows the design correct when this
cannot happen. `DumpServes` proves both for every frame size and record count: without a third edge the frame is right, with one
it is right or that of its predecessor.

**A late record without a place (`handoff`).** `tb_instr_info_capture_handoff.sv:3` demands that legal
lifetimes of one register "must hand off without reporting the single per-rd holding entry as an overflow".
A register has one place for a record that waits for its result and one for a record on its way out; a load that overwrites
a pending one is taken if the second place is free or emptied in this cycle
(`instr_info_capture_hart_bank.sv:299-303`). The four slots serve direct records first, then the lowest registers. The run
has a divide into x1 and loads into x2, x3 and x4 pending; their results come or are overwritten, and a load into x4 follows. All four
records then leave together. Another load into x4 with an ALU instruction beside it leaves three
slots for the four: x4 waits, and the second load finds both of its places taken. The bank reports a conflict, which ends the session, and
has no record of that load, although every queue had room. The program has nine legal instructions. `RecordsEach` proves that nothing else goes
wrong in the bank, and not this with fewer registers than slots. The test drives one register at a time.

**Retransmission pulse (`replay`).** `system_info_rx_decoder.sv:55-58` lowers every pulse but
`host_info_retransmit_all_pulse`. One request replays the log again and again. The
project's own document (`output/doc/future_rtl_host_controlled_retransmit_readme.md:200-221`) records
it from the board, demands the correction, and disables the request in the web
interface until then.

**Memory verdict (`skew`).** `top:512-525` synchronises done and pass of a checker bit by
bit; `ctl:403-411` judges at the first edge with done. If pass resolves one edge later, a
good memory is reported as INSTR_FAIL or DATA_FAIL and the board resets. The mistake goes one way only: `live`, whose bits may
part as well, shows that no bad memory passes, and `BadMemory` proves it.

Read in the code, without a run of their own:

* The program watchdog's verdict is written before the `case (phase)` of the same edge
  (`ctl:512-525`). At an edge at which the phase advances as well, the phase's assignment
  wins: ERROR is entered in phase 2 or 3, where no branch sends the code. It takes an
  advance at exactly the 2,000,000,000th clock; the model has it (`Watched` before the phase),
  and `ImplementsHostProtocol` allows it, since nothing wrong is heard. In `live`, `Timely` excludes it.
* `output/doc/README.md:139` has END reset by itself once all frames have left, and `:140` has ERROR reset
  on 44124445. In the code both wait for `HOST_GLOBAL_RESET`
  (`ctl:314-323`); `tb/tb_system_controller.sv:304` and the newer documents say so too.
* The same skew the other way (`top:514`): `zero_error` may cross one edge after `zero_done`, and a failed clear
  then passes as a good one. `ZeroedIsZero` names this state (`parted`) as its exception.
* The checkers' start hold is cleared by a level (`top:447-448`), not by an arming as that of the fill is. A second
  check without a reset in between would take the first one's done; the controller never asks twice.
* The transmit arbiter may change its choice between valid and ready before a frame's first
  byte, and the AXI arbiter the address it shows (`axi_burst_arbiter_2x1.sv:23`). Both are breaches of
  the stream and AXI rules of stability that a receiver which samples at the handshake does not notice.
* `instr_info_capture_dual_hier.sv:86-95` remembers the hart of a store to the stop address whatever the store's data, and
  `:191-201` stops that hart when data of the marker's value comes, whoever sends it. A hart that stores another value there
  is stopped by the marker data of the other, whose own address half is then left waiting.
  The epilogue of the generated programs writes only the marker there (`webui/vm_tools/remote_runner.py:472`, `:485`), but the
  address is that of the console in the core's own test programs (`testbench/asm/hello_world.s:23`). `StopsOnItsOwnMarker` has the exact statement.
* A log without end would keep the status codes from the line while the log is preferred; a dump is finite.
* Host, `automation.py` and `service.py`. None of these is a run of its own; `host` has the
  interleavings, and its properties allow or exclude them as said.
  1. A worker that ends after a stop or a failure writes its own state over STOPPED or FAILED. A later `start()`
     then refuses, although `tests/test_automation.py:249` expects it to succeed.
  2. A completion code while a comparison runs starts the comparison's discard: the round can be PASS and
     stand in the list of wrong rounds.
  3. The preconfiguration worker clears the flag of a PREINIT that arrived while it was sending.
  4. A PREINIT during a busy round is only recorded; if nothing discards the round, both sides wait.
  5. Exceptions of the cleanup after PASS and of the history are not caught: the session stays in COMPARING.
  6. A late status frame overwrites RESETTING after the reset has gone out; the watchdog takes the board for
     recovered, and a reset that was lost is not repeated. This is `Stalled` in `RoundsGoOn`.
  7. After a stop, a comparison or a skip that was under way still resets the board and
     deletes the evidence of a PASS.
  8. Loss frames after a VM skip whose board state was overwritten take the manual path and end the automation.
  9. `start()` reads the last system code before it enables itself; a PREINIT handled in between is missed.
  10. A sender thread delayed past a new grant could send the program of an old round.
  11. Two threads may each write a block for the same round into the list of wrong rounds; one reset follows.
  12. `_skip_vm_failed_round` unlinks the capture file of a round that holds no frame (`automation.py:826-830`). The round stays
     current until the reset; if a loss is seen in that window, `_materialize_failure_text` (`:1205`) does not find the file, and
     its exception ends the session (`:913-914`), though each of the two is "skip"ped or "discard"ed by itself
     (docstrings at `:484` and `:812`). This is the ending `missing` in `FailsForCause`.
* `comparator.py` accepts a data frame of padding only after the completion frame of its hart, since the frame
  count is compared when the completion frame is read. No record can hide in it: a further record would
  be a duplicate. `VerdictIsTrue` allows it.

## 8 What is not modelled

Vendor IP (MAC, PHY, memory controllers, DataMover, FIFO macros, AXI converters) except by its
interface (of the bank macro, its reset interval and its own overflow flag are left out);
widths, headers and checksums; the owner multiplexers of the memories, which keep no state
(`MemoryHandover` is about their select), and the AXI transfers of the pattern generator, the
checkers and the DataMover beat by beat; resets in mid-session of the log path, the dump and the
units; malformed frames and the FCS filter. Metastability is not modelled beyond its
consequence: a synchronised bit may resolve one edge late (`BitSkew`, and the
unconstrained order of edges).

The session model does not contain the units: there the capture and the log path are
`cores.written`, the fill is one step that ends, the memory port is the number of accesses
under way, and the information path is one step per code. The units show what these steps take for granted.

Of the host: a second `start()` in one process, the state shown to the user, statistics and
history files, the closing of a failed capture at the next PREINIT, automatic retransmission (switched
off in the code), the acknowledgement of a stop, how the simulator's text and the readable log become
streams and frames (`normalize_spike` and `_iter_text_info_frames`), the SSH runner and the web page.

The predecessors of this system in the other directories, and the checksum blocks in `rtl/crc` and
`rtl/log`, which the current top does not instantiate. The C and C++ files of the repository are copies of the
CoreMark benchmark with its start-up code and the simulation wrappers that come with the vendor IP: they are not
this system's logic, which is SystemVerilog, Verilog and Python, and nothing of them is modelled.

`PROJECT.json` lists every hazard found in the code, with the properties that cover it
or the reason why none does yet.

## 9 Plan

Built in this order: the FIFO, the dump around it, the controller, the session, the log path
into memory, the engine handshake, the capture, the transmit path, the host, the memory port, and the comparator.
What is left, most important first:

1. **Composition.** The engine handshake and the memory port in the place of the one-step
   engines and access counts of `EvaluationSystem`, in a run of their own with one phase each.
2. **Pattern generator and checkers** burst by burst, with their timeouts.
3. **Simulator's trace.** `normalize_spike`: how the simulator's lines become the stream of a hart.
4. **Host.** A stop followed by a second start, which items 1, 7 and 9 of section 7 are about.

One thing seen while modelling the banks: the recovery scan of
`info_fifo_pingpong_4w2r.sv:249` is not needed for progress. A release that meets the edge
that fills the last free bank costs one core edge with it; without it the writer waits until the
next release, and no record is lost.
