------------------------------ MODULE SeparateUnits ----------------------------
(* Units that share no state with one another, only with the models of the   *)
(* session, of the log path and of the host: the instruction capture, the    *)
(* zero fill with its handshake, the transmit path of the status codes, the  *)
(* cores' way to DDR0, the two-slot frame FIFO under any two clocks, and the *)
(* comparison of a finished log.                                             *)
(* Their composition is a disjoint union, so that each is checked in full    *)
(* without a product of their states: a behaviour is one of one unit.        *)
EXTENDS InstrCapture, EngineHandshake, TransmitPath, MemoryPort, FrameFifoSpec,
        TraceComparator

VARIABLE unit   \* the unit this behaviour is about

boardVars == <<captureVars, engineVars, transmitVars, memoryVars, fifoVars>>
unitVars == <<unit, boardVars, traceVars>>

UnitInit ==
    /\ unit \in {"capture", "engine", "transmit", "memory", "fifo", "comparator"}
    /\ CaptureInit /\ EngineInit /\ TransmitInit /\ MemoryInit /\ FifoInit
    /\ TraceInit

CaptureAlone ==
    unit = "capture" /\ UNCHANGED <<unit, engineVars, transmitVars, memoryVars, fifoVars, traceVars>>
EngineAlone ==
    unit = "engine" /\ UNCHANGED <<unit, captureVars, transmitVars, memoryVars, fifoVars, traceVars>>
TransmitAlone ==
    unit = "transmit" /\ UNCHANGED <<unit, captureVars, engineVars, memoryVars, fifoVars, traceVars>>
MemoryAlone ==
    unit = "memory" /\ UNCHANGED <<unit, captureVars, engineVars, transmitVars, fifoVars, traceVars>>
FifoAlone ==
    unit = "fifo" /\ UNCHANGED <<unit, captureVars, engineVars, transmitVars, memoryVars, traceVars>>
ComparatorAlone == unit = "comparator" /\ UNCHANGED <<unit, boardVars>>

CaptureTurn == CaptureAlone /\ CaptureEdge

(* An error bit ends the session: the controller resets the board.           *)
CaptureOver ==
    /\ unit = "capture" /\ \E h \in CapHarts : errors[h] # {}
    /\ UNCHANGED unitVars

ControlTurn == EngineAlone /\ ControlEdge
FillTurn == EngineAlone /\ FillUiEdge
PushTurn == TransmitAlone /\ PushEdge
MacTurn == TransmitAlone /\ MacEdge
PortTurn == MemoryAlone /\ MemoryCoreEdge
DdrTurn == MemoryAlone /\ MemoryUiEdge
BuildTurn == FifoAlone /\ (UiIdle \/ UiBuild \/ UiBeat)
SendTurn == FifoAlone /\ TxEdge
TraceTurn == ComparatorAlone /\ TraceStep
TraceOver == unit = "comparator" /\ verdict # "none" /\ UNCHANGED unitVars

UnitNext ==  \/ CaptureTurn \/ CaptureOver
             \/ ControlTurn \/ FillTurn
             \/ PushTurn \/ MacTurn
             \/ PortTurn \/ DdrTurn
             \/ BuildTurn \/ SendTurn
             \/ TraceTurn \/ TraceOver

(* Every clock runs.  The memory takes what it is offered; the MAC goes on   *)
(* taking bytes, of whichever source, while any are offered; a log frame     *)
(* that was begun is complete in its slot.  Of each disjunction one disjunct *)
(* belongs to the unit of the behaviour.                                     *)
MacTakes == \/ Len(bytes'.q) < Len(bytes.q)
            \/ log'.byte # log.byte \/ log'.left # log.left
LogGoesOn == log.byte > 1 /\ ~log.valid /\ MacTurn /\ log'.valid

UnitFairness ==
    /\ WF_unitVars(ControlTurn \/ PushTurn)
    /\ WF_unitVars(FillTurn \/ MacTurn)
    /\ SF_unitVars((FillTurn /\ fill' # fill) \/ (MacTurn /\ MacTakes))
    /\ SF_unitVars(LogGoesOn)

UnitSpec == UnitInit /\ [][UnitNext]_unitVars /\ UnitFairness

=============================================================================
