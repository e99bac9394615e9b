\* Two registers and three record slots of the capture bank; a fill of a whole
\* and a partial burst, asked for three times; four codes against one log
\* frame of two bytes each, all crossings two edges long; two accesses of a
\* kind and port under way, one more than where a port stops issuing; a log of
\* three and one records in frames of two, with every fault a record can have; a
\* frame FIFO with frames of two beats.
SPECIFICATION UnitSpec
CONSTANTS
    CapHarts = {h0, h1}
    None = None
    Regs = {1, 2}
    RecordSlots = 3
    MaxInsns = 3
    FillBeats = 3
    BurstBeats = 2
    FillRatios = {2, 3}
    MaxFills = 3
    CodeDepth = 4
    FrameDepth = 4
    InfoBytes = 2
    LogBytes = 2
    CrossEdges = 2
    CodeLag = 3
    TxRatios = {1, 2}
    MaxOutstanding = 3
    MaxCodes = 4
    MaxLogFrames = 1
    MaxReads = 1
    GoldenStreams <- TwoLoads
    LogRecords <- RightAndWrong
    FrameSlots = 2
    Beats = 2
    Records <- OneRecord
    FrameNumbers = {0}
    MaxDataFrames = 2
    MaxOff = 1
    MaxWrites = 1
INVARIANTS
    SlotExclusive
    VerdictIsTrue
    OneRecordEach
    StopsOnItsOwnMarker
    ZeroedIsZero
    FramesWhole
    CodesConfirmedOnce
    AccessesLand
PROPERTIES
    ImplementsFrameQueue
    RequestAnswered
    EveryCodeConfirmed
