SPECIFICATION Spec
CONSTANTS
    ExecuteGuard = 2
    IdleGuard = 3
    CountGuard = 4
    DrainTimeout = 2
    ProgramTimeout = 3
    Counts = 8
    ProgramFrames = 2
    LogFrames = 2
    MacDepth = 2
    MaxLost = 1
    MaxRequests = 1
    May <- Ordinary
    BitSkew = FALSE
    Timely = FALSE
INVARIANTS
    TypeOK
    MemoryHandover
    ExecutesWholeProgram
    StoresLanded
    BarrierHolds
    CoresOwnMemory
PROPERTIES
    ImplementsHostProtocol
