SPECIFICATION Spec
CONSTANTS
    ExecuteGuard = 2
    IdleGuard = 3
    CountGuard = 4
    DrainTimeout = 2
    ProgramTimeout = 3
    Counts = 8
    ProgramFrames = 2
    LogFrames = 1
    MacDepth = 2
    MaxLost = 0
    MaxRequests = 1
    May <- Nothing
    BitSkew = FALSE
    Timely = FALSE
INVARIANTS
    OneReplayPerRequest
