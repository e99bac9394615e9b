\* Every engine may fail and an unrelated fault may strike at any edge, and one
\* frame is lost, under fairness.
SPECIFICATION FairSpec
CONSTANTS
    ExecuteGuard = 1
    IdleGuard = 1
    CountGuard = 1
    DrainTimeout = 2
    ProgramTimeout = 8
    Counts = 8
    ProgramFrames = 2
    LogFrames = 1
    MacDepth = 1
    MaxLost = 1
    MaxRequests = 1
    May <- Failures
    BitSkew = TRUE
    Timely = TRUE
INVARIANTS
    BadMemoryStops
PROPERTIES
    SessionConcludes
    ReplayServed
    FirstErrorKept
