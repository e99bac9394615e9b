SPECIFICATION FairSpec
CONSTANTS
 Harts = {0}
 MaxRetries = 1
 MaxRounds = 2
 WireDepth = 1
 MaxLost <- TwoResets
 MaxFaults <- FailsOnce
CHECK_DEADLOCK FALSE
INVARIANTS ComparesOwnLog FailsForCause
PROPERTIES RoundsGoOn
