\* Three banks of two beats each, at the real clock ratio: the first hart fills
\* the ring and starts again, the second has a single record; the last bank of
\* the first hart does not fit its region.
SPECIFICATION Spec
CONSTANTS
    BankCount = 3
    BankRecords = 4
    WritePorts = 3
    StableCycles = 10
    FlushGuard = 2
    PageBeats = 3
    RegionBeats = 8
    QueueDepth = 6
    CountLag = 1
    MaxRecords <- Unequal
    Failures = 1
    MinUiEdges = 5
    MaxUiEdges = 5
INVARIANTS
    RingOrder
    BankHandedOver
    BatchIsExact
    AllWrittenIsReal
    FailedNeverComplete
    BurstsLegal
PROPERTIES
    ImplementsRecordLog
