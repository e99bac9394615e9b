\* Two banks of one beat: the writer soon waits for a release, and a release
\* can meet the edge that fills the other bank.
SPECIFICATION FairSpec
CONSTANTS
    BankCount = 2
    BankRecords = 2
    WritePorts = 2
    StableCycles = 12
    FlushGuard = 2
    PageBeats = 3
    RegionBeats = 8
    QueueDepth = 4
    CountLag = 1
    MaxRecords <- Short
    Failures = 1
    MinUiEdges = 5
    MaxUiEdges = 6
PROPERTIES
    EveryRecordWritten
