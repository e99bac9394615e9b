\* No transmit period longer than two UI periods, and fair clocks.
SPECIFICATION FairSpec
CONSTANTS
    Beats = 2
    PageBeats = 3
    Totals = {0, 1, 9}
    MaxDumps = 2
    MinUiEdges = 2
    MaxUiEdges = 2
PROPERTIES
    ImplementsDumpService
    DumpCompletes
    SlotComesBack
