\* Any spacing of the two clocks the frequencies allow: 266.525 / 125 MHz.
\* A frame is four records, so nine records are three frames, the last one
\* padded, and two slots are reused; two dumps, the second a retransmission.
SPECIFICATION Spec
CONSTANTS
    Beats = 2
    PageBeats = 3
    Totals = {0, 1, 9}
    MaxDumps = 2
    MinUiEdges = 2
    MaxUiEdges = 3
INVARIANTS
    DataFramesInOrder
    NoSpuriousError
    DrainIsReal
    BurstsLegal
