\* The completion metadata when a transmit period spans three UI edges.
SPECIFICATION Spec
CONSTANTS
    Beats = 2
    PageBeats = 3
    Totals = {0, 1}
    MaxDumps = 1
    MinUiEdges = 2
    MaxUiEdges = 3
INVARIANTS
    CompletionFramesTrue
