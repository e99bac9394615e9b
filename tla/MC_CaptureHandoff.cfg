\* The four slots of the bank, and as many registers; queues that have room or
\* not.  A set error bit ends the session.
SPECIFICATION ProgramSpec
CONSTANTS
    CapHarts = {h0}
    Regs = {1, 2, 3, 4}
    RecordSlots = 4
    MaxInsns = 9
    None = None
INVARIANTS
    HandsOff
CHECK_DEADLOCK FALSE
