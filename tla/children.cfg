SPECIFICATION FairSpec
CONSTANTS
    Faults = {"file", "drop", "wait", "hang", "escape", "stuck"}
    Cap = 1
    MaxOut = 2
CHECK_DEADLOCK FALSE
INVARIANTS
    OutputWhole
    RunsAsAsked
PROPERTIES
    DeadlineKept
