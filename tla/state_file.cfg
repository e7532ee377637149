SPECIFICATION Spec
CONSTANTS
    p1 = p1
    p2 = p2
    p3 = p3
    Proc = {p1, p2, p3}
    Cmds = {"activate", "deactivate", "recover", "emergency", "status"}
    Faults = {"io", "read", "dirsync", "stall", "overlap", "kill", "power"}
    NoProc = NoProc
    NoTemp = NoTemp
SYMMETRY Symmetry
\* The operator may leave the machine alone for good.
CHECK_DEADLOCK FALSE
INVARIANTS
    NeverTorn
    SavedSurvives
    TimingKept
