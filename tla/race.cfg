SPECIFICATION Spec
CONSTANTS
    p1 = p1
    p2 = p2
    p3 = p3
    Proc = {p1, p2, p3}
    Cmds = {"activate", "deactivate", "emergency", "recover"}
    Faults = {"step", "enqueue", "precheck", "cancel", "planwrite", "kill", "power", "overlap", "skip"}
    RunNoexec = TRUE
    Builds = FALSE
    NoProc = NoProc
    NoPlan = NoPlan
SYMMETRY Symmetry
PROPERTY WayBackKept
\* The operator may leave the machine alone for good.
CHECK_DEADLOCK FALSE
