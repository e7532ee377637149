SPECIFICATION Spec
CONSTANTS
    p1 = p1
    p2 = p2
    Proc = {p1, p2}
    Cmds = {"activate", "recover"}
    Faults = {"overlap"}
    RunNoexec = TRUE
    Builds = FALSE
    NoProc = NoProc
    NoPlan = NoPlan
SYMMETRY Symmetry
PROPERTY NeverEnterWithoutMasks
\* The operator may leave the machine alone for good.
CHECK_DEADLOCK FALSE
