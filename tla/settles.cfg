SPECIFICATION FairSpec
CONSTANTS
    p1 = p1
    p2 = p2
    Proc = {p1, p2}
    Cmds = {"activate","deactivate"}
    Faults = {"planwrite", "step", "save", "reload", "precheck", "lapse", "cancel", "power"}
    RunNoexec = TRUE
    Builds = TRUE
    NoProc = NoProc
    NoPlan = NoPlan
INVARIANT DecoyClean
PROPERTY ActivationSettles
\* The operator may leave the machine alone for good.
CHECK_DEADLOCK FALSE
