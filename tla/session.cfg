SPECIFICATION Spec
CONSTANTS
    p1 = p1
    p2 = p2
    p3 = p3
    Proc = {p1, p2, p3}
    Cmds = {"activate", "deactivate", "recover"}
    Faults = {"step", "save", "reload", "enqueue", "precheck", "lapse", "cancel", "kill", "power", "plain"}
    RunNoexec = TRUE
    Builds = TRUE
    NoProc = NoProc
    NoPlan = NoPlan
SYMMETRY Symmetry
\* The operator may leave the machine alone for good.
CHECK_DEADLOCK FALSE
INVARIANTS
    StagedGuarded
    KernelOwed
    WayBackReady
PROPERTIES
    NeverEnterWithoutMasks
    KeepsPromise
    CleanReturn
