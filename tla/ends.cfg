SPECIFICATION FairSpec
CONSTANTS
    p1 = p1
    p2 = p2
    Proc = {p1, p2}
    Cmds = {"activate", "deactivate", "recover", "emergency"}
    Faults = {"planwrite", "step", "save", "reload", "cancel"}
    RunNoexec = TRUE
    Builds = FALSE
    NoProc = NoProc
    NoPlan = NoPlan
\* The operator may leave the machine alone for good.
CHECK_DEADLOCK FALSE
PROPERTIES
    EverythingEnds
    EmergencyLeaves
