CONSTANTS
    Targets <- MCTargets
    HiddenMounts <- MCHidden
    MaxHidden = 2
    Entry <- MCEntry
    Dirs <- Dir
    Sockets <- Socket
    Worlds <- MCWorlds
    Faults = {"net", "records", "check", "snapshot", "slow"}
SPECIFICATION Spec
CHECK_DEADLOCK FALSE
INVARIANTS
    MountsBack
    RunBack
