SPECIFICATION Spec
CONSTANTS
    MountFaults = {"covered", "taken", "kept"}
    TempNames <- MCTempNames
    MaxSwaps = 2
    p = p
    q = q
    StorePaths = {p, q}
    Parts = {"a"}
    w1 = w1
    w2 = w2
    Workers = {w1, w2}
    MaxEntries = 3
    DetachRounds = 8
    MaxForeign = 1
    Virtual = {"wg"}
    Hardware = {"eth"}
    Addresses = {"m1", "m2"}
    MaxClock = 2
    MaxChanges = 1
    MaxSessions = 2
    MaxStagings = 3
    Devices = {"root", "data"}
    Blind = {"data"}
    MaxBoots = 1
    MaxSoft = 3
    MaxRehearsals = 2
    MaxLeaks = 1
    RetentionDays = 2
    MaxLogs = 4
    MaxDays = 3
    MaxHomes = 3
    MaxInits = 3
\* A part rests when its bounds are reached.
CHECK_DEADLOCK FALSE
INVARIANTS
    PreflightGates
    FilesAsAsked
    ClosureServes
    RootSealed
    RehearsalSound
    SmallPartsSound
PROPERTIES
    IdentityBack
    StagingSound
    InitSound
