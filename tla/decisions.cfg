SPECIFICATION Spec
\* A behaviour is one input.
CHECK_DEADLOCK FALSE
INVARIANTS
    ReadersAgree
    SettingsSound
    NixTextsRead
    VerdictsHonest
    VolumeApart
    DecoyDisksSafe
    PostureSound
