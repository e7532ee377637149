SPECIFICATION StoreSpec
CONSTANTS
    StorePaths = {"lib", "app"}
    Parts = {"file"}
    Workers = {"one"}
    MaxEntries = 3
INVARIANT ClosureOnVolume
\* The operator may leave the machine alone for good.
CHECK_DEADLOCK FALSE
