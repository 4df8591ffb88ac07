SPECIFICATION FairSpec
CONSTANTS
    N = 4
    Releases = 4
    MaxFailures = 2
    MaxCrashes = 2
CHECK_DEADLOCK FALSE
INVARIANTS
    RunsWhole
    OldIsKept
PROPERTIES
    SwapEnds
