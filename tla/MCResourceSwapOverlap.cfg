SPECIFICATION Spec
CONSTANTS
    N = 2
    Releases = 3
    MaxFailures = 0
    MaxCrashes = 1
INVARIANTS
    RecoversWhole
CHECK_DEADLOCK FALSE
