SPECIFICATION FairSpec
CONSTANTS
    Jobs = {j1, j2}
    MaxFailures = 1
    MaxCancels = 2
    MayClose = TRUE
    MaxRestarts = 1
CHECK_DEADLOCK FALSE
INVARIANTS
    RecordIsTrue
PROPERTIES
    AcceptedRuns
