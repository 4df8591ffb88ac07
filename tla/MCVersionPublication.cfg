SPECIFICATION FairSpec
CONSTANTS
    Creators = {c1, c2}
    NoOne = NoOne
    MaxVersions = 3
    MaxCrashes = 1
    MaxFailures = 2
    MaxSwitches = 1
CHECK_DEADLOCK FALSE
INVARIANTS
    HistoryIsComplete
PROPERTIES
    ImplementsHistory
    OutcomeIsTrue
    CreationEnds
