SPECIFICATION Spec
CONSTANTS
    Resources = {"r1", "r2"}
    Wants <- MCWants
    Touched = {"r1"}
    Cover = Cover
    None = None
    Unread = Unread
    MaxFailures = 2
    MaxCrashes = 1
CHECK_DEADLOCK FALSE
INVARIANTS
    CreatedIsWhole
    FailedLeavesNothing
    ListIsWhole
