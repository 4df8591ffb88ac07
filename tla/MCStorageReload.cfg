SPECIFICATION ReloadFairSpec
CONSTANTS
    Served = {r1, r2}
    Nobody = Nobody
    MaxWrites = 2
    MaxSelects = 1
    MaxTimeouts = 1
    MaxDisconnects = 1
CHECK_DEADLOCK FALSE
INVARIANTS
    ReplacedAlone
PROPERTIES
    ClosedAlone
    ReloadEnds
    ParkedGoesOn
