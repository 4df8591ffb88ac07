SPECIFICATION FairSpec
CONSTANTS
    Points = {p1, p2}
    Archive = Archive
    Backup = Backup
    Retention = Retention
    Old = Old
    Mixed = Mixed
    None = None
    MaxCalls = 3
    MaxFailures = 2
    MaxCrashes = 1
CHECK_DEADLOCK FALSE
INVARIANTS
    ServedIsWhole
    BackupsAreWhole
    PointKept
PROPERTIES
    RestoreSettles
