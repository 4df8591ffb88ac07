SPECIFICATION VaultFairSpec
CONSTANTS
    Batches = {"b1", "b2"}
    Wants <- MCWants
    None = None
    Quota = 3
    MaxPending = 1
    Versions = 1
    MaxErrors = 1
    MaxEvents = 2
CHECK_DEADLOCK FALSE
INVARIANTS
    OvershootIsBounded
    AllOrNothing
PROPERTIES
    ArchivesAreFrozen
    BatchesEnd
