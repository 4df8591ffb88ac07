SPECIFICATION Spec
CONSTANTS
    MaxArchives = 2
    MaxAttempts = 3
    MaxCrashes = 2
    MaxFailures = 2
INVARIANTS
    ReturnedIsKept
PROPERTIES
    ImplementsReplace
