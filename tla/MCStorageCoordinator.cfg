CONSTANTS
    r1 = r1
    w1 = w1
    f1 = f1
    f2 = f2
    Writes = {r1, w1}
    Freezes = {f1, f2}
    Requests = {r1}
    NoLease = NoLease
SPECIFICATION RuntimeSpec
INVARIANTS
    ExclusiveFreeze
    CountersAccurate
    NoLostWakeup
PROPERTIES
    ImplementsGate
    CallsSettle
    DrainEnds
