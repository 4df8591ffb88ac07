SPECIFICATION MetaFairSpec
CONSTANTS
    Res = {r1}
    Plugins = {a, b, c}
    First = a
    Hashing = {a, b}
    Describing = {a, c}
    Pages = {p1, p2}
    Absent = Absent
    Slots = 1
    MaxChanges = 1
    MaxViews = 2
    MaxFaults = 1
CHECK_DEADLOCK FALSE
INVARIANTS
    ServesOwn
    NothingStaysHeld
PROPERTIES
    EnqueuedBegins
