SPECIFICATION Spec
CONSTANTS
    Engines = {e1}
    UIDs = {u1, u2}
    Proxies = {p1, p2, p3}
    Versions = {v1, v2}
    None = None
    MaxInactive = 2
    MaxAttempt = 1
    MaxActive = 2
INVARIANTS
    ServedIsCurrent
    IndexesAgree
    InactiveRetriesBounded
    PermitHonoured
    HitBacked
    ReviewCacheSound
    Identified
    RecordReproduces
    ValidationExact
PROPERTIES
    ConnectedKeepSnapshot
    EvictsOldest
    SweepForgivesNothing
    AssetsServed
    GarbageOnly
CHECK_DEADLOCK FALSE
