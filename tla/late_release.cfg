SPECIFICATION Spec
CONSTANTS
    Engines = {e1}
    UIDs = {u1}
    Nodes = {n1}
    Streams = {s1, s2}
    Versions = {v1}
    Proxies <- MCProxies
    Environments <- Withdrawn
    None = None
    MaxInactive = 1
    MaxAttempt = 1
    MaxActive = 1
SYMMETRY Symmetry
INVARIANTS
    WatchKept
CHECK_DEADLOCK FALSE
