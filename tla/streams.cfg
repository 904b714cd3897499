SPECIFICATION Spec
CONSTANTS
    Engines = {e1, e2}
    UIDs = {u1}
    Nodes = {n1}
    Streams = {s1, s2}
    Versions = {v1, v2}
    Proxies <- MCProxies
    Environments <- WithdrawnOrSwitched
    None = None
    MaxInactive = 1
    MaxAttempt = 1
    MaxActive = 1
SYMMETRY Symmetry
INVARIANTS
    StreamsTypeOK
    RevokedStreamsEnd
    RetriesCounted
    StandingWatchKept
CHECK_DEADLOCK FALSE
