SPECIFICATION FairSpec
CONSTANTS
    Engines = {e1}
    UIDs = {u1}
    Nodes = {n1}
    Streams = {s1}
    Versions = {v1, v2}
    Proxies <- MCProxies
    Environments <- RejectedTwice
    None = None
    MaxInactive = 1
    MaxAttempt = 1
    MaxActive = 1
PROPERTIES
    RejectedApplied
CHECK_DEADLOCK FALSE
