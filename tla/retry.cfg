SPECIFICATION FairSpec
CONSTANTS
    Engines = {e1}
    UIDs = {u1}
    Nodes = {n1}
    Streams = {s1, s2}
    Versions = {v1}
    Proxies <- MCProxies
    Environments <- Rejected
    None = None
    MaxInactive = 1
    MaxAttempt = 1
    MaxActive = 1
PROPERTIES
    RetryLadder
CHECK_DEADLOCK FALSE
