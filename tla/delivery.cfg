SPECIFICATION FairSpec
CONSTANTS
    Engines = {e1}
    UIDs = {u1}
    Nodes = {n1}
    Streams = {s1, s2}
    Versions = {v1, v2}
    Proxies <- MCProxies
    Environments <- PublishedTwice
    None = None
    MaxInactive = 1
    MaxAttempt = 1
    MaxActive = 1
PROPERTIES
    CurrentReceived
CHECK_DEADLOCK FALSE
