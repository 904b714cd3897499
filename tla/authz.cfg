SPECIFICATION FairSpec
CONSTANTS
    MaxUID = 2
    Identities = {i1}
    Sessions = {s1}
    None = None
    MaxChanges = 1
    MaxFailures = 1
INVARIANTS
    AuthzTypeOK
    OpenStreamsGranted
PROPERTIES
    GrantsWithdrawn
CHECK_DEADLOCK FALSE
