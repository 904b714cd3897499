SPECIFICATION FairSpec
CONSTANTS
    MaxUID = 2
    Identities = {i1}
    Sessions = {}
    None = None
    MaxChanges = 2
    MaxFailures = 0
PROPERTIES
    GrantsRestored
CHECK_DEADLOCK FALSE
