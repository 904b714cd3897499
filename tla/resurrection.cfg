SPECIFICATION HistorySpec
CONSTANTS
    MaxUID = 2
    Identities = {i1}
    Sessions = {}
    None = None
    MaxChanges = 2
    MaxFailures = 0
PROPERTIES
    NoResurrection
CHECK_DEADLOCK FALSE
