SPECIFICATION FairSpec
CONSTANTS
    ruleData = ruleData
    ruleSource = ruleSource
    Data <- MCData
    Sources <- MCSources
    TextsOf <- MCTextsOf
    Fragment = {"a", "b", "c"}
    MaxBuild = 2
    Verdict <- MCVerdict
    None = None
    MaxChanges = 2
INVARIANTS
    AcceptanceTypeOK
    AcceptedWhole
    AcceptedApproved
    ReadyRecorded
PROPERTIES
    RecordKept Settles
CHECK_DEADLOCK FALSE
