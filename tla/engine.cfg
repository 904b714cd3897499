SPECIFICATION FairSpec
CONSTANTS
  Engines = {1, 2}
  None = None
  c1 = c1
  big = big
  Contents = {c1, big}
  Oversized = {big}
  Names = {n1, n2}
  MaxUID = 2
  MaxChanges = 2
  MaxFaults = 1
  Starts <- Scenarios
INVARIANTS WeakenedAfterAcceptance RecordApproved AttachedRestricted
CHECK_DEADLOCK FALSE
PROPERTIES OrphansRemoved EngineSettles
