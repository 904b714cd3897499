SPECIFICATION FairSpec
CONSTANTS
  Engines = {e1}
  Replicas = {r1}
  None = None
  small = small
  large = large
  Contents <- MCContents
  Fits <- MCFits
  MaxBuild = 2
  Workers = 2
  MaxChanges = 3
  MaxFaults = 1
INVARIANTS SettledServes LagReported ReadyServes
PROPERTIES Serves EventuallyReady Converges
CHECK_DEADLOCK FALSE
