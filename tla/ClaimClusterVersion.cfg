SPECIFICATION Spec
CONSTANTS
  Apps = {a1}
  IsHub = FALSE
  StartTime = 0
  EndTime = 3
  StaleThreshold = 3
  NumClusters = 2
  Contents <- UpgradeContents
  StabilizationPeriod = 0
  Heartbeat = 5
  MaxAttempts = 1
  WaitBetween = 1
  TimelineCap = 2
  Delays = {0}
  PSChurn = FALSE
  MaxBehind = 0
  OutageEnd = 0
  MaxTime = 1
INVARIANT VersionStableEverywhere
