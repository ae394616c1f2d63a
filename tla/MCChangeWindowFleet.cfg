SPECIFICATION Spec
CONSTANTS
  Apps = {a1, a2}
  IsHub = FALSE
  StartTime = 0
  EndTime = 1
  StaleThreshold = 1
  NumClusters = 1
  Contents <- TwoContents
  StabilizationPeriod = 1
  Heartbeat = 2
  MaxAttempts = 3
  WaitBetween = 2
  TimelineCap = 3
  Delays = {0}
  PSChurn = FALSE
  MaxBehind = 0
  OutageEnd = 0
  MaxTime = 2
INVARIANT SucceededOnFreshEvidence

