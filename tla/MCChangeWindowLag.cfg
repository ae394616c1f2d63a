SPECIFICATION FairSpec
CONSTANTS
  Apps = {a1}
  IsHub = FALSE
  StartTime = 0
  EndTime = 0
  StaleThreshold = 3
  NumClusters = 1
  Contents <- TwoContents
  StabilizationPeriod = 1
  Heartbeat = 1
  MaxAttempts = 2
  WaitBetween = 1
  TimelineCap = 1
  Delays = {0}
  PSChurn = FALSE
  MaxBehind = 2
  OutageEnd = 1
  MaxTime = 1
PROPERTIES ReportClockMonotone Heals
