SPECIFICATION FairSpec
CONSTANTS
  Apps = {a1}
  IsHub = FALSE
  StartTime = 0
  EndTime = 1
  StaleThreshold = 1
  NumClusters = 1
  Contents <- GoodContents
  StabilizationPeriod = 1
  Heartbeat = 2
  MaxAttempts = 1
  WaitBetween = 1
  TimelineCap = 1
  Delays = {0}
  PSChurn = TRUE
  MaxBehind = 0
  OutageEnd = 2
  MaxTime = 3
PROPERTIES SilenceReopens WindowDecided ReportsConverge
