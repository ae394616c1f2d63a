SPECIFICATION Spec
CONSTANTS
  Apps = {a1}
  IsHub = FALSE
  StartTime = 1
  EndTime = 3
  StaleThreshold = 2
  NumClusters = 1
  Contents <- TwoContents
  StabilizationPeriod = 2
  Heartbeat = 2
  MaxAttempts = 2
  WaitBetween = 2
  TimelineCap = 3
  Delays = {0}
  PSChurn = TRUE
  MaxBehind = 0
  OutageEnd = 3
  MaxTime = 5
INVARIANTS TypeOK HardRefreshPaced StabilizationClean SucceededOnFreshEvidence AuditTrailAgrees
PROPERTIES ImplementsLifecycle
