SPECIFICATION FairSpec
CONSTANTS
  Apps = {a1}
  IsHub = FALSE
  StartTime = 0
  StaleThreshold = 1
  PoolNames <- Names
  PreferredPools <- Preferred
  PageLimit = 2
  Namespaces = {"blue", "green"}
  Description <- WellOrDrifted
  World <- Rich
  MaxEvents = 1
  MaxLines = 1
  OutageEnd = 1
  Unreliable = {"Secret"}
  MaxChanges = 1
  MaxTime = 1
INVARIANTS TypeOK EvidenceCurrent DependenciesFailClosed
PROPERTIES ReportTimeForward ReportSettles
CHECK_DEADLOCK FALSE
