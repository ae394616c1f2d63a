SPECIFICATION FairSpec
CONSTANTS
  Clusters = {"east"}
  Revisions = {"v1", "v2"}
  TargetLists <- OneTarget
  Findings <- OnFirst
  LagThreshold = 1
  StaleThreshold = 1
  Limit = 1
  CacheLag = TRUE
  OutageEnd = 0
  MaxEdits = 1
  MaxTime = 2
PROPERTIES SilenceNoticed ConvergenceSeen AgreesAgain
