SPECIFICATION Spec
CONSTANTS
  Clusters = {"east", "west"}
  Revisions = {"v1", "v2"}
  TargetLists <- EastOrBoth
  Findings <- SyncedOrNot
  LagThreshold = 1
  StaleThreshold = 1
  Limit = 2
  CacheLag = FALSE
  OutageEnd = 1
  MaxEdits = 1
  MaxTime = 2
INVARIANTS TypeOK NeverLaggingEarly Agrees SeriesRemembered
PROPERTIES PhaseChangeAnnounced
