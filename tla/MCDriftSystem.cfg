SPECIFICATION FairSpec
CONSTANTS
  Apps = {a1}
  IsHub = FALSE
  StartTime = 0
  EndTime = 0
  StaleThreshold = 1
  PSStaleThreshold = 1
  LagThreshold = 1
  Reporters = {"east"}
  Targets <- OneTarget
  Revisions = {"v1", "v2"}
  Release = "v1"
  Findings <- EitherRevision
  Observed <- Good
  StabilizationPeriod = 0
  Heartbeat = 9
  MaxAttempts = 9
  WaitBetween = 9
  TimelineCap = 1
  OutageEnd = 0
  MaxEdits = 1
  MaxTime = 1
PROPERTIES ImplementsWindow NoFalseSuccess FalseSuccessEnds SuccessReached
