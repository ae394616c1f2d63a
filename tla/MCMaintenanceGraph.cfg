SPECIFICATION Spec
CONSTANTS
  Apps = {a1}
  IsHub = FALSE
  StartTime = 0
  StaleThreshold = 1
  PoolNames <- Names
  PreferredPools <- Preferred
  PageLimit = 1
  Values <- AllValues
  MaxFaults = 2
  Failures <- NoneOrPools
INVARIANTS LastingFaultFound BlameIsReal GatesMatchPlatform AnalysesAgree
