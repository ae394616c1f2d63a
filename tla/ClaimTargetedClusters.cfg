SPECIFICATION FairSpec
CONSTANTS
  Members = {"e1", "w1"}
  ClusterOf <- Operators
  Group <- SharedGroup
  ClusterName <- Peers
  Partitions = {1}
  Topic <- SharedTopic
  NameOf <- LowerCase
  MaxDisruptions = 0
PROPERTY TargetedClustersValidate
CHECK_DEADLOCK FALSE
