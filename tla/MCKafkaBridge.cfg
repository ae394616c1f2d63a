SPECIFICATION FairSpec
CONSTANTS
  Members = {"e1", "e2", "h1", "w1"}
  ClusterOf <- Operators
  Group <- EastApart
  ClusterName <- Aggregated
  Partitions = {1}
  Topic <- MixedTopic
  NameOf <- LowerCase
  MaxDisruptions = 2
INVARIANTS TypeOK CommittedIsHandled WindowsFromEvents FirstEventWins
CHECK_DEADLOCK FALSE
PROPERTIES AllHandled
