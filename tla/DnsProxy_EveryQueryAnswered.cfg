\* The configuration is applied once, at any moment.  The task stops in recv().
SPECIFICATION FairSpec
CONSTANTS
  Queries = {q1, q2}
  FirstQuery = q1
  SockOf <- MCSockOf
  MaxPending = 2
  UpstreamTimeout = 1
  FailThreshold = 2
  MaxApplies = 1
PROPERTY EveryQueryAnswered
CHECK_DEADLOCK FALSE
