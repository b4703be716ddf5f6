\* Two slots for three queries: the table fills up and slots are reused; two
\* timeouts fail over.  One change of the configuration; after it the task may
\* really stop in recv().
SPECIFICATION FairSpec
CONSTANTS
  Queries = {q1, q2, q3}
  FirstQuery = q1
  SockOf <- MCSockOf
  MaxPending = 2
  UpstreamTimeout = 1
  FailThreshold = 2
  MaxApplies = 1
INVARIANTS TypeOK QueryAccounted StrangeAnswerIsLate StatsAddUp
PROPERTY RefinesService
CHECK_DEADLOCK FALSE
