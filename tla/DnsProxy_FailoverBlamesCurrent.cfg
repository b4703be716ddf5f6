\* Four queries expire in one sweep; the threshold is reached twice.
SPECIFICATION Spec
CONSTANTS
  Queries = {q1, q2, q3, q4}
  FirstQuery = q1
  SockOf <- MCSockOf
  MaxPending = 4
  UpstreamTimeout = 1
  FailThreshold = 2
  MaxApplies = 0
PROPERTY FailoverBlamesCurrent
CHECK_DEADLOCK FALSE
