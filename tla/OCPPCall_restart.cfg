SPECIFICATION FairSpec
CONSTANTS
  t = t
  n = n
  None = None
  Calls <- OneCall
  IsTx <- OneIsTx
  ConnId <- OneConnId
  Timeout <- OneTimeout
  WellFormed <- OneCall
  ConnectorNum = 0
  RetryInterval = 1
  MaxRetry = 0
  MaxTime = 2
  MaxStarts = 2
  MaxClosed = 0
PROPERTIES
  QueueServed
CHECK_DEADLOCK FALSE
