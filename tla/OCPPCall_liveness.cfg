SPECIFICATION FairSpec
CONSTANTS
  t = t
  n = n
  None = None
  Calls <- OneCall
  IsTx <- OneIsTx
  ConnId <- OneConnId
  Timeout <- OneTimeout
  WellFormed <- OneCall
  ConnectorNum = 0
  RetryInterval = 1
  MaxRetry = 1
  MaxTime = 3
  MaxStarts = 1
  MaxClosed = 1
PROPERTIES
  CallReturns
  PendingErased
  QueueServed
CHECK_DEADLOCK FALSE
