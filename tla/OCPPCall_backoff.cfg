SPECIFICATION Spec
CONSTANTS
  t = t
  n = n
  None = None
  Calls <- OneCall
  IsTx <- OneIsTx
  ConnId <- OneConnId
  Timeout <- LongTimeout
  WellFormed <- OneCall
  ConnectorNum = 0
  RetryInterval = 1
  MaxRetry = 2
  MaxTime = 6
  MaxStarts = 1
  MaxClosed = 1
INVARIANTS
  WireBudget
  Backoff
PROPERTIES
  ImplementsContract
CHECK_DEADLOCK FALSE
