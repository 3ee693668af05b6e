SPECIFICATION Spec
CONSTANTS
  t = t
  n = n
  None = None
  Calls <- TwoCalls
  IsTx <- TwoIsTx
  ConnId <- TwoConnId
  Timeout <- TwoTimeout
  WellFormed <- TwoCalls
  ConnectorNum = 0
  RetryInterval = 1
  MaxRetry = 1
  MaxTime = 2
  MaxStarts = 1
  MaxClosed = 1
INVARIANTS
  TypeOK
  TrueMeansCallResult
  RetryBudget
PROPERTIES
  OutcomeIsFinal
  StopQuiesces
CHECK_DEADLOCK FALSE
