SPECIFICATION FairSpec
CONSTANTS
  a = a
  b = b
  c = c
  NULL = NULL
  Timers <- TwoTimers
  TimeoutMs <- MCTimeout
  Repeat <- MCRepeat
  MaxTime = 3
INVARIANTS
  TypeOK
  ListConsistent
  Sorted
  NoneLost
  NoCallbackAfterStop
  RepeatBound
PROPERTIES
  Fires
  
CHECK_DEADLOCK FALSE
