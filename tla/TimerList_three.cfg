SPECIFICATION Spec
CONSTANTS
  a = a
  b = b
  c = c
  NULL = NULL
  Timers <- ThreeTimers
  TimeoutMs <- MCTimeout
  Repeat <- MCRepeat
  MaxTime = 4
INVARIANT NoneLost
CHECK_DEADLOCK FALSE
