SPECIFICATION Spec
CONSTANTS
  a = a
  b = b
  c = c
  NULL = NULL
  Timers <- TwoTimers
  TimeoutMs <- MCTimeout
  Repeat <- MCRepeat
  MaxTime = 4
PROPERTY NotEarly
CHECK_DEADLOCK FALSE
