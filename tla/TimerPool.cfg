SPECIFICATION FairSpec
CONSTANTS
  a = a
  b = b
  NoTimer = NoTimer
  Timers <- MCTimers
  Interval <- MCInterval
  SingleShot <- MCSingleShot
  Idle = 3
  MaxTime = 4
  MaxOps = 3
INVARIANTS TypeOK WakeBound ListAgrees
PROPERTIES EarlyOnlyAfterIdle Fires DestroyedExits
CHECK_DEADLOCK FALSE
