SPECIFICATION DelaySpec
CONSTANTS
  Task = {t1, t2, t3}
  Second = 2
  Interval = 3
  Batch = 1
  MaxDelay = 4
  MaxTime = 14
CHECK_DEADLOCK FALSE
INVARIANTS
  LessThanASecondEarly
  DispatchedInTime
