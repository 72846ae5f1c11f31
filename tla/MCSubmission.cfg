SPECIFICATION FairSpec
CONSTANTS
  Request = {r1, r2, r3}
  k1 = k1
  Key = {k1}
  Blank = Blank
  NoKey = NoKey
  NoTask = NoTask
  Body <- MCBody
  MaxInt4 = 1000
  Resends = 1
CHECK_DEADLOCK FALSE
INVARIANTS
  TypeOK
  SameAnswer
  PublishedOnce
  LossIsReported
  RetryIsServed
PROPERTY
  EveryRequestAnswered
