SPECIFICATION Spec
CONSTANTS
  Timeout = 2
  MinIdle = 2
  Slack = 1
  MaxWait = 1
  MaxRetries = 2
CHECK_DEADLOCK FALSE
INVARIANTS
  TypeOK
  ExecutionsBounded
  StaleIsShort
