SPECIFICATION FairSpec
CONSTANTS
  Job = {j1, j2}
  Req = {q1}
CHECK_DEADLOCK FALSE
INVARIANTS
  ConnectionsOutliveUsers
  CleanReturn
PROPERTY
  ShutdownEnds
