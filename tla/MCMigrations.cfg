SPECIFICATION FairSpec
CONSTANTS
  Run = {r1, r2, r3}
  Versions = 3
  MaxCrashes = 1
  NoRun = NoRun
INVARIANTS
  ExecutedOnceInOrder
  DoneIsComplete
PROPERTY
  EveryRunEnds
