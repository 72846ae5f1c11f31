SPECIFICATION FairSpec
CONSTANTS
  WorkerID = {w1, w2}
  Concurrency = 1
  Entries = 3
  MinIdle = 1
  ClaimBatch = 2
  BatchSize = 1
  MaxStuck = 1
  MaxFaults = 1
INVARIANTS
  TakenOverWhenIdle
PROPERTY
  EveryMessageRecovered
