SPECIFICATION Spec
CONSTANTS
  Task = {t1}
  WorkerID = {w1}
  SchedulerID = {c1, c2}
  NoWorker = NoWorker
  NoTask = NoTask
  MaxRetriesOf = {1}
  Concurrency = 1
  BatchSize = 1
  ClaimBatch = 2
  SchedulerBatch = 1
  MaxFaults = 1
  FaultKinds = {"worker", "scheduler", "submit", "retransmit"}
SYMMETRY ActorSymmetry
INVARIANTS
  FailureHeldOnce
  NoOrphan
  DeadLetterOnce
