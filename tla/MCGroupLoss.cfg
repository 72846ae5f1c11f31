SPECIFICATION LossFairSpec
CONSTANTS
  Task = {t1}
  WorkerID = {w1}
  SchedulerID = {c1}
  NoWorker = NoWorker
  NoTask = NoTask
  MaxRetriesOf = {1}
  Concurrency = 1
  BatchSize = 2
  ClaimBatch = 3
  SchedulerBatch = 1
  MaxFaults = 1
  FaultKinds = {"worker", "scheduler", "submit", "retransmit"}
  MaxLosses = 1
INVARIANT
  NoOrphan
PROPERTIES
  ImplementsLifecycle
  Completion
  QueueDrains
