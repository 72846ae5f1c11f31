SPECIFICATION MeteredSpec
CONSTANTS
  Task = {t1}
  WorkerID = {w1}
  SchedulerID = {c1}
  NoWorker = NoWorker
  NoTask = NoTask
  MaxRetriesOf = {1}
  Concurrency = 2
  BatchSize = 2
  ClaimBatch = 2
  SchedulerBatch = 1
  MaxFaults = 1
  FaultKinds = {"worker", "scheduler"}
INVARIANTS
  TypeOK
  FailureHeldOnce
  RetryBudget
  NoOrphan
  OutcomesCountedOnce
