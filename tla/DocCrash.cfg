SPECIFICATION FairSpec
CONSTANTS
  Task = {t1}
  WorkerID = {w1}
  SchedulerID = {c1}
  NoWorker = NoWorker
  NoTask = NoTask
  MaxRetriesOf = {1}
  Concurrency = 1
  BatchSize = 1
  ClaimBatch = 3
  SchedulerBatch = 1
  MaxFaults = 1
  FaultKinds = {"worker"}
PROPERTIES
  CrashedTaskRecovered
