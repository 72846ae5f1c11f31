------------------------------ MODULE Service ------------------------------
(***************************************************************************)
(* task.Service.Create, the submission of a task over HTTP: the row is     *)
(* inserted first, and the task is published or put into the sorted set by *)
(* a second call.  Submissions run concurrently, one per new task id.      *)
(*                                                                         *)
(* A submission that repeats an idempotency key finds the existing row and *)
(* returns without publishing: it changes nothing here.                    *)
(***************************************************************************)
EXTENDS TaskStore, RedisQueue

VARIABLE req   \* the call that the submission of each task makes next

ReqStep == {"none", "publish", "schedule"}

ReqTypeOK == req \in [Task -> ReqStep]

ReqInit == req = [t \in Task |-> "none"]

(* store.Create; the status tells whether run_at is in the future. *)
CreateTask(t, delayed, maxRetries) ==
  /\ Create(t, IF delayed THEN "scheduled" ELSE "pending", maxRetries)
  /\ req' = [req EXCEPT ![t] = IF delayed THEN "schedule" ELSE "publish"]
  /\ UNCHANGED redisVars

PublishCreated(t) ==
  /\ req[t] = "publish"
  /\ PublishTask(t)
  /\ req' = [req EXCEPT ![t] = "none"]
  /\ UNCHANGED tasks

ScheduleCreated(t) ==
  /\ req[t] = "schedule"
  /\ ScheduleTask(t)
  /\ req' = [req EXCEPT ![t] = "none"]
  /\ UNCHANGED tasks

Submit(t) ==
  \/ \E delayed \in BOOLEAN, maxRetries \in MaxRetriesOf :
       CreateTask(t, delayed, maxRetries)
  \/ PublishCreated(t)
  \/ ScheduleCreated(t)

(* The second call fails, or the process dies before it: an error goes to  *)
(* the client and the row stays.                                           *)
SubmitError(t) ==
  /\ req[t] # "none"
  /\ req' = [req EXCEPT ![t] = "none"]
  /\ UNCHANGED <<tasks, redisVars>>

=============================================================================
