------------------------------ MODULE TaskStore ------------------------------
(***************************************************************************)
(* The Postgres table of tasks and the statements task.Store runs on it.   *)
(* Every statement is one SQL statement, hence one atomic step; the ones   *)
(* that change a row are conditional on its status, and the caller learns  *)
(* whether the condition held (a row comes back) or not (ErrNotFound).     *)
(*                                                                         *)
(* The clock is abstracted to the comparisons the statements make:         *)
(* started_at becomes "expired" when timeout_seconds have passed since,    *)
(* and next_retry_at becomes "due".  The actions at the end let that time  *)
(* pass.                                                                   *)
(***************************************************************************)
EXTENDS TaskStatus, FiniteSets

CONSTANTS WorkerID,      \* names of the workers (consumer names)
          NoWorker,      \* worker_id IS NULL
          MaxRetriesOf   \* values of max_retries a submission may carry

ASSUME StoreAssumption == MaxRetriesOf \subseteq Nat

VARIABLE tasks           \* the table: a row for every task id

StartTime == {"null", "recent", "expired"}

Row == [status : Status \cup {"absent"},
        retry_count : Nat,
        max_retries : Nat,
        next_retry_at : RetryTime,
        started_at : StartTime,
        worker_id : WorkerID \cup {NoWorker}]

(* The row of an id that has not been inserted. *)
AbsentRow == [status |-> "absent", retry_count |-> 0, max_retries |-> 0,
              next_retry_at |-> "null", started_at |-> "null",
              worker_id |-> NoWorker]

StoreTypeOK == tasks \in [Task -> Row]

StoreInit == tasks = [t \in Task |-> AbsentRow]

Exists(t) == tasks[t].status # "absent"

Done(t) == IsTerminal(tasks[t].status)

-----------------------------------------------------------------------------
(* Statements that change rows. *)

(* INSERT of a new row; the status says whether run_at is in the future. *)
Create(t, status, maxRetries) ==
  /\ ~Exists(t)
  /\ tasks' = [tasks EXCEPT ![t] = [AbsentRow EXCEPT !.status = status,
                                                     !.max_retries = maxRetries]]

(* Faulty variant: a condition on running that lets failed rows through. *)
HitsFailedToo(t, from) == \/ tasks[t].status = from
                          \/ from = "running" /\ tasks[t].status = "failed"

(* Does a statement conditional on this status update the row of t? *)
Hits(t, from) == tasks[t].status = from

(* worker_id and started_at change only on the way to running, and         *)
(* next_retry_at only on the way to pending.                               *)
MovedRow(row, to, workerID) ==
  [row EXCEPT
     !.status = to,
     !.worker_id = IF to = "running" THEN workerID ELSE row.worker_id,
     !.started_at = IF to = "running" THEN "recent" ELSE row.started_at,
     !.next_retry_at = IF to = "pending" THEN "null" ELSE row.next_retry_at]

(* Faulty variant: an update without the condition on the status. *)
TransitionBlind(t, from, to, workerID) ==
  tasks' = [tasks EXCEPT ![t] = MovedRow(tasks[t], to, workerID)]

(* Transition: compare-and-swap on the status. *)
Transition(t, from, to, workerID) ==
  /\ CanTransition(from, to)
  /\ tasks' =
       IF Hits(t, from)
       THEN [tasks EXCEPT ![t] = MovedRow(tasks[t], to, workerID)]
       ELSE tasks

MarkFailed(t) ==
  tasks' = IF Hits(t, "running")
           THEN [tasks EXCEPT ![t] = [@ EXCEPT !.status = "failed"]]
           ELSE tasks

CompleteFailure(t, decision) ==
  tasks' = IF Hits(t, "failed")
           THEN [tasks EXCEPT ![t] =
                  [@ EXCEPT !.status = decision.status,
                            !.retry_count = decision.retry_count,
                            !.next_retry_at = decision.next_retry_at]]
           ELSE tasks

-----------------------------------------------------------------------------
(* Scans.  A scan returns at most limit of the rows that match; which ones *)
(* depends on their times, which the model does not order.                 *)

AtMost(limit, S) ==
  {B \in SUBSET S : \/ B = S /\ Cardinality(S) <= limit
                    \/ Cardinality(B) = limit}

ExpiredRunning ==
  {t \in Task : tasks[t].status = "running" /\ tasks[t].started_at = "expired"}

DueRetrying ==
  {t \in Task : tasks[t].status = "retrying" /\ tasks[t].next_retry_at = "due"}

-----------------------------------------------------------------------------
(* Passage of time. *)

(* timeout_seconds have passed since a running task was last claimed. *)
RunExpires(t) ==
  /\ tasks[t].status = "running" /\ tasks[t].started_at = "recent"
  /\ tasks' = [tasks EXCEPT ![t] = [@ EXCEPT !.started_at = "expired"]]

(* The backoff of a retrying task is over. *)
RetryComesDue(t) ==
  /\ tasks[t].status = "retrying" /\ tasks[t].next_retry_at = "future"
  /\ tasks' = [tasks EXCEPT ![t] = [@ EXCEPT !.next_retry_at = "due"]]

=============================================================================
