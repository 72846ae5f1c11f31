----------------------------- MODULE TaskStatus -----------------------------
(***************************************************************************)
(* The status machine of a task and the retry decision: package task,      *)
(* files status.go and retry.go.  Nothing here has state.                  *)
(*                                                                         *)
(* Times are abstracted to what the code compares them for: a nullable     *)
(* next_retry_at is "null", in the "future", or "due".                     *)
(***************************************************************************)
EXTENDS Naturals

CONSTANT Task   \* ids of the tasks that may be submitted

Status == {"scheduled", "pending", "running", "success",
           "failed", "retrying", "dead"}

(***************************************************************************)
(* The statuses that may follow each status.  The map of the code allows   *)
(* more than the program does: no call takes running to retrying or dead   *)
(* in one step, or retrying to running.                                    *)
(***************************************************************************)
validTransitions ==
  [s \in Status |->
     CASE s = "scheduled" -> {"pending"}
       [] s = "pending"   -> {"running"}
       [] s = "running"   -> {"success", "failed", "retrying", "dead"}
       [] s = "failed"    -> {"retrying", "dead"}
       [] s = "retrying"  -> {"pending", "running"}
       [] OTHER           -> {}]

CanTransition(from, to) == from \in Status /\ to \in validTransitions[from]

IsTerminal(s) == s \in {"success", "dead"}

-----------------------------------------------------------------------------

RetryTime == {"null", "future", "due"}

FailureDecision == [status : {"retrying", "dead"},
                    retry_count : Nat,
                    next_retry_at : RetryTime]

(* Faulty variant: the budget is compared before the retry is counted. *)
DecideFailureOffByOne(retryCount, maxRetries) ==
  IF retryCount > maxRetries
  THEN [status |-> "dead", retry_count |-> maxRetries, next_retry_at |-> "null"]
  ELSE [status |-> "retrying", retry_count |-> retryCount + 1,
        next_retry_at |-> "future"]

(* Faulty variant: a retry without the time it is due. *)
DecideFailureNoTime(retryCount, maxRetries) ==
  IF retryCount + 1 > maxRetries
  THEN [status |-> "dead", retry_count |-> maxRetries, next_retry_at |-> "null"]
  ELSE [status |-> "retrying", retry_count |-> retryCount + 1,
        next_retry_at |-> "null"]

(***************************************************************************)
(* What becomes of a failed attempt.  The retry time is at least a second  *)
(* (BackoffDelay) after the time that the caller passes; it is in the      *)
(* future until RetryComesDue of TaskStore, at any moment, makes it due.   *)
(***************************************************************************)
DecideFailure(retryCount, maxRetries) ==
  IF retryCount + 1 > maxRetries
  THEN [status |-> "dead", retry_count |-> maxRetries, next_retry_at |-> "null"]
  ELSE [status |-> "retrying", retry_count |-> retryCount + 1,
        next_retry_at |-> "future"]

(* Faulty variant: the decision leaves its Status at the zero value. *)
NonRetryableNoStatus(retryCount) ==
  [status |-> "none", retry_count |-> retryCount, next_retry_at |-> "null"]

(* A non-retryable error buries the task without charging a retry. *)
NonRetryableDecision(retryCount) ==
  [status |-> "dead", retry_count |-> retryCount, next_retry_at |-> "null"]

(* The decision an actor holds while it has none to hold. *)
NoDecision == [status |-> "none", retry_count |-> 0, next_retry_at |-> "null"]

=============================================================================
