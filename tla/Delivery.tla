------------------------------ MODULE Delivery ------------------------------
(***************************************************************************)
(* What becomes of the error of a handler: the registry and the two        *)
(* handlers of the program, the classes of errors, executeWithTimeout and  *)
(* the decision taken about the task, for one task over all its attempts.  *)
(* webhook.deliver waits for the answer of an endpoint and drains its body *)
(* under a deadline of its own, inside the deadline of the task.           *)
(*                                                                         *)
(* An attempt has no executions if the worker dies early, and several if   *)
(* its message is recovered; the scheduler charges the row when it is      *)
(* expired.  All of them meet in the updates of the row, which ask for a   *)
(* running row and not for an attempt.  MarkFailed and CompleteFailure are *)
(* one step: FailureHeldOnce of GoTaskQueue says that nothing comes        *)
(* between them, and DocClaims what a crash between them does.  How        *)
(* messages come to be read, recovered and published is the business of    *)
(* GoTaskQueue, and how long it takes that of Attempts.                    *)
(*                                                                         *)
(* A tick is a second.  In a handler only the endpoint takes time.         *)
(***************************************************************************)
EXTENDS Naturals, FiniteSetsExt

CONSTANTS Handler,         \* goroutines that may execute the task
          TaskTimeouts,    \* values timeout_seconds may take
          WebhookTimeout,  \* defaultWebhookTimeout
          MaxRetries       \* max_retries of the task

ASSUME DeliveryAssumption ==
  /\ TaskTimeouts \cup {WebhookTimeout} \subseteq Nat \ {0}
  /\ MaxRetries \in Nat

TS == INSTANCE TaskStatus WITH Task <- {}

VARIABLES job,      \* type and payload of the task
          timeout,  \* its timeout_seconds
          status,   \* status of the row
          retries,  \* retry_count
          age,      \* seconds since started_at, up to timeout
          found,    \* the scheduler has found the row expired
          run,      \* what each goroutine does: where it is, the seconds
                    \* since it called the handler, the code of the answer
                    \* (0 without one) and the class of the error returned
          charged,  \* failures charged to the row
          verdict   \* the execution that the row is finished by

row == <<job, timeout, status, retries, age>>

vars == <<row, found, run, charged, verdict>>

(* The last codes of every range and the first of the next. *)
Code == {101, 199, 200, 299, 300, 399, 400, 499, 500, 599}

(* demo.echo; webhook.deliver with a good payload, with one that does not  *)
(* parse or has no url, and with a method or url that net/http rejects;    *)
(* and a type without a handler.                                           *)
Job == {"echo", "webhook", "malformed", "unsendable", "unknown"}

NoRun == [phase |-> "none", elapsed |-> 0, code |-> 0, result |-> "none"]

Init ==
  /\ job \in Job
  /\ timeout \in TaskTimeouts
  /\ status = "pending"
  /\ retries = 0 /\ age = 0
  /\ found = FALSE
  /\ run = [h \in Handler |-> NoRun]
  /\ charged = 0
  /\ verdict = NoRun

-----------------------------------------------------------------------------
(* The handlers. *)

Registered(j) == j # "unknown"

Return(h, r) == run' = [run EXCEPT ![h].phase = "returned", ![h].result = r]

(* HandlerRegistry.Handle, and the handlers up to the request.  The error  *)
(* of http.NewRequestWithContext has no class, so it is retried.           *)
Handle(h) ==
  /\ run[h].phase = "called"
  /\ \/ ~Registered(job) /\ Return(h, "nonretryable")
     \/ job = "echo" /\ Return(h, "nil")
     \/ job = "malformed" /\ Return(h, "nonretryable")
     \/ job = "unsendable" /\ Return(h, "plain")
     \/ job = "webhook" /\ run' = [run EXCEPT ![h].phase = "await"]
  /\ UNCHANGED <<row, found, charged, verdict>>

(* Deadline of requestCtx: its own, or that of the task if it is earlier. *)
RequestDeadline == Min({timeout, WebhookTimeout})

(* Faulty variant: a code outside of the known ranges is final. *)
ClassifyUnexpectedFinal(c) ==
  CASE c >= 200 /\ c < 300 -> "nil"
    [] c >= 500            -> "retryable"
    [] OTHER               -> "nonretryable"

Classify(c) ==
  CASE c >= 200 /\ c < 300 -> "nil"
    [] c >= 400 /\ c < 500 -> "nonretryable"
    [] OTHER               -> "retryable"

(* The header of the answer arrives in time. *)
Respond(h, c) ==
  /\ run[h].phase = "await" /\ run[h].elapsed < RequestDeadline
  /\ run' = [run EXCEPT ![h].phase = "drain", ![h].code = c]
  /\ UNCHANGED <<row, found, charged, verdict>>

(* client.Do fails: the connection, or the deadline. *)
DoFails(h) ==
  /\ run[h].phase = "await"
  /\ Return(h, "retryable")
  /\ UNCHANGED <<row, found, charged, verdict>>

(* The body ends, or io.Copy fails; its error is ignored, and the code     *)
(* decides.                                                                *)
BodyDrained(h) ==
  /\ run[h].phase = "drain"
  /\ Return(h, Classify(run[h].code))
  /\ UNCHANGED <<row, found, charged, verdict>>


(* The deadline of the request ends both waits. *)
Deadline(h) == run[h].elapsed >= RequestDeadline /\ (DoFails(h) \/ BodyDrained(h))

-----------------------------------------------------------------------------
(* The worker. *)

(* handleMessage calls the handler: it has claimed the pending row, or has *)
(* the recovered message of a running one.                                 *)
Start(h) ==
  /\ run[h] = NoRun
  /\ \/ status = "pending" /\ status' = "running" /\ age' = 0
     \/ status = "running" /\ UNCHANGED <<status, age>>
  /\ run' = [run EXCEPT ![h].phase = "called"]
  /\ UNCHANGED <<job, timeout, retries, found, charged, verdict>>

Claimed == \E h \in Handler : status = "pending" /\ Start(h)

(* Faulty variant: the deadline is looked at only if there is an error. *)
OutcomeIfError(x) ==
  IF x.result # "nil" /\ x.elapsed >= timeout THEN "plain" ELSE x.result

(* executeWithTimeout: past the deadline of the task the error of the      *)
(* handler is replaced by one without a class.                             *)
Outcome(x) == IF x.elapsed >= timeout THEN "plain" ELSE x.result

Decide(decision) == status' = decision.status /\ retries' = decision.retry_count

Succeed(x) ==
  /\ Outcome(x) = "nil"
  /\ status' = "success"
  /\ verdict' = x
  /\ UNCHANGED <<retries, charged>>

Refuse(x) ==
  /\ Outcome(x) = "nonretryable"
  /\ Decide(TS!NonRetryableDecision(retries))
  /\ verdict' = x
  /\ UNCHANGED charged

Charge ==
  /\ Decide(TS!DecideFailure(retries, MaxRetries))
  /\ charged' = charged + 1
  /\ UNCHANGED verdict

(* The handler is back.  handleMessage and handleExecutionFailure decide   *)
(* the row if it is running, whichever attempt that is.                    *)
Finish(h) ==
  /\ run[h].phase = "returned"
  /\ run' = [run EXCEPT ![h] = NoRun]
  /\ \/ status = "running" /\ (Succeed(run[h]) \/ Refuse(run[h]))
     \/ status = "running" /\ Outcome(run[h]) \in {"plain", "retryable"} /\ Charge
     \/ status # "running" /\ UNCHANGED <<status, retries, charged, verdict>>
  /\ UNCHANGED <<job, timeout, age, found>>

(* The worker dies or is stopped, or its update fails. *)
Crash(h) ==
  /\ run[h] # NoRun
  /\ run' = [run EXCEPT ![h] = NoRun]
  /\ UNCHANGED <<row, found, charged, verdict>>

-----------------------------------------------------------------------------
(* The scheduler, and time. *)

(* ExpiredRunning finds the row ... *)
Scan ==
  /\ ~found
  /\ status = "running" /\ age = timeout
  /\ found' = TRUE
  /\ UNCHANGED <<row, run, charged, verdict>>

(* ... and recoverRunningTask charges it, if it is running, be it in a     *)
(* later attempt.                                                          *)
RecoverRunning ==
  /\ found
  /\ found' = FALSE
  /\ IF status = "running" THEN Charge
                           ELSE UNCHANGED <<status, retries, charged, verdict>>
  /\ UNCHANGED <<job, timeout, age, run>>

(* scheduleTask, once the backoff is over. *)
Dispatch ==
  /\ status = "retrying"
  /\ status' = "pending"
  /\ UNCHANGED <<job, timeout, retries, age, found, run, charged, verdict>>

Later(n) == IF n < timeout THEN n + 1 ELSE n

(* A second passes, for the row and for who waits for the endpoint. *)
Tick ==
  /\ age' = IF status = "running" THEN Later(age) ELSE age
  /\ run' = [h \in Handler |-> IF run[h].phase \in {"await", "drain"}
                               THEN [run[h] EXCEPT !.elapsed = Later(run[h].elapsed)]
                               ELSE run[h]]
  /\ UNCHANGED <<job, timeout, status, retries, found, charged, verdict>>

-----------------------------------------------------------------------------

Next ==
  \/ \E h \in Handler :
       \/ Start(h) \/ Handle(h) \/ DoFails(h) \/ BodyDrained(h) \/ Finish(h) \/ Crash(h)
       \/ \E c \in Code : Respond(h, c)
  \/ Scan \/ RecoverRunning \/ Dispatch \/ Tick

Spec == Init /\ [][Next]_vars

(* The endpoint owes nothing and no message has to be recovered; the       *)
(* program, its clock and the queue go on.                                 *)
FairSpec ==
  /\ Spec
  /\ \A h \in Handler : WF_vars(Handle(h)) /\ WF_vars(Deadline(h)) /\ WF_vars(Finish(h))
  /\ WF_vars(Claimed) /\ WF_vars(Scan) /\ WF_vars(RecoverRunning) /\ WF_vars(Dispatch)
  /\ WF_vars(Tick)

-----------------------------------------------------------------------------
(* Properties. *)

(***************************************************************************)
(* A webhook counts as delivered only if the endpoint accepted it in the   *)
(* execution that finished the row, and that one was back before the       *)
(* timeout of the task, be it of an earlier attempt: the deadline beats a  *)
(* nil error (executeWithTimeout).                                         *)
(***************************************************************************)
DeliveredInTime ==
  status = "success" =>
    /\ verdict.elapsed < timeout
    /\ job = "webhook" => verdict.code \in 200..299

(***************************************************************************)
(* The queue gives up a task only after a refusal that no retry can mend   *)
(* and that came in time, for a webhook an answer of the range 400 to 499, *)
(* or after the budget is used up: MaxRetries + 1 failures are charged to  *)
(* the row, by executions of whatever attempt and by the scheduler         *)
(* together, though no request may have been sent or many                  *)
(* (handleExecutionFailure, recoverRunningTask).                           *)
(***************************************************************************)
GivenUpForAReason ==
  status = "dead" =>
    \/ /\ verdict.result = "nonretryable" /\ verdict.elapsed < timeout
       /\ job = "webhook" => verdict.code \in 400..499
    \/ charged = MaxRetries + 1 /\ retries = MaxRetries


=============================================================================
