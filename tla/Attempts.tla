------------------------------ MODULE Attempts ------------------------------
(***************************************************************************)
(* The attempts of one task against the clock.  GoTaskQueue lets time pass *)
(* at any moment; here a tick is a second and the durations of the code    *)
(* are what they are: the deadline executeWithTimeout gives a handler, the *)
(* expiry of a running row (ExpiredRunning), pendingMinIdle, and the       *)
(* exponential BackoffDelay.  A handler returns at most Slack seconds      *)
(* after its deadline, and a tick of the scheduler takes less than one.    *)
(* A loop that was given a message waits for a slot before it starts the   *)
(* handler; the handlers of the other tasks free slots by their own        *)
(* deadlines, so it waits at most MaxWait seconds.                         *)
(*                                                                         *)
(* An update compares the status of the row and nothing that would tell    *)
(* one attempt from another, and a recovered message of a running task     *)
(* starts a handler of its own, with a deadline of its own.  The model     *)
(* numbers the attempts, as the code does not, and remembers for every     *)
(* running handler which attempt it belongs to.  MarkFailed and            *)
(* CompleteFailure are one step: FailureHeldOnce of GoTaskQueue says that  *)
(* nothing comes between them.                                             *)
(***************************************************************************)
EXTENDS Naturals, FiniteSets

CONSTANTS Timeout, MinIdle, Slack, MaxWait, MaxRetries

ASSUME AttemptsAssumption ==
  /\ {Timeout, MinIdle} \subseteq Nat \ {0}
  /\ {Slack, MaxWait, MaxRetries} \subseteq Nat

VARIABLES status,   \* of the row
          attempt,  \* number of claims so far
          age,      \* seconds since started_at, up to Timeout
          retries,  \* retry_count
          wait,     \* seconds until next_retry_at
          msgs,     \* messages published so far, one per attempt
          read,     \* messages delivered so far
          idle,     \* idle time of those delivered and not acknowledged
          waiting,  \* messages that wait for a slot: message, recovered or
                    \* not, seconds since it was delivered or claimed
          execs,    \* running handlers: message, attempt, seconds left, and
                    \* since the message was delivered or claimed
          scanned   \* the scheduler found the row expired

vars == <<status, attempt, age, retries, wait, msgs, read, idle,
          waiting, execs, scanned>>

Attempt == 1..(MaxRetries + 1)

(* A message is in the hands of a worker no longer than this. *)
Longest == MaxWait + Timeout + Slack

Waiting == [msg : Attempt, recovered : BOOLEAN, held : 0..MaxWait]

Exec == [msg : Attempt, attempt : Attempt, left : 0..(Timeout + Slack), held : 0..Longest]

TypeOK ==
  /\ status \in {"pending", "running", "retrying", "success", "dead"}
  /\ attempt \in 0..(MaxRetries + 1)
  /\ age \in 0..Timeout
  /\ retries \in 0..MaxRetries
  /\ wait \in 0..32
  /\ msgs \in Attempt
  /\ read \in 0..msgs
  /\ DOMAIN idle \subseteq 1..read /\ \A m \in DOMAIN idle : idle[m] \in 0..MinIdle
  /\ waiting \subseteq Waiting
  /\ execs \subseteq Exec
  /\ scanned \in BOOLEAN

Init ==
  /\ status = "pending"
  /\ attempt = 0 /\ age = 0 /\ retries = 0 /\ wait = 0
  /\ msgs = 1 /\ read = 0
  /\ idle = <<>>
  /\ waiting = {} /\ execs = {}
  /\ scanned = FALSE

-----------------------------------------------------------------------------

(* 1, 2, 4, ... seconds, 32 from the sixth retry on. *)
BackoffDelay(retryCount) ==
  2^((IF retryCount < 1 THEN 1 ELSE IF retryCount > 6 THEN 6 ELSE retryCount) - 1)

(* The delays of the first n retries together: 1 + 2 + 4 + ... *)
TotalBackoff(n) == IF n <= 6 THEN 2^n - 1 ELSE 63 + 32 * (n - 6)

Delivered(m) == m \in DOMAIN idle

Touch(m) == [n \in DOMAIN idle \cup {m} |-> IF n = m THEN 0 ELSE idle[n]]

Without(m) == [n \in DOMAIN idle \ {m} |-> idle[n]]

Started(h, a) == [msg |-> h.msg, attempt |-> a, left |-> Timeout + Slack, held |-> h.held]

row == <<status, attempt, age, retries, wait, scanned>>

(* The loop has been given the message, and waits for a slot. *)
Given(m, recovered) ==
  /\ idle' = Touch(m)
  /\ waiting' = waiting \cup {[msg |-> m, recovered |-> recovered, held |-> 0]}
  /\ UNCHANGED <<row, msgs, execs>>

(* XREADGROUP delivers the next message. *)
Read ==
  /\ read < msgs
  /\ read' = read + 1
  /\ Given(read + 1, FALSE)

(* Faulty variant: messages are claimed however short they were idle. *)
RecoverAnyIdle(m) ==
  /\ Delivered(m)
  /\ Given(m, TRUE)
  /\ UNCHANGED read

(* XCLAIM of a message that has been idle for MinIdle. *)
Recover(m) ==
  /\ Delivered(m) /\ idle[m] >= MinIdle
  /\ Given(m, TRUE)
  /\ UNCHANGED read

(* A goroutine claims the pending row and starts the handler ... *)
Claim(h) ==
  /\ status = "pending"
  /\ status' = "running"
  /\ attempt' = attempt + 1
  /\ age' = 0
  /\ execs' = execs \cup {Started(h, attempt + 1)}
  /\ UNCHANGED <<retries, wait, idle, scanned>>

(* ... or executes the running row of a recovered message once more ... *)
Repeat(h) ==
  /\ status = "running" /\ h.recovered
  /\ execs' = execs \cup {Started(h, attempt)}
  /\ UNCHANGED <<row, idle>>

(* ... or there is nothing to execute: the message of a finished task is   *)
(* acknowledged, any other is left pending.                                *)
Skip(h) ==
  /\ status # "pending" /\ ~(status = "running" /\ h.recovered)
  /\ idle' = IF status \in {"success", "dead"} THEN Without(h.msg) ELSE idle
  /\ UNCHANGED <<row, execs>>

(* A slot is free: spawnHandle, and handleMessage up to the handler. *)
Start(h) ==
  /\ waiting' = waiting \ {h}
  /\ Claim(h) \/ Repeat(h) \/ Skip(h)
  /\ UNCHANGED <<msgs, read>>

(* Faulty variant: the budget is compared before the retry is counted. *)
ChargeOffByOne ==
  /\ IF retries > MaxRetries
     THEN status' = "dead" /\ UNCHANGED <<retries, wait>>
     ELSE /\ status' = "retrying"
          /\ retries' = retries + 1
          /\ wait' = BackoffDelay(retries + 1)

(* A failure is charged to the row, whichever attempt it was. *)
Charge ==
  /\ IF retries + 1 > MaxRetries
     THEN status' = "dead" /\ retries' = MaxRetries /\ UNCHANGED wait
     ELSE /\ status' = "retrying"
          /\ retries' = retries + 1
          /\ wait' = BackoffDelay(retries + 1)

(* A non-retryable error buries the row. *)
Bury ==
  /\ status' = "dead"
  /\ UNCHANGED <<retries, wait>>

(* A handler returns, or is cut off by its deadline, and its goroutine     *)
(* updates the row if it is running; then it acknowledges the message.     *)
Return(x) ==
  /\ execs' = execs \ {x}
  /\ \/ /\ status = "running"
        /\ \/ status' = "success" /\ x.left > Slack /\ UNCHANGED <<retries, wait>>
           \/ Charge
           \/ Bury /\ x.left > Slack
        /\ idle' = Without(x.msg)
     \/ /\ status # "running"
        /\ UNCHANGED <<status, retries, wait, idle>>
  /\ UNCHANGED <<attempt, age, msgs, read, waiting, scanned>>

(* The worker stops or dies, or its update fails: nothing is written. *)
Vanish(x) ==
  /\ waiting' = waiting \ {x}
  /\ execs' = execs \ {x}
  /\ UNCHANGED <<row, msgs, read, idle>>

(* The scheduler finds the row expired ... *)
Scan ==
  /\ ~scanned
  /\ status = "running" /\ age = Timeout
  /\ scanned' = TRUE
  /\ UNCHANGED <<status, attempt, age, retries, wait, msgs, read, idle, waiting, execs>>

(* ... and fails it, if it is still running. *)
RecoverRunning ==
  /\ scanned
  /\ scanned' = FALSE
  /\ IF status = "running" THEN Charge
                           ELSE UNCHANGED <<status, retries, wait>>
  /\ UNCHANGED <<attempt, age, msgs, read, idle, waiting, execs>>

(* Faulty variant: a retrying row is due at once. *)
DispatchAtOnce ==
  /\ status = "retrying"
  /\ status' = "pending"
  /\ msgs' = msgs + 1
  /\ UNCHANGED <<attempt, age, retries, wait, read, idle, waiting, execs, scanned>>

(* The scheduler dispatches the next attempt. *)
Dispatch ==
  /\ status = "retrying" /\ wait = 0
  /\ status' = "pending"
  /\ msgs' = msgs + 1
  /\ UNCHANGED <<attempt, age, retries, wait, read, idle, waiting, execs, scanned>>

(* A second passes. *)
Tick ==
  /\ \A h \in waiting : h.held < MaxWait
  /\ \A x \in execs : x.left > 0
  /\ ~scanned
  /\ waiting' = {[h EXCEPT !.held = @ + 1] : h \in waiting}
  /\ execs' = {[x EXCEPT !.left = @ - 1, !.held = @ + 1] : x \in execs}
  /\ age' = IF age < Timeout THEN age + 1 ELSE age
  /\ wait' = IF wait > 0 THEN wait - 1 ELSE 0
  /\ idle' = [m \in DOMAIN idle |-> IF idle[m] < MinIdle THEN idle[m] + 1 ELSE MinIdle]
  /\ UNCHANGED <<status, attempt, retries, msgs, read, scanned>>

Next ==
  \/ Read
  \/ \E m \in 1..msgs : Recover(m)
  \/ \E h \in waiting : Start(h) \/ Vanish(h)
  \/ \E x \in execs : Return(x) \/ Vanish(x)
  \/ Scan \/ RecoverRunning \/ Dispatch \/ Tick

Spec == Init /\ [][Next]_vars

-----------------------------------------------------------------------------
(* Properties. *)

(***************************************************************************)
(* A slow task is executed several times at once, but not arbitrarily      *)
(* often.  Handlers of one message may start together, however long apart  *)
(* it was claimed for them: each of them waited for a slot of its own      *)
(* worker (acquireSlot).  But it is claimed for them MinIdle apart (XCLAIM *)
(* sets the idle time to zero), and the last is done with it at Longest.   *)
(***************************************************************************)
ExecutionsBounded ==
  \A m \in Attempt :
    Cardinality({x \in waiting \cup execs : x.msg = m}) <= 1 + Longest \div MinIdle

(***************************************************************************)
(* The updates compare the status and not the attempt, so a handler that a *)
(* recovered message started for one attempt may decide a later one.  How  *)
(* far it reaches is limited by the backoff alone: what it has left of its *)
(* time and the delays of all retries since its attempt (TotalBackoff now, *)
(* less what it was at its attempt) fit into Timeout + Slack               *)
(* (BackoffDelay, worker.go handleExecutionFailure).                       *)
(***************************************************************************)
StaleIsShort ==
  \A x \in execs : status = "running" =>
    x.left + TotalBackoff(attempt - 1) <= Timeout + Slack + TotalBackoff(x.attempt - 1)

=============================================================================
