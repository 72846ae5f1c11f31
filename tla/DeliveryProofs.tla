--------------------------- MODULE DeliveryProofs ---------------------------
(***************************************************************************)
(* What becomes of the error of a handler, for any number of executions at *)
(* once, any timeouts, any budget, any crashes and any behaviour of the    *)
(* endpoint: a task succeeds or is given up for a reason.                  *)
(*                                                                         *)
(* Both properties speak of a row that is finished, and what they say of   *)
(* it was settled long before, by the steps of an execution that may       *)
(* belong to an earlier attempt.  The invariant follows every execution:   *)
(* Judged says what the error of a handler that is back tells about the    *)
(* answer, before the row is decided.  And Charges ties the failures to    *)
(* the retry count, whoever charged them.                                  *)
(***************************************************************************)
EXTENDS Delivery, TLAPS

Class == {"none", "nil", "plain", "retryable", "nonretryable"}

Run == [phase : {"none", "called", "await", "drain", "returned"},
        elapsed : Nat, code : Nat, result : Class]

TypeOK ==
  /\ timeout \in Nat \ {0}
  /\ status \in {"pending", "running", "retrying", "success", "dead"}
  /\ retries \in 0..MaxRetries
  /\ run \in [Handler -> Run]
  /\ charged \in Nat

(* What the class of the error says of the answer. *)
Judged(x) ==
  /\ x.result # "none"
  /\ x.result = "nil" /\ job = "webhook" => x.code \in 200..299
  /\ x.result = "nonretryable" /\ job = "webhook" => x.code \in 400..499

Verdicts == \A h \in Handler : run[h].phase = "returned" => Judged(run[h])

(* A retry for every failure, but for the one that uses up the budget. *)
Charges == status # "dead" => charged = retries

DeliveryInv ==
  /\ TypeOK /\ Verdicts /\ Charges
  /\ DeliveredInTime /\ GivenUpForAReason

-----------------------------------------------------------------------------

LEMMA NoRunType == NoRun \in Run /\ NoRun.phase = "none"
BY DEF NoRun, Run, Class

LEMMA DeliveryInit == Init => DeliveryInv
<1> SUFFICES ASSUME Init PROVE DeliveryInv
  OBVIOUS
<1>1. TypeOK
  BY DeliveryAssumption, NoRunType DEF Init, TypeOK
<1>2. Verdicts
  BY NoRunType DEF Init, Verdicts
<1> QED BY <1>1, <1>2 DEF Init, DeliveryInv, Charges, DeliveredInTime, GivenUpForAReason

(* One execution goes on. *)
LEMMA RunChanges ==
  ASSUME TypeOK, Verdicts, NEW h \in Handler, NEW r \in Run,
         r.phase = "returned" => Judged(r),
         run' = [run EXCEPT ![h] = r], UNCHANGED job
  PROVE  run' \in [Handler -> Run] /\ Verdicts'
<1>1. run' \in [Handler -> Run]
  BY DEF TypeOK
<1>2. \A g \in Handler : run'[g] = IF g = h THEN r ELSE run[g]
  BY DEF TypeOK
<1>3. \A x : Judged(x)' <=> Judged(x)
  BY DEF Judged
<1>4. ASSUME NEW g \in Handler, run'[g].phase = "returned" PROVE Judged(run[g])'
  BY <1>2, <1>4 DEF Verdicts, Judged
<1> QED BY <1>1, <1>4 DEF Verdicts

(* An execution that goes on decides nothing. *)
LEMMA RunOnly ==
  ASSUME DeliveryInv, NEW h \in Handler, NEW r \in Run,
         r.phase = "returned" => Judged(r),
         run' = [run EXCEPT ![h] = r], UNCHANGED <<row, charged, verdict>>
  PROVE  DeliveryInv'
<1>1. UNCHANGED <<job, timeout, status, retries>>
  BY DEF row
<1>2. TypeOK /\ Verdicts
  BY DEF DeliveryInv
<1>3. run' \in [Handler -> Run] /\ Verdicts'
  BY <1>1, <1>2, RunChanges
<1>4. TypeOK'
  BY <1>1, <1>2, <1>3 DEF TypeOK
<1> QED BY <1>1, <1>3, <1>4
    DEF DeliveryInv, Charges, DeliveredInTime, GivenUpForAReason

(* The same, for a handler that returns. *)
LEMMA ReturnOnly ==
  ASSUME DeliveryInv, NEW h \in Handler, NEW c \in Class \ {"none"}, Return(h, c),
         c = "nil" /\ job = "webhook" => run[h].code \in 200..299,
         c = "nonretryable" /\ job = "webhook" => run[h].code \in 400..499,
         UNCHANGED <<row, charged, verdict>>
  PROVE  DeliveryInv'
<1> DEFINE r == [run[h] EXCEPT !.phase = "returned", !.result = c]
<1>1. run \in [Handler -> Run] /\ run[h] \in Run
  BY DEF DeliveryInv, TypeOK
<1>2. run' = [run EXCEPT ![h] = r]
  BY <1>1 DEF Return
<1>3. r \in Run /\ r.result = c /\ r.code = run[h].code
  BY <1>1 DEF Run
<1>4. Judged(r)
  BY <1>3 DEF Judged
<1> HIDE DEF r
<1> QED BY <1>2, <1>3, <1>4, RunOnly

(* An unknown type and a malformed payload are refused, and an echo is     *)
(* done.                                                                   *)
LEMMA HandleStep ==
  ASSUME DeliveryInv, NEW h \in Handler, Handle(h)
  PROVE  DeliveryInv'
<1>1. UNCHANGED <<row, charged, verdict>>
  BY DEF Handle
<1>2. CASE job # "webhook" /\ \E c \in {"nil", "plain", "nonretryable"} : Return(h, c)
  BY <1>1, <1>2, ReturnOnly DEF Class
<1>3. CASE run' = [run EXCEPT ![h].phase = "await"]
  <2> DEFINE r == [run[h] EXCEPT !.phase = "await"]
  <2>1. run \in [Handler -> Run] /\ run[h] \in Run
    BY DEF DeliveryInv, TypeOK
  <2>2. run' = [run EXCEPT ![h] = r] /\ r \in Run /\ r.phase = "await"
    BY <1>3, <2>1 DEF Run
  <2> HIDE DEF r
  <2> QED BY <1>1, <2>2, RunOnly
<1> QED BY <1>2, <1>3 DEF Handle, Registered

LEMMA RespondStep ==
  ASSUME DeliveryInv, NEW h \in Handler, NEW c \in Code, Respond(h, c)
  PROVE  DeliveryInv'
<1> DEFINE r == [run[h] EXCEPT !.phase = "drain", !.code = c]
<1>1. run \in [Handler -> Run] /\ run[h] \in Run /\ c \in Nat
  BY DEF DeliveryInv, TypeOK, Code
<1>2. run' = [run EXCEPT ![h] = r] /\ UNCHANGED <<row, charged, verdict>>
  BY <1>1 DEF Respond
<1>3. r \in Run /\ r.phase = "drain"
  BY <1>1 DEF Run
<1> HIDE DEF r
<1> QED BY <1>2, <1>3, RunOnly

LEMMA Classified ==
  ASSUME NEW c \in Nat
  PROVE  /\ Classify(c) \in Class \ {"none"}
         /\ Classify(c) = "nil" => c \in 200..299
         /\ Classify(c) = "nonretryable" => c \in 400..499
<1>1. CASE c >= 200 /\ c < 300
  BY <1>1 DEF Classify, Class
<1>2. CASE c >= 400 /\ c < 500
  BY <1>2 DEF Classify, Class
<1>3. CASE ~(c >= 200 /\ c < 300) /\ ~(c >= 400 /\ c < 500)
  BY <1>3 DEF Classify, Class
<1> QED BY <1>1, <1>2, <1>3

(* The handler of a webhook is back: the request failed, or the code of    *)
(* the answer says how it ended.                                           *)
LEMMA WebhookReturns ==
  ASSUME DeliveryInv, NEW h \in Handler, DoFails(h) \/ BodyDrained(h)
  PROVE  DeliveryInv'
<1>1. UNCHANGED <<row, charged, verdict>>
  BY DEF DoFails, BodyDrained
<1>2. CASE DoFails(h)
  BY <1>1, <1>2, ReturnOnly DEF DoFails, Class
<1>3. CASE BodyDrained(h)
  <2>1. run[h].code \in Nat
    BY DEF DeliveryInv, TypeOK, Run
  <2> QED BY <1>1, <1>3, <2>1, Classified, ReturnOnly DEF BodyDrained
<1> QED BY <1>2, <1>3

(* A failure is charged to a running row. *)
LEMMA ChargeRow ==
  ASSUME DeliveryInv, status = "running", Charge, UNCHANGED <<job, timeout>>
  PROVE  /\ status' \in {"retrying", "dead"} /\ retries' \in 0..MaxRetries /\ charged' \in Nat
         /\ Charges' /\ DeliveredInTime' /\ GivenUpForAReason'
<1>1. MaxRetries \in Nat /\ retries \in 0..MaxRetries /\ charged = retries
  BY DeliveryAssumption DEF DeliveryInv, TypeOK, Charges
<1>2. charged' = charged + 1
  BY DEF Charge
<1>3. \/ status' = "dead" /\ retries' = MaxRetries /\ retries = MaxRetries
      \/ status' = "retrying" /\ retries' = retries + 1 /\ retries' \in 0..MaxRetries
  BY <1>1 DEF Charge, Decide, TS!DecideFailure
<1> QED BY <1>1, <1>2, <1>3 DEF Charges, DeliveredInTime, GivenUpForAReason

(* The worker decides a row that is running: the deadline of the task      *)
(* replaces the error of the handler.                                      *)
LEMMA FinishStep ==
  ASSUME DeliveryInv, NEW h \in Handler, Finish(h)
  PROVE  DeliveryInv'
<1>1. /\ TypeOK /\ Verdicts /\ run[h].phase = "returned"
      /\ run' = [run EXCEPT ![h] = NoRun] /\ UNCHANGED <<job, timeout, age>>
  BY DEF DeliveryInv, Finish
<1>2. run' \in [Handler -> Run] /\ Verdicts'
  BY <1>1, NoRunType, RunChanges
<1>3. Judged(run[h]) /\ run[h] \in Run /\ timeout \in Nat
  BY <1>1 DEF Verdicts, TypeOK
<1>4. Outcome(run[h]) \in {"nil", "nonretryable"} =>
        Outcome(run[h]) = run[h].result /\ run[h].elapsed < timeout
  BY <1>3 DEF Outcome, Run
<1>5. CASE status = "running" /\ Succeed(run[h])
  <2>1. /\ status' = "success" /\ verdict' = run[h] /\ UNCHANGED <<retries, charged>>
        /\ run[h].result = "nil" /\ run[h].elapsed < timeout
    BY <1>4, <1>5 DEF Succeed
  <2>2. TypeOK' /\ Charges'
    BY <1>1, <1>2, <1>5, <2>1 DEF DeliveryInv, TypeOK, Charges
  <2>3. DeliveredInTime' /\ GivenUpForAReason'
    BY <1>1, <1>3, <2>1 DEF DeliveredInTime, GivenUpForAReason, Judged
  <2> QED BY <1>2, <2>2, <2>3 DEF DeliveryInv
<1>6. CASE status = "running" /\ Refuse(run[h])
  <2>1. /\ status' = "dead" /\ verdict' = run[h] /\ UNCHANGED <<retries, charged>>
        /\ run[h].result = "nonretryable" /\ run[h].elapsed < timeout
    BY <1>4, <1>6 DEF Refuse, Decide, TS!NonRetryableDecision
  <2>2. TypeOK' /\ Charges'
    BY <1>1, <1>2, <2>1 DEF TypeOK, Charges
  <2>3. DeliveredInTime' /\ GivenUpForAReason'
    BY <1>1, <1>3, <2>1 DEF DeliveredInTime, GivenUpForAReason, Judged
  <2> QED BY <1>2, <2>2, <2>3 DEF DeliveryInv
<1>7. CASE status = "running" /\ Charge
  <2>1. /\ status' \in {"retrying", "dead"} /\ retries' \in 0..MaxRetries /\ charged' \in Nat
        /\ Charges' /\ DeliveredInTime' /\ GivenUpForAReason'
    BY <1>1, <1>7, ChargeRow
  <2>2. TypeOK'
    BY <1>1, <1>2, <2>1 DEF TypeOK
  <2> QED BY <1>2, <2>1, <2>2 DEF DeliveryInv
<1>8. CASE UNCHANGED <<status, retries, charged, verdict>>
  <2>1. UNCHANGED <<row, charged, verdict>>
    BY <1>1, <1>8 DEF row
  <2> QED BY <1>1, <2>1, NoRunType, RunOnly
<1> QED BY <1>5, <1>6, <1>7, <1>8 DEF Finish

LEMMA StartStep ==
  ASSUME DeliveryInv, NEW h \in Handler, Start(h)
  PROVE  DeliveryInv'
<1> DEFINE r == [run[h] EXCEPT !.phase = "called"]
<1>1. TypeOK /\ Verdicts /\ run[h] \in Run
  BY DEF DeliveryInv, TypeOK
<1>2. /\ run' = [run EXCEPT ![h] = r] /\ UNCHANGED <<job, timeout, retries, charged, verdict>>
      /\ status \in {"pending", "running"} /\ status' = "running"
  BY <1>1 DEF Start, TypeOK
<1>3. r \in Run /\ r.phase = "called"
  BY <1>1 DEF Run
<1> HIDE DEF r
<1>4. run' \in [Handler -> Run] /\ Verdicts'
  BY <1>1, <1>2, <1>3, RunChanges
<1>5. TypeOK'
  BY <1>1, <1>2, <1>4 DEF TypeOK
<1> QED BY <1>2, <1>4, <1>5
    DEF DeliveryInv, Charges, DeliveredInTime, GivenUpForAReason

LEMMA SchedulerStep ==
  ASSUME DeliveryInv, Scan \/ RecoverRunning \/ Dispatch
  PROVE  DeliveryInv'
<1>1. TypeOK /\ Verdicts /\ UNCHANGED <<job, timeout, run>>
  BY DEF DeliveryInv, Scan, RecoverRunning, Dispatch, row
<1>2. Verdicts'
  BY <1>1 DEF Verdicts, Judged
<1>3. CASE status = "running" /\ Charge
  <2>1. /\ status' \in {"retrying", "dead"} /\ retries' \in 0..MaxRetries /\ charged' \in Nat
        /\ Charges' /\ DeliveredInTime' /\ GivenUpForAReason'
    BY <1>1, <1>3, ChargeRow
  <2>2. TypeOK'
    BY <1>1, <2>1 DEF TypeOK
  <2> QED BY <1>2, <2>1, <2>2 DEF DeliveryInv
<1>4. CASE UNCHANGED <<status, retries, charged, verdict>>
  BY <1>1, <1>2, <1>4
     DEF DeliveryInv, TypeOK, Charges, DeliveredInTime, GivenUpForAReason
<1>5. CASE Dispatch
  BY <1>1, <1>2, <1>5
     DEF DeliveryInv, TypeOK, Charges, DeliveredInTime, GivenUpForAReason, Dispatch
<1> QED BY <1>3, <1>4, <1>5 DEF Scan, RecoverRunning, row

LEMMA TickStep ==
  ASSUME DeliveryInv, Tick
  PROVE  DeliveryInv'
<1>1. TypeOK /\ Verdicts /\ UNCHANGED <<job, timeout, status, retries, charged, verdict>>
  BY DEF DeliveryInv, Tick
<1>2. ASSUME NEW h \in Handler
      PROVE  run'[h] \in Run /\ (run'[h].phase = "returned" => run'[h] = run[h])
  <2>1. run[h] \in Run /\ timeout \in Nat
    BY <1>1 DEF TypeOK
  <2>2. Later(run[h].elapsed) \in Nat
    BY <2>1 DEF Later, Run
  <2>3. run'[h] = IF run[h].phase \in {"await", "drain"}
                  THEN [run[h] EXCEPT !.elapsed = Later(run[h].elapsed)] ELSE run[h]
    BY DEF Tick
  <2> QED BY <2>1, <2>2, <2>3 DEF Run
<1>3. run' \in [Handler -> Run]
  BY <1>2 DEF Tick
<1>4. Verdicts'
  BY <1>1, <1>2 DEF Verdicts, Judged
<1> QED BY <1>1, <1>3, <1>4
    DEF DeliveryInv, TypeOK, Charges, DeliveredInTime, GivenUpForAReason

LEMMA DeliveryNext == DeliveryInv /\ [Next]_vars => DeliveryInv'
<1> SUFFICES ASSUME DeliveryInv, [Next]_vars PROVE DeliveryInv'
  OBVIOUS
<1>1. CASE UNCHANGED vars
  BY <1>1 DEF vars, row, DeliveryInv, TypeOK, Verdicts, Judged, Charges, DeliveredInTime,
              GivenUpForAReason
<1>2. ASSUME NEW h \in Handler, Crash(h) PROVE DeliveryInv'
  BY <1>2, NoRunType, RunOnly DEF Crash
<1>3. CASE Next
  BY <1>2, <1>3, StartStep, HandleStep, RespondStep, WebhookReturns, FinishStep,
     SchedulerStep, TickStep DEF Next
<1> QED BY <1>1, <1>3

LEMMA DeliverySafe == Spec => []DeliveryInv
BY DeliveryInit, DeliveryNext, PTL DEF Spec

(***************************************************************************)
(* Whatever the endpoint does and when, and however many executions there  *)
(* are: a task that succeeded was finished by one that was back before the *)
(* timeout, and whose webhook was accepted (executeWithTimeout,            *)
(* WebhookDeliverHandler.Handle).                                          *)
(***************************************************************************)
THEOREM DeliveredInTimeSafe == Spec => []DeliveredInTime
<1>1. DeliveryInv => DeliveredInTime
  BY DEF DeliveryInv
<1> QED BY <1>1, DeliverySafe, PTL

(***************************************************************************)
(* A task is given up after a refusal in time, or after exactly            *)
(* MaxRetries + 1 failures were charged to it, by executions that fail,    *)
(* crash or outlive their attempt and by the scheduler together            *)
(* (handleExecutionFailure, recoverRunningTask).                           *)
(***************************************************************************)
THEOREM GivenUpSafe == Spec => []GivenUpForAReason
<1>1. DeliveryInv => GivenUpForAReason
  BY DEF DeliveryInv
<1> QED BY <1>1, DeliverySafe, PTL

=============================================================================
