---------------------------- MODULE MeteredQueue ----------------------------
(***************************************************************************)
(* GoTaskQueue with the counters of the metrics registry, conjoined to the *)
(* steps after which the code increments them: Service.Create counts a     *)
(* submission, the goroutines of the worker count what became of an        *)
(* attempt.  The scheduler has no registry.                                *)
(*                                                                         *)
(* A count is taken together with the call whose answer it waits for.  If  *)
(* that answer is lost, or the process dies and its counters with it, the  *)
(* program has counted less than the model: after a fault the counters are *)
(* upper bounds, and the property says no more of them.                    *)
(*                                                                         *)
(* tasks_started_total is left out: it has no bound, as a message may be   *)
(* recovered any number of times while its task runs.                      *)
(***************************************************************************)
EXTENDS GoTaskQueue

(* Task ids and consumer names are strings of bounded length. *)
ASSUME MeteredAssumption == IsFiniteSet(Task) /\ IsFiniteSet(WorkerID)

VARIABLE counters

Counter == {"submitted", "succeeded", "failed", "retried", "dead"}

meteredVars == <<vars, counters>>

MeteredInit == Init /\ counters = [c \in Counter |-> 0]

Add(cs) == counters' = [c \in Counter |-> counters[c] + IF c \in cs THEN 1 ELSE 0]

MeteredSubmit(t) ==
  /\ \/ /\ \E delayed \in BOOLEAN, maxRetries \in MaxRetriesOf :
             CreateTask(t, delayed, maxRetries)
        /\ Add({})
     \/ (PublishCreated(t) \/ ScheduleCreated(t)) /\ Add({"submitted"})
  /\ UNCHANGED <<workerVars, sched>>

(* Faulty variant: a success is counted before the row says so. *)
MeteredSucceedEarly(s) == SucceedTask(s) /\ Add({"succeeded"})

(* TaskSucceeded, if the update hit. *)
MeteredSucceed(s) ==
  /\ SucceedTask(s)
  /\ Add(IF Hits(TaskOf(s), "running") THEN {"succeeded"} ELSE {})

(* TaskRetried or TaskDead by the final status; TaskFailed when            *)
(* handleExecutionFailure returns, which for a dead task is after          *)
(* PublishDead.                                                            *)
MeteredFinish(s) ==
  /\ FinishFailure(s)
  /\ Add(CASE ~Hits(TaskOf(s), "failed") -> {}
           [] slot[s].decision.status = "dead" -> {"dead"}
           [] OTHER -> {"retried", "failed"})

MeteredHandle(s) ==
  /\ \/ GetTask(s) /\ Add({})
     \/ ClaimTask(s) /\ Add({})
     \/ MeteredSucceed(s)
     \/ \E nonRetryable \in BOOLEAN : FailTask(s, nonRetryable) /\ Add({})
     \/ MeteredFinish(s)
     \/ SendDead(s) /\ Add({"failed"})
     \/ AckMessage(s) /\ Add({})
  /\ UNCHANGED <<sched, req>>

(* A PublishDead that fails is logged, and TaskFailed counted all the same. *)
MeteredFault ==
  /\ Fault
  /\ Add(IF \E s \in Slot : slot[s].pc = "deadpub" /\ slot'[s].pc = "ack"
         THEN {"failed"} ELSE {})

MeteredStep ==
  /\ \/ \E t \in Task : MeteredSubmit(t)
     \/ \E s \in Slot : MeteredHandle(s)
     \/ /\ \/ \E w \in WorkerID : LoopStep(w)
           \/ \E c \in SchedulerID : SchedStep(c)
           \/ TimePasses
        /\ UNCHANGED counters
  /\ Quiet

MeteredNext == MeteredStep \/ MeteredFault

MeteredSpec == MeteredInit /\ [][MeteredNext]_meteredVars

-----------------------------------------------------------------------------

Having(status) == {t \in Task : tasks[t].status = status}

(* The tasks whose submission has returned. *)
Accepted == {t \in Task : Exists(t) /\ req[t] = "none"}

(* The retries that the rows were charged: <<t, n>> is the n-th of t. *)
ChargedRetries == UNION {{t} \X (1..tasks[t].retry_count) : t \in Task}

(* The goroutines that have a dead task to publish, and to count. *)
Buriers == {s \in Slot : slot[s].pc = "deadpub"}

(***************************************************************************)
(* Every outcome is counted once, although goroutines and schedulers race  *)
(* for it and the losers go through the same code: never more successes,   *)
(* retries, deaths and submissions than the rows have, whatever fails; and *)
(* without faults every success and every submission, and each failed      *)
(* attempt of a worker as a retry or as dead.  The deaths and retries that *)
(* the scheduler decides are counted by nobody (scheduler.go               *)
(* recoverRunningTask), so the last two remain bounds.                     *)
(***************************************************************************)
OutcomesCountedOnce ==
  /\ counters["submitted"] <= Cardinality({t \in Task : Exists(t)})
  /\ counters["succeeded"] <= Cardinality(Having("success"))
  /\ counters["retried"] <= Cardinality(ChargedRetries)
  /\ counters["dead"] <= Cardinality(Having("dead"))
  /\ counters["failed"] <= counters["retried"] + counters["dead"]
  /\ faults = 0 =>
       /\ counters["submitted"] = Cardinality(Accepted)
       /\ counters["succeeded"] = Cardinality(Having("success"))
       /\ counters["failed"] + Cardinality(Buriers)
            = counters["retried"] + counters["dead"]

=============================================================================
