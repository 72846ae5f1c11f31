----------------------------- MODULE Scheduler -----------------------------
(***************************************************************************)
(* scheduler.Scheduler: every tick it fails the running tasks that         *)
(* exceeded their timeout, then publishes the delayed tasks that came due, *)
(* then the retrying ones.  Several processes run one scheduler each and   *)
(* nothing but the conditional updates of the store keeps them apart.      *)
(*                                                                         *)
(* Each scan is a step, and so is each call made for a scanned task: what  *)
(* the scan saw may be stale when the call runs.                           *)
(***************************************************************************)
EXTENDS TaskStore, RedisQueue

CONSTANTS SchedulerID,     \* the schedulers, one per process
          NoTask,          \* no task at hand
          SchedulerBatch   \* limit of every scan

ASSUME SchedulerAssumption ==
  /\ SchedulerBatch \in Nat \ {0}
  /\ NoTask \notin Task

VARIABLE sched   \* pc, scanned tasks still to do, task at hand, its decision

(***************************************************************************)
(* "recover", "zset" and "retry" are between two tasks of a scan, and      *)
(* "retry" with nothing left to do is the wait for the ticker; the others  *)
(* name the next call for the task at hand.                                *)
(***************************************************************************)
SchedPC == {"recover", "complete", "deadpub",
            "zset", "ztransition", "zpublish", "zremove",
            "retry", "rpublish"}

SchedIdle == [pc |-> "retry", todo |-> {}, cur |-> NoTask,
              decision |-> NoDecision]

SchedTypeOK ==
  /\ sched \in [SchedulerID -> [pc : SchedPC,
                                todo : SUBSET Task,
                                cur : Task \cup {NoTask},
                                decision : FailureDecision \cup {NoDecision}]]
  /\ \A c \in SchedulerID :
       /\ sched[c].pc \in {"complete", "deadpub", "ztransition", "zpublish",
                           "zremove", "rpublish"} => sched[c].cur \in Task
       /\ sched[c].pc = "complete" => sched[c].decision \in FailureDecision

SchedInit == sched = [c \in SchedulerID |-> SchedIdle]

(* Go on to another call for the task at hand. *)
Proceed(c, pc) == sched' = [sched EXCEPT ![c].pc = pc]

(* Take t from the scan, with pc as its next call. *)
Pick(c, t, pc) ==
  sched' = [sched EXCEPT ![c] = [SchedIdle EXCEPT !.pc = pc, !.cur = t,
                                                  !.todo = sched[c].todo \ {t}]]

(* The scan a call belongs to, where the loop over scanned tasks goes on. *)
ScanOf(pc) == CASE pc \in {"recover", "complete", "deadpub"} -> "recover"
                [] pc \in {"zset", "ztransition", "zpublish", "zremove"} -> "zset"
                [] OTHER -> "retry"

(* Drop the task at hand and go on with the scan. *)
NextItem(c) ==
  sched' = [sched EXCEPT ![c] = [SchedIdle EXCEPT !.pc = ScanOf(sched[c].pc),
                                                  !.todo = sched[c].todo]]

(* Drop a scanned task that needs nothing more. *)
Skip(c, t) == sched' = [sched EXCEPT ![c].todo = @ \ {t}]

(* A scan has returned the tasks S. *)
StartScan(c, pc, S) == sched' = [sched EXCEPT ![c] = [SchedIdle EXCEPT !.pc = pc,
                                                                       !.todo = S]]

ScanDone(c, pc) == sched[c].pc = pc /\ sched[c].todo = {}

-----------------------------------------------------------------------------
(* recoverExpiredRunning. *)

ScanExpiredRunning(c) ==
  /\ ScanDone(c, "retry")
  /\ \E S \in AtMost(SchedulerBatch, ExpiredRunning) : StartScan(c, "recover", S)
  /\ UNCHANGED <<tasks, redisVars>>

(* recoverRunningTask up to MarkFailed; ErrNotFound is no error. *)
RecoverMarkFailed(c, t) ==
  /\ sched[c].pc = "recover" /\ t \in sched[c].todo
  /\ MarkFailed(t)
  /\ IF Hits(t, "running")
     THEN sched' = [sched EXCEPT ![c] =
                      [pc |-> "complete", todo |-> @.todo \ {t}, cur |-> t,
                       decision |-> DecideFailure(tasks[t].retry_count,
                                                  tasks[t].max_retries)]]
     ELSE Skip(c, t)
  /\ UNCHANGED redisVars

RecoverCompleteFailure(c) ==
  /\ sched[c].pc = "complete"
  /\ CompleteFailure(sched[c].cur, sched[c].decision)
  /\ IF Hits(sched[c].cur, "failed") /\ sched[c].decision.status = "dead"
     THEN sched' = [sched EXCEPT ![c].pc = "deadpub", ![c].decision = NoDecision]
     ELSE NextItem(c)
  /\ UNCHANGED redisVars

RecoverPublishDead(c) ==
  /\ sched[c].pc = "deadpub"
  /\ PublishDead(sched[c].cur)
  /\ NextItem(c)
  /\ UNCHANGED tasks

-----------------------------------------------------------------------------
(* scheduleDueZSetTasks. *)

ScanDueTaskIDs(c) ==
  /\ ScanDone(c, "recover")
  /\ \E S \in AtMost(SchedulerBatch, zdue) : StartScan(c, "zset", S)
  /\ UNCHANGED <<tasks, redisVars>>

(* scheduleZSetTask reads the row: a task that is gone or no longer        *)
(* scheduled is only removed from the set.                                 *)
ZSetGet(c, t) ==
  /\ sched[c].pc = "zset" /\ t \in sched[c].todo
  /\ Pick(c, t, IF tasks[t].status = "scheduled" THEN "ztransition" ELSE "zremove")
  /\ UNCHANGED <<tasks, redisVars>>

(* scheduleTask: a task that somebody else moved on is left to them. *)
ZSetTransition(c) ==
  /\ sched[c].pc = "ztransition"
  /\ Transition(sched[c].cur, "scheduled", "pending", NoWorker)
  /\ Proceed(c, IF Hits(sched[c].cur, "scheduled") THEN "zpublish" ELSE "zremove")
  /\ UNCHANGED redisVars

ZSetPublish(c) ==
  /\ sched[c].pc = "zpublish"
  /\ PublishTask(sched[c].cur)
  /\ Proceed(c, "zremove")
  /\ UNCHANGED tasks

ZSetRemove(c) ==
  /\ sched[c].pc = "zremove"
  /\ Remove(sched[c].cur)
  /\ NextItem(c)
  /\ UNCHANGED tasks

-----------------------------------------------------------------------------
(* The retrying tasks, with which the tick ends. *)

ScanDueRetrying(c) ==
  /\ ScanDone(c, "zset")
  /\ \E S \in AtMost(SchedulerBatch, DueRetrying) : StartScan(c, "retry", S)
  /\ UNCHANGED <<tasks, redisVars>>

RetryTransition(c, t) ==
  /\ sched[c].pc = "retry" /\ t \in sched[c].todo
  /\ Transition(t, "retrying", "pending", NoWorker)
  /\ IF Hits(t, "retrying") THEN Pick(c, t, "rpublish") ELSE Skip(c, t)
  /\ UNCHANGED redisVars

RetryPublish(c) ==
  /\ sched[c].pc = "rpublish"
  /\ PublishTask(sched[c].cur)
  /\ NextItem(c)
  /\ UNCHANGED tasks

Tick(c) ==
  \/ ScanExpiredRunning(c)
  \/ \E t \in Task : RecoverMarkFailed(c, t)
  \/ RecoverCompleteFailure(c)
  \/ RecoverPublishDead(c)
  \/ ScanDueTaskIDs(c)
  \/ \E t \in Task : ZSetGet(c, t)
  \/ ZSetTransition(c)
  \/ ZSetPublish(c)
  \/ ZSetRemove(c)
  \/ ScanDueRetrying(c)
  \/ \E t \in Task : RetryTransition(c, t)
  \/ RetryPublish(c)

-----------------------------------------------------------------------------
(* What goes wrong around a scheduler. *)

(* Faulty variant: the task leaves the sorted set although it was not      *)
(* moved to pending.                                                       *)
SchedErrorRemoves(c) ==
  /\ sched[c].cur # NoTask
  /\ IF sched[c].pc = "ztransition" THEN Proceed(c, "zremove") ELSE NextItem(c)
  /\ UNCHANGED <<tasks, redisVars>>

(* A call for the task at hand fails: the error is logged and the scan     *)
(* goes on.  As with the worker, a lost reply is a failure one step later. *)
SchedCallError(c) ==
  /\ sched[c].cur # NoTask
  /\ NextItem(c)
  /\ UNCHANGED <<tasks, redisVars>>

(* The first call for a scanned task fails. *)
SchedItemError(c, t) ==
  /\ t \in sched[c].todo /\ sched[c].cur = NoTask
  /\ Skip(c, t)
  /\ UNCHANGED <<tasks, redisVars>>

(* A scan fails, which ends the tick; or the process dies at any point and *)
(* is started again.                                                       *)
SchedulerCrash(c) ==
  /\ sched[c] # SchedIdle
  /\ sched' = [sched EXCEPT ![c] = SchedIdle]
  /\ UNCHANGED <<tasks, redisVars>>

=============================================================================
