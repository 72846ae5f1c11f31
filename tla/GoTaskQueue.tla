---------------------------- MODULE GoTaskQueue ----------------------------
(***************************************************************************)
(* The whole program: submissions, workers and schedulers of any number of *)
(* processes around one Postgres table and one Redis, the passage of time, *)
(* and what goes wrong between them.  A process that dies is a crash of    *)
(* its worker, of its scheduler and of its submissions, which are separate *)
(* steps here.                                                             *)
(***************************************************************************)
EXTENDS Worker, Scheduler, Service

CONSTANTS MaxFaults,    \* bound on the faults of a behaviour
          FaultKinds    \* the kinds of fault that occur

ASSUME FaultAssumption ==
  /\ MaxFaults \in Nat
  /\ FaultKinds \subseteq {"worker", "scheduler", "submit", "retransmit"}

(***************************************************************************)
(* interrupted is a history variable that no component reads: the pairs of *)
(* a task and the two-step operation on it that a fault cut in two, so     *)
(* that its second step will never be taken.                               *)
(***************************************************************************)
VARIABLES faults, interrupted

vars == <<tasks, redisVars, workerVars, sched, req, faults, interrupted>>

Operation == {"dispatch", "delay", "failure", "deadletter"}

TypeOK ==
  /\ StoreTypeOK
  /\ QueueTypeOK
  /\ WorkerTypeOK
  /\ SchedTypeOK
  /\ ReqTypeOK
  /\ faults \in 0..MaxFaults
  /\ interrupted \subseteq Operation \X Task

Init ==
  /\ StoreInit
  /\ QueueInit
  /\ WorkerInit
  /\ SchedInit
  /\ ReqInit
  /\ faults = 0
  /\ interrupted = {}

-----------------------------------------------------------------------------
(* Who is between the two steps of an operation on t. *)

SlotAt(s, pc, t) == slot[s].pc = pc /\ TaskOf(s) = t

SchedAt(c, pcs, t) == sched[c].pc \in pcs /\ sched[c].cur = t

(* Between the update that made t pending, or its insertion, and XADD. *)
Publishing(t) == \/ req[t] = "publish"
                 \/ \E c \in SchedulerID : SchedAt(c, {"zpublish", "rpublish"}, t)

(* Between MarkFailed and CompleteFailure. *)
Finalizing(t) == \/ \E s \in Slot : SlotAt(s, "complete", t)
                 \/ \E c \in SchedulerID : SchedAt(c, {"complete"}, t)

(* Between CompleteFailure and the message to the dead stream. *)
Burying(t) == \/ \E s \in Slot : SlotAt(s, "deadpub", t)
              \/ \E c \in SchedulerID : SchedAt(c, {"deadpub"}, t)

(* The operations that are cut in two when an actor stops here. *)
SlotCut(s) == CASE slot[s].pc = "complete" -> {<<"failure", TaskOf(s)>>}
                [] slot[s].pc = "deadpub" -> {<<"deadletter", TaskOf(s)>>}
                [] OTHER -> {}

SchedCut(c) == CASE sched[c].pc = "complete" -> {<<"failure", sched[c].cur>>}
                 [] sched[c].pc = "deadpub" -> {<<"deadletter", sched[c].cur>>}
                 [] sched[c].pc \in {"zpublish", "rpublish"} ->
                      {<<"dispatch", sched[c].cur>>}
                 [] OTHER -> {}

ReqCut(t) == CASE req[t] = "publish" -> {<<"dispatch", t>>}
               [] req[t] = "schedule" -> {<<"delay", t>>}
               [] OTHER -> {}

-----------------------------------------------------------------------------
(* Steps without faults. *)

Quiet == UNCHANGED <<faults, interrupted>>

SubmitStep(t) == Submit(t) /\ UNCHANGED <<workerVars, sched>>

LoopStep(w) ==
  /\ \/ InspectPending(w)
     \/ ClaimPending(w)
     \/ ReadBatch(w)
     \/ ReadNothing(w)
     \/ SpawnHandle(w)
  /\ UNCHANGED <<sched, req>>

HandleStep(s) == HandleMessage(s) /\ UNCHANGED <<sched, req>>

SchedStep(c) == Tick(c) /\ UNCHANGED <<workerVars, req>>

TaskTime(t) == /\ RunExpires(t) \/ RetryComesDue(t)
               /\ UNCHANGED <<redisVars, workerVars, sched, req>>

EntryTime(e) == EntryGoesIdle(e) /\ UNCHANGED <<tasks, workerVars, sched, req>>

DelayTime(t) == DelayPasses(t) /\ UNCHANGED <<tasks, workerVars, sched, req>>

TickTime(w) == RecoveryTickElapses(w) /\ UNCHANGED <<sched, req>>

TimePasses == \/ \E t \in Task : TaskTime(t) \/ DelayTime(t)
              \/ \E e \in pel : EntryTime(e)
              \/ \E w \in WorkerID : TickTime(w)

Step ==
  /\ \/ \E t \in Task : SubmitStep(t)
     \/ \E w \in WorkerID : LoopStep(w)
     \/ \E s \in Slot : HandleStep(s)
     \/ \E c \in SchedulerID : SchedStep(c)
     \/ TimePasses
  /\ Quiet

-----------------------------------------------------------------------------
(* Faults. *)

Cut(ops) == interrupted' = interrupted \cup ops

WorkerFault ==
  /\ "worker" \in FaultKinds
  /\ \/ \E s \in Slot : HandleError(s) /\ Cut(SlotCut(s))
     \/ \E s \in Slot : DeadPublishError(s) /\ Cut(SlotCut(s))
     \/ \E w \in WorkerID : LoopError(w) /\ Cut({})
     \/ \E w \in WorkerID : ClaimReplyLost(w) /\ Cut({})
     \/ \E w \in WorkerID : ReadReplyLost(w) /\ Cut({})
     \/ \E w \in WorkerID : WorkerCrash(w) /\ Cut(UNION {SlotCut(s) : s \in SlotsOf(w)})
  /\ UNCHANGED <<sched, req>>

SchedulerFault ==
  /\ "scheduler" \in FaultKinds
  /\ \E c \in SchedulerID :
       /\ \/ SchedCallError(c)
          \/ \E t \in Task : SchedItemError(c, t)
          \/ SchedulerCrash(c)
       /\ Cut(SchedCut(c))
  /\ UNCHANGED <<workerVars, req>>

SubmitFault ==
  /\ "submit" \in FaultKinds
  /\ \E t \in Task : SubmitError(t) /\ Cut(ReqCut(t))
  /\ UNCHANGED <<workerVars, sched>>

(* The reply to XADD is lost and the Redis client sends the command again: *)
(* an additional message, with the publisher still at its call.            *)
Retransmit ==
  /\ "retransmit" \in FaultKinds
  /\ \E t \in Task : Publishing(t) /\ PublishTask(t)
  /\ UNCHANGED <<tasks, workerVars, sched, req, interrupted>>

Fault ==
  /\ faults < MaxFaults
  /\ faults' = faults + 1
  /\ WorkerFault \/ SchedulerFault \/ SubmitFault \/ Retransmit

-----------------------------------------------------------------------------

Next == Step \/ Fault

Spec == Init /\ [][Next]_vars

(* No behaviour has more messages: each is a submission, a retry or a      *)
(* retransmission.                                                         *)
EntryBound ==
  LET most == CHOOSE m \in MaxRetriesOf \cup {0} : \A n \in MaxRetriesOf : n <= m
  IN  MaxFaults + Cardinality(Task) * (1 + most)

(***************************************************************************)
(* Every goroutine keeps running, handlers return (their context has a     *)
(* deadline), the ticker ticks and time passes.  Nobody has to submit a    *)
(* task, and no fault has to happen.                                       *)
(***************************************************************************)
Fairness ==
  /\ \A t \in Task : /\ WF_vars(SubmitStep(t) /\ Exists(t) /\ Quiet)
                     /\ WF_vars(TaskTime(t) /\ Quiet)
                     /\ WF_vars(DelayTime(t) /\ Quiet)
  /\ \A e \in 1..EntryBound : WF_vars(EntryTime(e) /\ Quiet)
  /\ \A w \in WorkerID : WF_vars(LoopStep(w) /\ Quiet) /\ WF_vars(TickTime(w) /\ Quiet)
  /\ \A s \in Slot : WF_vars(HandleStep(s) /\ Quiet)
  /\ \A c \in SchedulerID : WF_vars(SchedStep(c) /\ Quiet)

FairSpec == Spec /\ Fairness

-----------------------------------------------------------------------------
(* Safety. *)

(***************************************************************************)
(* The failure of an attempt is in one pair of hands: between MarkFailed   *)
(* and CompleteFailure the task stays failed, no second goroutine or       *)
(* scheduler is between its own two updates of the same task, and the      *)
(* decision taken from the row that MarkFailed returned is still the right *)
(* one for the row (worker.go handleExecutionFailure and scheduler.go      *)
(* recoverRunningTask use it one call later).                              *)
(***************************************************************************)
FreshDecision(d, row) == \/ d = DecideFailure(row.retry_count, row.max_retries)
                         \/ d = NonRetryableDecision(row.retry_count)

SlotFailureHeld ==
  \A s \in Slot : slot[s].pc = "complete" =>
    /\ tasks[TaskOf(s)].status = "failed"
    /\ FreshDecision(slot[s].decision, tasks[TaskOf(s)])
    /\ \A r \in Slot : SlotAt(r, "complete", TaskOf(s)) => r = s

SchedFailureHeld ==
  \A c \in SchedulerID : sched[c].pc = "complete" =>
    /\ tasks[sched[c].cur].status = "failed"
    /\ FreshDecision(sched[c].decision, tasks[sched[c].cur])
    /\ \A d \in SchedulerID : SchedAt(d, {"complete"}, sched[c].cur) => d = c
    /\ \A s \in Slot : ~SlotAt(s, "complete", sched[c].cur)

FailureHeldOnce == SlotFailureHeld /\ SchedFailureHeld

(***************************************************************************)
(* No task is charged more retries than it was given, although the column  *)
(* is overwritten with a value computed from an earlier read: what the     *)
(* CHECK of the migration demands of CompleteFailure.                      *)
(***************************************************************************)
RetryBudget == \A t \in Task : tasks[t].retry_count <= tasks[t].max_retries

(***************************************************************************)
(* Nobody waits for what nobody will do: every unfinished task is in reach *)
(* of a loop that moves it on, or is at one of the second steps that a     *)
(* fault cut off.  A pending task has a message that is undelivered or     *)
(* still pending in the group, or its publisher is at work; a scheduled    *)
(* one is in the sorted set or about to be; a failed one is in the hands   *)
(* of an actor; a running or retrying one has the time the scheduler's     *)
(* scan selects it by.  In particular no acknowledgement takes away the    *)
(* last message of a task that still needs one.                            *)
(***************************************************************************)
HasMessage(t) == \E e \in Entry : stream[e] = t /\ Unacked(e)

PendingReachable(t) ==
  tasks[t].status = "pending" =>
    HasMessage(t) \/ Publishing(t) \/ <<"dispatch", t>> \in interrupted

ScheduledReachable(t) ==
  tasks[t].status = "scheduled" =>
    t \in zset \/ req[t] = "schedule" \/ <<"delay", t>> \in interrupted

FailedReachable(t) ==
  tasks[t].status = "failed" => Finalizing(t) \/ <<"failure", t>> \in interrupted

TimedReachable(t) ==
  /\ tasks[t].status = "running" => tasks[t].started_at # "null"
  /\ tasks[t].status = "retrying" => tasks[t].next_retry_at # "null"

NoOrphan == \A t \in Task : /\ PendingReachable(t)
                            /\ ScheduledReachable(t)
                            /\ FailedReachable(t)
                            /\ TimedReachable(t)

(***************************************************************************)
(* The program publishes a task to the dead stream at most once, only when *)
(* it is dead, and unless a fault prevents it does so, although workers    *)
(* and schedulers race to bury a task (PublishDead after CompleteFailure). *)
(* deadStream counts publications: the Redis client may retransmit the     *)
(* XADD of one, which then has two entries in the stream.                  *)
(***************************************************************************)
DeadLetterOnce ==
  \A t \in Task :
    /\ deadStream[t] <= 1
    /\ deadStream[t] = 1 => tasks[t].status = "dead" /\ ~Burying(t)
    /\ tasks[t].status = "dead" =>
         deadStream[t] = 1 \/ Burying(t) \/ <<"deadletter", t>> \in interrupted

(***************************************************************************)
(* What the program does to the rows, whoever does it, is the life of a    *)
(* task that TaskLifecycle promises.                                       *)
(***************************************************************************)
Lifecycle == INSTANCE TaskLifecycle
  WITH Budget <- MaxRetriesOf,
       life <- [t \in Task |-> [status |-> tasks[t].status,
                                retries |-> tasks[t].retry_count,
                                budget |-> tasks[t].max_retries]]

ImplementsLifecycle == Lifecycle!LifeSpec

-----------------------------------------------------------------------------
(* Liveness, under FairSpec. *)

(* A fault cut an operation without which the task cannot go on. *)
Stuck(t) == \E op \in {"dispatch", "delay", "failure"} : <<op, t>> \in interrupted

(***************************************************************************)
(* Every submitted task ends in success or dead, unless a fault cut an     *)
(* operation on it in two: crashes, lost replies and lost claims alone are *)
(* recovered from.                                                         *)
(***************************************************************************)
Completion == \A t \in Task : Exists(t) ~> (Done(t) \/ Stuck(t))

(***************************************************************************)
(* In the end every message is acknowledged, the ones that recovery left   *)
(* behind or retransmission doubled included, unless its task is stuck.    *)
(***************************************************************************)
QueueDrains == <>[](\A e \in Entry : Unacked(e) => Stuck(stream[e]))

=============================================================================
