---------------------------- MODULE QueueProofs ----------------------------
(***************************************************************************)
(* GoTaskQueue for every value of its constants: any number of tasks,      *)
(* workers, slots, schedulers, retries and faults.  Three parts:           *)
(*                                                                         *)
(*   Types      every variable keeps its type (TypeCorrect).               *)
(*   Failures   the failure of an attempt is held by one actor at a time   *)
(*              and charged within the budget (FailureSafe, BudgetSafe).   *)
(*   Lives      the program implements TaskLifecycle (Implements).         *)
(***************************************************************************)
EXTENDS GoTaskQueue, TLAPS

(***************************************************************************)
(* TYPES                                                                   *)
(*                                                                         *)
(* The statements of the store and the commands of Redis first, then the   *)
(* steps of each component, then the whole.                                *)
(***************************************************************************)

-----------------------------------------------------------------------------
(* The statements of the store keep the table well formed. *)

USE DEF StoreTypeOK, Row, Status, RetryTime, StartTime

LEMMA CreateType ==
  ASSUME StoreTypeOK, NEW t \in Task, NEW st \in {"scheduled", "pending"},
         NEW m \in MaxRetriesOf, Create(t, st, m)
  PROVE  StoreTypeOK'
BY StoreAssumption DEF Create, AbsentRow

LEMMA TransitionType ==
  ASSUME StoreTypeOK, NEW t \in Task, NEW from, NEW to \in Status,
         NEW w \in WorkerID \cup {NoWorker}, Transition(t, from, to, w)
  PROVE  StoreTypeOK'
<1>1. CASE Hits(t, from)
  <2>1. MovedRow(tasks[t], to, w) \in Row
    BY DEF MovedRow
  <2>2. tasks' = [tasks EXCEPT ![t] = MovedRow(tasks[t], to, w)]
    BY <1>1 DEF Transition
  <2> QED BY <2>1, <2>2
<1>2. CASE ~Hits(t, from)
  BY <1>2 DEF Transition
<1> QED BY <1>1, <1>2

LEMMA MarkFailedType ==
  ASSUME StoreTypeOK, NEW t \in Task, MarkFailed(t)
  PROVE  StoreTypeOK'
<1>1. CASE Hits(t, "running")
  BY <1>1 DEF MarkFailed
<1>2. CASE ~Hits(t, "running")
  BY <1>2 DEF MarkFailed
<1> QED BY <1>1, <1>2

LEMMA CompleteFailureType ==
  ASSUME StoreTypeOK, NEW t \in Task, NEW d \in FailureDecision,
         CompleteFailure(t, d)
  PROVE  StoreTypeOK'
<1>1. CASE Hits(t, "failed")
  <2> DEFINE row == [tasks[t] EXCEPT !.status = d.status,
                                     !.retry_count = d.retry_count,
                                     !.next_retry_at = d.next_retry_at]
  <2>1. d.status \in Status /\ d.retry_count \in Nat /\ d.next_retry_at \in RetryTime
    BY DEF FailureDecision
  <2>2. row \in Row
    BY <2>1
  <2>3. tasks' = [tasks EXCEPT ![t] = row]
    BY <1>1 DEF CompleteFailure
  <2> QED BY <2>2, <2>3
<1>2. CASE ~Hits(t, "failed")
  BY <1>2 DEF CompleteFailure
<1> QED BY <1>1, <1>2

LEMMA TaskTimeType ==
  ASSUME StoreTypeOK, NEW t \in Task, RunExpires(t) \/ RetryComesDue(t)
  PROVE  StoreTypeOK'
BY DEF RunExpires, RetryComesDue

(* The decisions taken from a row are decisions. *)
LEMMA DecisionType ==
  ASSUME NEW r \in Nat, NEW m \in Nat
  PROVE  /\ DecideFailure(r, m) \in FailureDecision
         /\ NonRetryableDecision(r) \in FailureDecision
BY DEF DecideFailure, NonRetryableDecision, FailureDecision

HIDE DEF StoreTypeOK, Row, Status, RetryTime, StartTime

-----------------------------------------------------------------------------
(* The commands of Redis keep its state well formed and every message. *)

USE DEF Entry

LEMMA PublishType ==
  ASSUME QueueTypeOK, NEW t \in Task, PublishTask(t)
  PROVE  QueueTypeOK' /\ Entry \subseteq Entry'
<1>1. /\ Len(stream) \in Nat /\ Len(stream') = Len(stream) + 1
      /\ stream' \in Seq(Task)
  BY DEF QueueTypeOK, PublishTask
<1> QED BY <1>1 DEF QueueTypeOK, PublishTask

LEMMA ReadType ==
  ASSUME QueueTypeOK, XReadGroup(BatchSize), delivered < Len(stream)
  PROVE  /\ QueueTypeOK'
         /\ Entry \subseteq Entry'
         /\ (delivered + 1)..ReadUpTo(BatchSize) \subseteq Entry'
<1>1. delivered' \in delivered..Len(stream)
  BY WorkerAssumption DEF QueueTypeOK, XReadGroup, ReadUpTo
<1>2. delivered \in Nat /\ Len(stream) \in Nat
  BY DEF QueueTypeOK
<1>3. delivered' = ReadUpTo(BatchSize)
  BY DEF XReadGroup
<1>4. (delivered + 1)..ReadUpTo(BatchSize) \subseteq 1..delivered'
  BY <1>1, <1>2, <1>3
<1>5. pel' \subseteq 1..delivered'
  <2>1. pel \subseteq 1..delivered'
    BY <1>1, <1>2 DEF QueueTypeOK
  <2>2. pel' = pel \cup ((delivered + 1)..ReadUpTo(BatchSize))
    BY DEF XReadGroup
  <2> QED BY <1>4, <2>1, <2>2
<1>6. UNCHANGED stream /\ 1..delivered' \subseteq 1..Len(stream)
  BY <1>1, <1>2 DEF XReadGroup
<1>7. QueueTypeOK'
  BY <1>1, <1>2, <1>5, <1>6 DEF QueueTypeOK, XReadGroup
<1> QED BY <1>4, <1>6, <1>7

LEMMA ClaimType ==
  ASSUME QueueTypeOK, NEW ids, XClaim(ids)
  PROVE  QueueTypeOK' /\ Entry \subseteq Entry'
BY DEF QueueTypeOK, XClaim

LEMMA AckType ==
  ASSUME QueueTypeOK, NEW e, Ack(e)
  PROVE  QueueTypeOK' /\ Entry \subseteq Entry'
BY DEF QueueTypeOK, Ack

LEMMA ZSetType ==
  ASSUME QueueTypeOK, NEW t \in Task, ScheduleTask(t) \/ Remove(t)
  PROVE  QueueTypeOK' /\ Entry \subseteq Entry'
BY DEF QueueTypeOK, ScheduleTask, Remove

LEMMA PublishDeadType ==
  ASSUME QueueTypeOK, NEW t \in Task, PublishDead(t)
  PROVE  QueueTypeOK' /\ Entry \subseteq Entry'
BY DEF QueueTypeOK, PublishDead

LEMMA RedisTimeType ==
  ASSUME QueueTypeOK,
         (\E e \in pel : EntryGoesIdle(e)) \/ (\E t \in zset : DelayPasses(t))
  PROVE  QueueTypeOK' /\ Entry \subseteq Entry'
BY DEF QueueTypeOK, EntryGoesIdle, DelayPasses

-----------------------------------------------------------------------------
(* The steps of a worker. *)

LEMMA TaskOfType ==
  ASSUME QueueTypeOK, SlotTypeOK, NEW s \in Slot, slot[s].pc # "free"
  PROVE  slot[s].msg \in Entry /\ TaskOf(s) \in Task
<1>1. slot[s].msg \in Entry
  BY DEF QueueTypeOK, SlotTypeOK, Entry
<1> QED BY <1>1 DEF QueueTypeOK, Entry, TaskOf

(* A step that leaves the worker alone. *)
LEMMA WorkerKept ==
  ASSUME Entry \subseteq Entry'
  PROVE  /\ LoopTypeOK /\ UNCHANGED loop => LoopTypeOK'
         /\ SlotTypeOK /\ UNCHANGED slot => SlotTypeOK'
         /\ WorkerTypeOK /\ UNCHANGED workerVars => WorkerTypeOK'
BY DEF workerVars, WorkerTypeOK, LoopTypeOK, SlotTypeOK

LEMMA GotoType ==
  ASSUME SlotTypeOK, Entry \subseteq Entry', NEW s \in Slot, slot[s].pc # "free",
         NEW pc \in SlotPC \ {"complete"}, Goto(s, pc)
  PROVE  SlotTypeOK'
<1>1. CASE pc = "free"
  BY <1>1 DEF SlotTypeOK, Goto, FreeSlot, SlotPC
<1>2. CASE pc # "free"
  <2>1. slot' = [slot EXCEPT ![s] = [FreeSlot EXCEPT !.pc = pc,
                                                     !.msg = slot[s].msg]]
    BY <1>2 DEF Goto
  <2> QED BY <2>1 DEF SlotTypeOK, FreeSlot, SlotPC
<1> QED BY <1>1, <1>2

LEMMA HandleMessageType ==
  ASSUME StoreTypeOK, QueueTypeOK, WorkerTypeOK, NEW s \in Slot, HandleMessage(s)
  PROVE  StoreTypeOK' /\ QueueTypeOK' /\ WorkerTypeOK'
<1> USE DEF WorkerTypeOK
<1>0. s[1] \in WorkerID
  BY DEF Slot
<1>1. CASE GetTask(s)
  <2>1. PICK pc \in SlotPC \ {"complete"} : Goto(s, pc)
    <3> DEFINE st == tasks[TaskOf(s)].status
               pc == CASE st = "absent" -> "free"
                       [] IsTerminal(st) -> "ack"
                       [] slot[s].recovered /\ st = "running" -> "exec"
                       [] OTHER -> "claim"
    <3>1. Goto(s, pc)
      BY <1>1 DEF GetTask
    <3>2. pc \in SlotPC \ {"complete"}
      BY DEF SlotPC
    <3> QED BY <3>1, <3>2
  <2>2. UNCHANGED <<tasks, redisVars, loop>> /\ slot[s].pc # "free"
    BY <1>1 DEF GetTask
  <2>3. QueueTypeOK' /\ StoreTypeOK' /\ LoopTypeOK'
    BY <2>2 DEF redisVars, QueueTypeOK, StoreTypeOK, LoopTypeOK
  <2> QED BY <2>1, <2>2, <2>3, GotoType DEF redisVars
<1>2. CASE ClaimTask(s)
  <2>1. TaskOf(s) \in Task /\ slot[s].pc # "free"
    BY <1>2, TaskOfType DEF ClaimTask
  <2>2. StoreTypeOK'
    BY <1>0, <1>2, <2>1, TransitionType DEF ClaimTask, Status
  <2>3. SlotTypeOK'
    BY <1>2, <2>1, GotoType DEF ClaimTask, redisVars, SlotPC
  <2> QED BY <1>2, <2>2, <2>3 DEF ClaimTask, redisVars, QueueTypeOK, LoopTypeOK
<1>3. CASE SucceedTask(s)
  <2>1. TaskOf(s) \in Task /\ slot[s].pc # "free"
    BY <1>3, TaskOfType DEF SucceedTask
  <2>2. StoreTypeOK'
    BY <1>0, <1>3, <2>1, TransitionType DEF SucceedTask, Status
  <2>3. SlotTypeOK'
    BY <1>3, <2>1, GotoType DEF SucceedTask, redisVars, SlotPC
  <2> QED BY <1>3, <2>2, <2>3 DEF SucceedTask, redisVars, QueueTypeOK, LoopTypeOK
<1>4. ASSUME NEW nr \in BOOLEAN, FailTask(s, nr)
      PROVE  StoreTypeOK' /\ QueueTypeOK' /\ WorkerTypeOK'
  <2>1. TaskOf(s) \in Task /\ slot[s].msg \in Entry
    BY <1>4, TaskOfType DEF FailTask, SlotTypeOK
  <2>2. StoreTypeOK'
    BY <1>4, <2>1, MarkFailedType DEF FailTask
  <2> DEFINE row == tasks[TaskOf(s)]
             d == IF nr THEN NonRetryableDecision(row.retry_count)
                        ELSE DecideFailure(row.retry_count, row.max_retries)
  <2>3. d \in FailureDecision
    BY <2>1, DecisionType DEF StoreTypeOK, Row
  <2>4. UNCHANGED <<redisVars, loop>>
    BY <1>4 DEF FailTask
  <2>5. SlotTypeOK'
    <3>1. CASE ~Hits(TaskOf(s), "running")
      BY <1>4, <2>4, <3>1 DEF FailTask, SlotTypeOK, FreeSlot, SlotPC, redisVars
    <3>2. CASE Hits(TaskOf(s), "running")
      <4>1. slot' = [slot EXCEPT ![s] =
                       [FreeSlot EXCEPT !.pc = "complete", !.msg = slot[s].msg,
                                        !.decision = d]]
        BY <1>4, <3>2 DEF FailTask
      <4> HIDE DEF d
      <4> QED BY <2>1, <2>3, <2>4, <4>1 DEF SlotTypeOK, FreeSlot, SlotPC, redisVars
    <3> QED BY <3>1, <3>2
  <2> QED BY <2>2, <2>4, <2>5 DEF redisVars, QueueTypeOK, LoopTypeOK
<1>5. CASE FinishFailure(s)
  <2>1. TaskOf(s) \in Task /\ slot[s].pc # "free" /\ slot[s].decision \in FailureDecision
    BY <1>5, TaskOfType DEF FinishFailure, SlotTypeOK
  <2>2. StoreTypeOK'
    BY <1>5, <2>1, CompleteFailureType DEF FinishFailure
  <2>3. PICK pc \in SlotPC \ {"complete"} : Goto(s, pc)
    <3> DEFINE pc == CASE ~Hits(TaskOf(s), "failed") -> "free"
                       [] slot[s].decision.status = "dead" -> "deadpub"
                       [] OTHER -> "ack"
    <3>1. Goto(s, pc)
      BY <1>5 DEF FinishFailure
    <3>2. pc \in SlotPC \ {"complete"}
      BY DEF SlotPC
    <3> QED BY <3>1, <3>2
  <2>4. SlotTypeOK'
    BY <1>5, <2>1, <2>3, GotoType DEF FinishFailure, redisVars
  <2> QED BY <1>5, <2>2, <2>4 DEF FinishFailure, redisVars, QueueTypeOK, LoopTypeOK
<1>6. CASE SendDead(s)
  <2>1. TaskOf(s) \in Task /\ slot[s].pc # "free"
    BY <1>6, TaskOfType DEF SendDead
  <2>2. QueueTypeOK' /\ Entry \subseteq Entry'
    BY <1>6, <2>1, PublishDeadType DEF SendDead
  <2>3. SlotTypeOK'
    BY <1>6, <2>1, <2>2, GotoType DEF SendDead, SlotPC
  <2> QED BY <1>6, <2>2, <2>3 DEF SendDead, StoreTypeOK, LoopTypeOK
<1>7. CASE AckMessage(s)
  <2>1. QueueTypeOK' /\ Entry \subseteq Entry'
    BY <1>7, AckType DEF AckMessage
  <2>2. SlotTypeOK'
    BY <1>7, <2>1, GotoType DEF AckMessage, SlotPC
  <2> QED BY <1>7, <2>1, <2>2 DEF AckMessage, StoreTypeOK, LoopTypeOK
<1> QED BY <1>1, <1>2, <1>3, <1>4, <1>5, <1>6, <1>7 DEF HandleMessage

LEMMA LoopType ==
  ASSUME QueueTypeOK, WorkerTypeOK, NEW w \in WorkerID,
         \/ InspectPending(w) \/ ClaimPending(w) \/ ReadBatch(w)
         \/ ReadNothing(w) \/ SpawnHandle(w) \/ RecoveryTickElapses(w)
  PROVE  QueueTypeOK' /\ WorkerTypeOK' /\ UNCHANGED tasks
<1> USE DEF WorkerTypeOK
<1>1. CASE InspectPending(w)
  <2>1. XPending(ClaimBatch) \subseteq Entry
    <3>1. 1..delivered \subseteq Entry
      BY DEF QueueTypeOK
    <3> QED BY <3>1 DEF QueueTypeOK, XPending
  <2>2. XPending(ClaimBatch) \in SUBSET Nat
    BY <2>1 DEF QueueTypeOK
  <2>3. LoopTypeOK'
    BY <1>1, <2>1, <2>2 DEF InspectPending, LoopTypeOK, LoopPhase, redisVars
  <2> QED BY <1>1, <2>3 DEF InspectPending, redisVars, QueueTypeOK, SlotTypeOK
<1>2. CASE ClaimPending(w)
  <2>1. QueueTypeOK' /\ Entry \subseteq Entry'
    BY <1>2, ClaimType DEF ClaimPending
  <2>2. LoopTypeOK'
    BY <1>2, <2>1 DEF ClaimPending, XClaimed, LoopTypeOK, LoopPhase
  <2> QED BY <1>2, <2>1, <2>2 DEF ClaimPending, SlotTypeOK
<1>3. CASE ReadBatch(w)
  <2>1. /\ QueueTypeOK' /\ Entry \subseteq Entry'
        /\ (delivered + 1)..ReadUpTo(BatchSize) \subseteq Entry'
    BY <1>3, ReadType DEF ReadBatch
  <2>2. SlotTypeOK'
    BY <1>3, <2>1, WorkerKept DEF ReadBatch
  <2>3. Entry' \subseteq Nat
    BY <2>1 DEF QueueTypeOK, Entry
  <2>4. LoopTypeOK'
    BY <1>3, <2>1, <2>3 DEF ReadBatch, LoopTypeOK, LoopPhase
  <2> QED BY <1>3, <2>1, <2>2, <2>4 DEF ReadBatch
<1>4. CASE ReadNothing(w)
  BY <1>4 DEF ReadNothing, LoopTypeOK, LoopPhase, SlotTypeOK, QueueTypeOK, redisVars
<1>5. CASE SpawnHandle(w)
  <2>1. UNCHANGED <<tasks, redisVars>> /\ QueueTypeOK'
    BY <1>5 DEF SpawnHandle, QueueTypeOK, redisVars
  <2>2. PICK i \in 1..Concurrency, e \in loop[w].ids :
          /\ slot' = [slot EXCEPT ![<<w, i>>] =
                        [FreeSlot EXCEPT !.pc = "get", !.msg = e,
                                         !.recovered =
                                            (loop[w].phase = "spawnRecovered")]]
          /\ loop' = [loop EXCEPT
                        ![w].ids = loop[w].ids \ {e},
                        ![w].phase = IF loop[w].ids \ {e} # {} THEN @
                                     ELSE IF @ = "spawnRecovered" THEN "read"
                                     ELSE "top"]
    BY <1>5 DEF SpawnHandle
  <2>3. LoopTypeOK'
    BY <2>1, <2>2 DEF LoopTypeOK, LoopPhase, redisVars
  <2>4. e \in Entry /\ <<w, i>> \in Slot /\ e \in Nat
    BY DEF LoopTypeOK, Slot, QueueTypeOK
  <2>5. SlotTypeOK'
    BY <2>1, <2>2, <2>4 DEF SlotTypeOK, SlotPC, FreeSlot, redisVars
  <2> QED BY <2>1, <2>3, <2>5
<1>6. CASE RecoveryTickElapses(w)
  <2>1. UNCHANGED <<tasks, redisVars, slot>> /\ QueueTypeOK' /\ SlotTypeOK'
    BY <1>6 DEF RecoveryTickElapses, QueueTypeOK, SlotTypeOK, redisVars
  <2>2. loop' = [loop EXCEPT ![w].recoverDue = TRUE]
    BY <1>6 DEF RecoveryTickElapses
  <2>3. LoopTypeOK'
    BY <2>1, <2>2 DEF LoopTypeOK, redisVars
  <2> QED BY <2>1, <2>3
<1>7. UNCHANGED tasks
  BY DEF InspectPending, ClaimPending, ReadBatch, ReadNothing, SpawnHandle,
         RecoveryTickElapses
<1> QED BY <1>1, <1>2, <1>3, <1>4, <1>5, <1>6, <1>7

LEMMA WorkerFaultType ==
  ASSUME QueueTypeOK, WorkerTypeOK, WorkerFault
  PROVE  QueueTypeOK' /\ WorkerTypeOK' /\ UNCHANGED tasks
<1> USE DEF WorkerTypeOK
<1>1. ASSUME NEW s \in Slot, HandleError(s) \/ DeadPublishError(s)
      PROVE  QueueTypeOK' /\ WorkerTypeOK' /\ UNCHANGED tasks
  <2>1. SlotTypeOK'
    BY <1>1, GotoType DEF HandleError, DeadPublishError, redisVars, SlotPC
  <2> QED BY <1>1, <2>1 DEF HandleError, DeadPublishError, redisVars, QueueTypeOK,
                            LoopTypeOK
<1>2. ASSUME NEW w \in WorkerID, LoopError(w)
      PROVE  QueueTypeOK' /\ WorkerTypeOK' /\ UNCHANGED tasks
  BY <1>2 DEF LoopError, redisVars, QueueTypeOK, LoopTypeOK, LoopPhase, SlotTypeOK
<1>3. ASSUME NEW w \in WorkerID, ClaimReplyLost(w)
      PROVE  QueueTypeOK' /\ WorkerTypeOK' /\ UNCHANGED tasks
  <2>1. QueueTypeOK' /\ Entry \subseteq Entry'
    BY <1>3, ClaimType DEF ClaimReplyLost
  <2> QED BY <1>3, <2>1 DEF ClaimReplyLost, LoopTypeOK, LoopPhase, SlotTypeOK
<1>4. ASSUME NEW w \in WorkerID, ReadReplyLost(w)
      PROVE  QueueTypeOK' /\ WorkerTypeOK' /\ UNCHANGED tasks
  <2>1. QueueTypeOK' /\ Entry \subseteq Entry'
    BY <1>4, ReadType DEF ReadReplyLost
  <2>2. SlotTypeOK'
    BY <1>4, <2>1, WorkerKept DEF ReadReplyLost
  <2>3. LoopTypeOK'
    BY <1>4, <2>1 DEF ReadReplyLost, LoopTypeOK, LoopPhase
  <2> QED BY <1>4, <2>1, <2>2, <2>3 DEF ReadReplyLost
<1>5. ASSUME NEW w \in WorkerID, WorkerCrash(w)
      PROVE  QueueTypeOK' /\ WorkerTypeOK' /\ UNCHANGED tasks
  <2>1. QueueTypeOK' /\ Entry \subseteq Entry' /\ UNCHANGED tasks
    BY <1>5 DEF WorkerCrash, redisVars, QueueTypeOK
  <2>2. LoopTypeOK'
    BY <1>5, <2>1 DEF WorkerCrash, LoopTypeOK, LoopStart, LoopPhase
  <2>3. SlotTypeOK'
    BY <1>5, <2>1 DEF WorkerCrash, SlotTypeOK, FreeSlot, SlotPC
  <2> QED BY <2>1, <2>2, <2>3
<1> QED BY <1>1, <1>2, <1>3, <1>4, <1>5 DEF WorkerFault

-----------------------------------------------------------------------------
(* The steps of a scheduler. *)

LEMMA NextItemType ==
  ASSUME SchedTypeOK, NEW c \in SchedulerID, NextItem(c)
  PROVE  SchedTypeOK'
<1>1. ScanOf(sched[c].pc) \in {"recover", "zset", "retry"}
  BY DEF ScanOf
<1> QED BY <1>1 DEF SchedTypeOK, NextItem, SchedIdle, SchedPC

LEMMA SkipType ==
  ASSUME SchedTypeOK, NEW c \in SchedulerID, NEW t, Skip(c, t)
  PROVE  SchedTypeOK'
BY DEF SchedTypeOK, Skip, SchedPC

LEMMA StartScanType ==
  ASSUME SchedTypeOK, NEW c \in SchedulerID, NEW S \in SUBSET Task,
         NEW pc \in {"recover", "zset", "retry"}, StartScan(c, pc, S)
  PROVE  SchedTypeOK'
BY DEF SchedTypeOK, StartScan, SchedIdle, SchedPC

LEMMA PickType ==
  ASSUME SchedTypeOK, NEW c \in SchedulerID, NEW t \in Task,
         NEW pc \in {"ztransition", "zremove", "rpublish"}, Pick(c, t, pc)
  PROVE  SchedTypeOK'
BY DEF SchedTypeOK, Pick, SchedIdle, SchedPC

LEMMA ProceedType ==
  ASSUME SchedTypeOK, NEW c \in SchedulerID, sched[c].cur \in Task,
         NEW pc \in {"zpublish", "zremove"}, Proceed(c, pc)
  PROVE  SchedTypeOK'
BY DEF SchedTypeOK, Proceed, SchedPC

LEMMA ScanType ==
  ASSUME NEW S \in SUBSET Task, NEW B \in AtMost(SchedulerBatch, S)
  PROVE  B \in SUBSET Task
BY DEF AtMost

LEMMA TickType ==
  ASSUME StoreTypeOK, QueueTypeOK, SchedTypeOK, NEW c \in SchedulerID, Tick(c)
  PROVE  /\ StoreTypeOK' /\ QueueTypeOK' /\ SchedTypeOK'
         /\ Entry \subseteq Entry'
<1> DEFINE Goal == StoreTypeOK' /\ QueueTypeOK' /\ SchedTypeOK' /\ Entry \subseteq Entry'
<1>1. CASE ScanExpiredRunning(c)
  <2>1. ExpiredRunning \in SUBSET Task
    BY DEF ExpiredRunning
  <2>2. SchedTypeOK'
    BY <1>1, <2>1, ScanType, StartScanType DEF ScanExpiredRunning
  <2> QED BY <1>1, <2>2 DEF ScanExpiredRunning, redisVars, StoreTypeOK, QueueTypeOK
<1>2. ASSUME NEW t \in Task, RecoverMarkFailed(c, t)
      PROVE  Goal
  <2>1. StoreTypeOK'
    BY <1>2, MarkFailedType DEF RecoverMarkFailed
  <2>2. SchedTypeOK'
    <3>1. CASE ~Hits(t, "running")
      BY <1>2, <3>1, SkipType DEF RecoverMarkFailed
    <3>2. CASE Hits(t, "running")
      <4>1. DecideFailure(tasks[t].retry_count, tasks[t].max_retries) \in FailureDecision
        BY DecisionType DEF StoreTypeOK, Row
      <4> QED BY <1>2, <3>2, <4>1 DEF RecoverMarkFailed, SchedTypeOK, SchedPC
    <3> QED BY <3>1, <3>2
  <2> QED BY <1>2, <2>1, <2>2 DEF RecoverMarkFailed, redisVars, QueueTypeOK
<1>3. CASE RecoverCompleteFailure(c)
  <2>1. sched[c].cur \in Task /\ sched[c].decision \in FailureDecision
    BY <1>3 DEF RecoverCompleteFailure, SchedTypeOK
  <2>2. StoreTypeOK'
    BY <1>3, <2>1, CompleteFailureType DEF RecoverCompleteFailure
  <2>3. SchedTypeOK'
    <3>1. CASE Hits(sched[c].cur, "failed") /\ sched[c].decision.status = "dead"
      BY <1>3, <2>1, <3>1 DEF RecoverCompleteFailure, SchedTypeOK, SchedPC
    <3>2. CASE ~(Hits(sched[c].cur, "failed") /\ sched[c].decision.status = "dead")
      BY <1>3, <3>2, NextItemType DEF RecoverCompleteFailure
    <3> QED BY <3>1, <3>2
  <2> QED BY <1>3, <2>2, <2>3 DEF RecoverCompleteFailure, redisVars, QueueTypeOK
<1>4. CASE RecoverPublishDead(c)
  <2>1. sched[c].cur \in Task
    BY <1>4 DEF RecoverPublishDead, SchedTypeOK
  <2> QED BY <1>4, <2>1, PublishDeadType, NextItemType DEF RecoverPublishDead, StoreTypeOK
<1>5. CASE ScanDueTaskIDs(c)
  <2>1. zdue \in SUBSET Task
    BY DEF QueueTypeOK
  <2>2. SchedTypeOK'
    BY <1>5, <2>1, ScanType, StartScanType DEF ScanDueTaskIDs
  <2> QED BY <1>5, <2>2 DEF ScanDueTaskIDs, redisVars, StoreTypeOK, QueueTypeOK
<1>6. ASSUME NEW t \in Task, ZSetGet(c, t)
      PROVE  Goal
  <2>1. SchedTypeOK'
    BY <1>6, PickType DEF ZSetGet
  <2> QED BY <1>6, <2>1 DEF ZSetGet, redisVars, StoreTypeOK, QueueTypeOK
<1>7. CASE ZSetTransition(c)
  <2>1. sched[c].cur \in Task
    BY <1>7 DEF ZSetTransition, SchedTypeOK
  <2>2. StoreTypeOK'
    BY <1>7, <2>1, TransitionType DEF ZSetTransition, Status
  <2>3. SchedTypeOK'
    BY <1>7, <2>1, ProceedType DEF ZSetTransition
  <2> QED BY <1>7, <2>2, <2>3 DEF ZSetTransition, redisVars, QueueTypeOK
<1>8. CASE ZSetPublish(c)
  <2>1. sched[c].cur \in Task
    BY <1>8 DEF ZSetPublish, SchedTypeOK
  <2> QED BY <1>8, <2>1, PublishType, ProceedType DEF ZSetPublish, StoreTypeOK
<1>9. CASE ZSetRemove(c)
  <2>1. sched[c].cur \in Task
    BY <1>9 DEF ZSetRemove, SchedTypeOK
  <2> QED BY <1>9, <2>1, ZSetType, NextItemType DEF ZSetRemove, StoreTypeOK
<1>10. CASE ScanDueRetrying(c)
  <2>1. DueRetrying \in SUBSET Task
    BY DEF DueRetrying
  <2>2. SchedTypeOK'
    BY <1>10, <2>1, ScanType, StartScanType DEF ScanDueRetrying
  <2> QED BY <1>10, <2>2 DEF ScanDueRetrying, redisVars, StoreTypeOK, QueueTypeOK
<1>11. ASSUME NEW t \in Task, RetryTransition(c, t)
       PROVE  Goal
  <2>1. StoreTypeOK'
    BY <1>11, TransitionType DEF RetryTransition, Status
  <2>2. SchedTypeOK'
    BY <1>11, PickType, SkipType DEF RetryTransition
  <2> QED BY <1>11, <2>1, <2>2 DEF RetryTransition, redisVars, QueueTypeOK
<1>12. CASE RetryPublish(c)
  <2>1. sched[c].cur \in Task
    BY <1>12 DEF RetryPublish, SchedTypeOK
  <2> QED BY <1>12, <2>1, PublishType, NextItemType DEF RetryPublish, StoreTypeOK
<1> QED BY <1>1, <1>2, <1>3, <1>4, <1>5, <1>6, <1>7, <1>8, <1>9, <1>10, <1>11, <1>12
        DEF Tick

LEMMA SchedulerFaultType ==
  ASSUME StoreTypeOK, QueueTypeOK, SchedTypeOK, SchedulerFault
  PROVE  /\ StoreTypeOK' /\ QueueTypeOK' /\ SchedTypeOK'
         /\ Entry \subseteq Entry'
<1>1. PICK c \in SchedulerID : \/ SchedCallError(c)
                               \/ \E t \in Task : SchedItemError(c, t)
                               \/ SchedulerCrash(c)
  BY DEF SchedulerFault
<1>2. UNCHANGED <<tasks, redisVars>>
  BY <1>1 DEF SchedCallError, SchedItemError, SchedulerCrash
<1>3. ASSUME SchedCallError(c) PROVE SchedTypeOK'
  BY <1>3, NextItemType DEF SchedCallError
<1>4. ASSUME NEW t \in Task, SchedItemError(c, t)
      PROVE  SchedTypeOK'
  BY <1>4, SkipType DEF SchedItemError
<1>5. ASSUME SchedulerCrash(c) PROVE SchedTypeOK'
  BY <1>5 DEF SchedulerCrash, SchedTypeOK, SchedIdle, SchedPC
<1>6. SchedTypeOK'
  BY <1>1, <1>3, <1>4, <1>5
<1> QED BY <1>2, <1>6 DEF StoreTypeOK, QueueTypeOK, redisVars

-----------------------------------------------------------------------------
(* Submissions. *)

LEMMA SubmitType ==
  ASSUME StoreTypeOK, QueueTypeOK, ReqTypeOK, NEW t \in Task,
         Submit(t) \/ SubmitError(t)
  PROVE  /\ StoreTypeOK' /\ QueueTypeOK' /\ ReqTypeOK'
         /\ Entry \subseteq Entry'
<1>1. ASSUME NEW delayed \in BOOLEAN, NEW m \in MaxRetriesOf, CreateTask(t, delayed, m)
      PROVE  StoreTypeOK' /\ QueueTypeOK' /\ ReqTypeOK' /\ Entry \subseteq Entry'
  <2>1. StoreTypeOK'
    BY <1>1, CreateType DEF CreateTask
  <2> QED BY <1>1, <2>1 DEF CreateTask, redisVars, QueueTypeOK, ReqTypeOK, ReqStep
<1>2. CASE PublishCreated(t)
  BY <1>2, PublishType DEF PublishCreated, StoreTypeOK, ReqTypeOK, ReqStep
<1>3. CASE ScheduleCreated(t)
  BY <1>3, ZSetType DEF ScheduleCreated, StoreTypeOK, ReqTypeOK, ReqStep
<1>4. CASE SubmitError(t)
  BY <1>4 DEF SubmitError, redisVars, StoreTypeOK, QueueTypeOK, ReqTypeOK, ReqStep
<1> QED BY <1>1, <1>2, <1>3, <1>4 DEF Submit

-----------------------------------------------------------------------------
(* Type correctness. *)

LEMMA InitTypeOK == Init => TypeOK
BY StoreAssumption, WorkerAssumption, SchedulerAssumption, FaultAssumption
DEF Init, TypeOK, StoreInit, StoreTypeOK, Row, AbsentRow, Status, RetryTime,
    StartTime, QueueInit, QueueTypeOK, WorkerInit, WorkerTypeOK, LoopTypeOK,
    SlotTypeOK, LoopStart, LoopPhase, FreeSlot, SlotPC, NoDecision, SchedInit,
    SchedTypeOK, SchedIdle, SchedPC, ReqInit, ReqTypeOK, ReqStep, Operation

(* What an actor cuts off is an operation on the task it works on. *)
LEMMA CutType ==
  ASSUME TypeOK
  PROVE  /\ \A s \in Slot : SlotCut(s) \subseteq Operation \X Task
         /\ \A c \in SchedulerID : SchedCut(c) \subseteq Operation \X Task
         /\ \A t \in Task : ReqCut(t) \subseteq Operation \X Task
<1>1. ASSUME NEW s \in Slot PROVE SlotCut(s) \subseteq Operation \X Task
  <2>1. slot[s].pc \in {"complete", "deadpub"} => TaskOf(s) \in Task
    BY TaskOfType DEF TypeOK, WorkerTypeOK
  <2> QED BY <2>1 DEF SlotCut, Operation
<1>2. ASSUME NEW c \in SchedulerID PROVE SchedCut(c) \subseteq Operation \X Task
  <2>1. sched[c].pc \in {"complete", "deadpub", "zpublish", "rpublish"}
          => sched[c].cur \in Task
    BY DEF TypeOK, SchedTypeOK
  <2> QED BY <2>1 DEF SchedCut, Operation
<1>3. ASSUME NEW t \in Task PROVE ReqCut(t) \subseteq Operation \X Task
  BY DEF ReqCut, Operation
<1> QED BY <1>1, <1>2, <1>3

LEMMA StepTypeOK == TypeOK /\ Step => TypeOK'
<1> SUFFICES ASSUME TypeOK, Step PROVE TypeOK'
  OBVIOUS
<1> USE DEF TypeOK
<1>0. faults' \in 0..MaxFaults /\ interrupted' \subseteq Operation \X Task
  BY DEF Step, Quiet
<1>1. ASSUME NEW t \in Task, SubmitStep(t) PROVE TypeOK'
  <2>1. StoreTypeOK' /\ QueueTypeOK' /\ ReqTypeOK' /\ Entry \subseteq Entry'
    BY <1>1, SubmitType DEF SubmitStep
  <2>2. WorkerTypeOK' /\ SchedTypeOK'
    BY <1>1, <2>1 DEF SubmitStep, workerVars, WorkerTypeOK, LoopTypeOK, SlotTypeOK,
                      SchedTypeOK
  <2> QED BY <1>0, <2>1, <2>2
<1>2. ASSUME NEW w \in WorkerID, LoopStep(w) \/ TickTime(w) PROVE TypeOK'
  <2>1. QueueTypeOK' /\ WorkerTypeOK' /\ UNCHANGED tasks
    BY <1>2, LoopType DEF LoopStep, TickTime
  <2> QED BY <1>0, <1>2, <2>1 DEF LoopStep, TickTime, StoreTypeOK, SchedTypeOK, ReqTypeOK
<1>3. ASSUME NEW s \in Slot, HandleStep(s) PROVE TypeOK'
  <2>1. StoreTypeOK' /\ QueueTypeOK' /\ WorkerTypeOK'
    BY <1>3, HandleMessageType DEF HandleStep
  <2> QED BY <1>0, <1>3, <2>1 DEF HandleStep, SchedTypeOK, ReqTypeOK
<1>4. ASSUME NEW c \in SchedulerID, SchedStep(c) PROVE TypeOK'
  <2>1. StoreTypeOK' /\ QueueTypeOK' /\ SchedTypeOK' /\ Entry \subseteq Entry'
    BY <1>4, TickType DEF SchedStep
  <2>2. WorkerTypeOK' /\ ReqTypeOK'
    BY <1>4, <2>1 DEF SchedStep, workerVars, WorkerTypeOK, LoopTypeOK, SlotTypeOK,
                      ReqTypeOK
  <2> QED BY <1>0, <2>1, <2>2
<1>5. ASSUME NEW t \in Task, TaskTime(t) PROVE TypeOK'
  <2>1. StoreTypeOK'
    BY <1>5, TaskTimeType DEF TaskTime
  <2>2. QueueTypeOK' /\ WorkerTypeOK' /\ SchedTypeOK' /\ ReqTypeOK'
    BY <1>5 DEF TaskTime, redisVars, workerVars, QueueTypeOK, WorkerTypeOK, LoopTypeOK,
                SlotTypeOK, SchedTypeOK, ReqTypeOK
  <2> QED BY <1>0, <2>1, <2>2
<1>6. ASSUME (\E e \in pel : EntryTime(e)) \/ (\E t \in Task : DelayTime(t))
      PROVE  TypeOK'
  <2>1. QueueTypeOK' /\ Entry \subseteq Entry'
    BY <1>6, RedisTimeType DEF EntryTime, DelayTime, DelayPasses
  <2>2. UNCHANGED <<tasks, workerVars, sched, req>>
    BY <1>6 DEF EntryTime, DelayTime
  <2> QED BY <1>0, <2>1, <2>2 DEF workerVars, StoreTypeOK, WorkerTypeOK, LoopTypeOK,
                                  SlotTypeOK, SchedTypeOK, ReqTypeOK
<1> QED BY <1>1, <1>2, <1>3, <1>4, <1>5, <1>6 DEF Step, TimePasses

LEMMA FaultTypeOK == TypeOK /\ Fault => TypeOK'
<1> SUFFICES ASSUME TypeOK, Fault PROVE TypeOK'
  OBVIOUS
<1> USE DEF TypeOK
<1>0. faults' \in 0..MaxFaults
  BY FaultAssumption DEF Fault
<1>1. CASE WorkerFault
  <2>1. QueueTypeOK' /\ WorkerTypeOK' /\ UNCHANGED tasks
    BY <1>1, WorkerFaultType
  <2>2. interrupted' \subseteq Operation \X Task
    <3>1. \/ \E s \in Slot : Cut(SlotCut(s))
          \/ Cut({})
          \/ \E w \in WorkerID : Cut(UNION {SlotCut(s) : s \in SlotsOf(w)})
      BY <1>1 DEF WorkerFault
    <3>2. \A w \in WorkerID : UNION {SlotCut(s) : s \in SlotsOf(w)} \subseteq Operation \X Task
      BY CutType DEF SlotsOf
    <3> QED BY <3>1, <3>2, CutType DEF Cut
  <2> QED BY <1>0, <1>1, <2>1, <2>2 DEF WorkerFault, StoreTypeOK, SchedTypeOK, ReqTypeOK
<1>2. CASE SchedulerFault
  <2>1. StoreTypeOK' /\ QueueTypeOK' /\ SchedTypeOK' /\ Entry \subseteq Entry'
    BY <1>2, SchedulerFaultType
  <2>2. interrupted' \subseteq Operation \X Task
    BY <1>2, CutType DEF SchedulerFault, Cut
  <2>3. WorkerTypeOK' /\ ReqTypeOK'
    BY <1>2, <2>1 DEF SchedulerFault, workerVars, WorkerTypeOK, LoopTypeOK, SlotTypeOK,
                      ReqTypeOK
  <2> QED BY <1>0, <2>1, <2>2, <2>3
<1>3. CASE SubmitFault
  <2>1. PICK t \in Task : SubmitError(t) /\ Cut(ReqCut(t))
    BY <1>3 DEF SubmitFault
  <2>2. StoreTypeOK' /\ QueueTypeOK' /\ ReqTypeOK' /\ Entry \subseteq Entry'
    BY <2>1, SubmitType
  <2>3. interrupted' \subseteq Operation \X Task
    BY <2>1, CutType DEF Cut
  <2>4. WorkerTypeOK' /\ SchedTypeOK'
    BY <1>3, <2>2 DEF SubmitFault, workerVars, WorkerTypeOK, LoopTypeOK, SlotTypeOK,
                      SchedTypeOK
  <2> QED BY <1>0, <2>2, <2>3, <2>4
<1>4. CASE Retransmit
  <2>1. QueueTypeOK' /\ Entry \subseteq Entry'
    BY <1>4, PublishType DEF Retransmit
  <2> QED BY <1>0, <1>4, <2>1 DEF Retransmit, workerVars, StoreTypeOK, WorkerTypeOK,
                                  LoopTypeOK, SlotTypeOK, SchedTypeOK, ReqTypeOK
<1> QED BY <1>1, <1>2, <1>3, <1>4 DEF Fault

LEMMA StutterTypeOK == TypeOK /\ UNCHANGED vars => TypeOK'
BY DEF vars, redisVars, workerVars, TypeOK, StoreTypeOK, QueueTypeOK, WorkerTypeOK,
       LoopTypeOK, SlotTypeOK, SchedTypeOK, ReqTypeOK

LEMMA NextTypeOK == TypeOK /\ [Next]_vars => TypeOK'
BY StepTypeOK, FaultTypeOK, StutterTypeOK DEF Next

(* Every variable keeps its type; in particular every loop and goroutine   *)
(* is at work on messages of the stream, whatever faults occur.            *)
THEOREM TypeCorrect == Spec => []TypeOK
BY NextTypeOK, InitTypeOK, PTL DEF Spec

HIDE DEF Entry

(***************************************************************************)
(* FAILURES                                                                *)
(*                                                                         *)
(* The inductive invariant is the conjunction of TypeOK, FailureHeldOnce   *)
(* and RetryBudget.  Actors become holders by MarkFailed, which requires a *)
(* running row; a held row is failed; and the only statement that changes  *)
(* a failed row is CompleteFailure, which only the holder calls.  So a     *)
(* step either makes one new holder of a row that had none, or makes none  *)
(* and keeps the failed rows as they are, except for the row it releases.  *)
(***************************************************************************)

(* The rows that failed, but for x, stay failed with the same counters. *)
FailedKeptBut(x) ==
  \A t \in Task \ {x} : tasks[t].status = "failed" =>
    /\ tasks'[t].status = "failed"
    /\ tasks'[t].retry_count = tasks[t].retry_count
    /\ tasks'[t].max_retries = tasks[t].max_retries

(* Nobody becomes a holder, and no holder changes what it holds. *)
NoNewHolder ==
  /\ \A s \in Slot : slot'[s].pc = "complete" => slot'[s] = slot[s]
  /\ \A c \in SchedulerID : sched'[c].pc = "complete" => sched'[c] = sched[c]

(* After the step nobody holds x. *)
ReleasedAfter(x) ==
  /\ \A s \in Slot : ~SlotAt(s, "complete", x)'
  /\ \A c \in SchedulerID : ~SchedAt(c, {"complete"}, x)'

(* The stream keeps its entries. *)
StreamKept == \A e \in Entry : stream'[e] = stream[e]

LEMMA TaskOfKept ==
  ASSUME TypeOK, StreamKept, NEW s \in Slot, slot[s].pc # "free",
         slot'[s].msg = slot[s].msg
  PROVE  TaskOf(s)' = TaskOf(s)
<1>1. slot[s].msg \in Entry
  BY TaskOfType DEF TypeOK, WorkerTypeOK
<1> QED BY <1>1 DEF StreamKept, TaskOf

(* The frame: a step without a new holder, whose excepted row is released. *)
LEMMA HolderFrame ==
  ASSUME TypeOK, FailureHeldOnce, NoNewHolder, StreamKept,
         NEW x, FailedKeptBut(x), ReleasedAfter(x)
  PROVE  FailureHeldOnce'
<1>1. ASSUME NEW s \in Slot, slot'[s].pc = "complete"
      PROVE  /\ slot[s].pc = "complete" /\ TaskOf(s)' = TaskOf(s)
             /\ slot'[s].decision = slot[s].decision
             /\ TaskOf(s) \in Task \ {x}
  <2>1. slot'[s] = slot[s]
    BY <1>1 DEF NoNewHolder
  <2>2. TaskOf(s)' = TaskOf(s)
    BY <1>1, <2>1, TaskOfKept
  <2>3. TaskOf(s) \in Task
    BY <1>1, <2>1, TaskOfType DEF TypeOK, WorkerTypeOK
  <2>4. TaskOf(s) # x
    BY <1>1, <2>2 DEF ReleasedAfter, SlotAt
  <2> QED BY <1>1, <2>1, <2>2, <2>3, <2>4
<1>2. ASSUME NEW c \in SchedulerID, sched'[c].pc = "complete"
      PROVE  /\ sched'[c] = sched[c] /\ sched[c].cur \in Task \ {x}
  <2>1. sched'[c] = sched[c]
    BY <1>2 DEF NoNewHolder
  <2>2. sched[c].cur \in Task
    BY <1>2, <2>1 DEF TypeOK, SchedTypeOK
  <2>3. sched[c].cur # x
    BY <1>2, <2>1 DEF ReleasedAfter, SchedAt
  <2> QED BY <2>1, <2>2, <2>3
<1>3. SlotFailureHeld'
  <2> SUFFICES ASSUME NEW s \in Slot', slot'[s].pc = "complete"
               PROVE  /\ tasks'[TaskOf(s)'].status = "failed"
                      /\ FreshDecision(slot'[s].decision, tasks'[TaskOf(s)'])
                      /\ \A r \in Slot : SlotAt(r, "complete", TaskOf(s))' => r = s
    BY DEF SlotFailureHeld, Slot
  <2>0. s \in Slot
    BY DEF Slot
  <2>1. /\ tasks[TaskOf(s)].status = "failed"
        /\ FreshDecision(slot[s].decision, tasks[TaskOf(s)])
    BY <1>1, <2>0 DEF FailureHeldOnce, SlotFailureHeld
  <2>2. /\ tasks'[TaskOf(s)].status = "failed"
        /\ tasks'[TaskOf(s)].retry_count = tasks[TaskOf(s)].retry_count
        /\ tasks'[TaskOf(s)].max_retries = tasks[TaskOf(s)].max_retries
    BY <1>1, <2>0, <2>1 DEF FailedKeptBut
  <2>3. FreshDecision(slot'[s].decision, tasks'[TaskOf(s)'])
    BY <1>1, <2>0, <2>1, <2>2 DEF FreshDecision
  <2>4. ASSUME NEW r \in Slot, SlotAt(r, "complete", TaskOf(s))'
        PROVE  r = s
    BY <1>1, <2>0, <2>4 DEF SlotAt, FailureHeldOnce, SlotFailureHeld
  <2> QED BY <1>1, <2>0, <2>2, <2>3, <2>4
<1>4. SchedFailureHeld'
  <2> SUFFICES ASSUME NEW c \in SchedulerID, sched'[c].pc = "complete"
               PROVE  /\ tasks'[sched'[c].cur].status = "failed"
                      /\ FreshDecision(sched'[c].decision, tasks'[sched'[c].cur])
                      /\ \A d \in SchedulerID :
                           SchedAt(d, {"complete"}, sched[c].cur)' => d = c
                      /\ \A s \in Slot : ~SlotAt(s, "complete", sched[c].cur)'
    BY DEF SchedFailureHeld, Slot
  <2>1. /\ tasks[sched[c].cur].status = "failed"
        /\ FreshDecision(sched[c].decision, tasks[sched[c].cur])
    BY <1>2 DEF FailureHeldOnce, SchedFailureHeld
  <2>2. /\ tasks'[sched[c].cur].status = "failed"
        /\ tasks'[sched[c].cur].retry_count = tasks[sched[c].cur].retry_count
        /\ tasks'[sched[c].cur].max_retries = tasks[sched[c].cur].max_retries
    BY <1>2, <2>1 DEF FailedKeptBut
  <2>3. FreshDecision(sched'[c].decision, tasks'[sched'[c].cur])
    BY <1>2, <2>1, <2>2 DEF FreshDecision
  <2>4. ASSUME NEW d \in SchedulerID, SchedAt(d, {"complete"}, sched[c].cur)'
        PROVE  d = c
    BY <1>2, <2>4 DEF SchedAt, FailureHeldOnce, SchedFailureHeld
  <2>5. ASSUME NEW s \in Slot, SlotAt(s, "complete", sched[c].cur)'
        PROVE  FALSE
    BY <1>1, <1>2, <2>5 DEF SlotAt, FailureHeldOnce, SchedFailureHeld
  <2> QED BY <1>2, <2>2, <2>3, <2>4, <2>5
<1> QED BY <1>3, <1>4 DEF FailureHeldOnce

-----------------------------------------------------------------------------
(* What the statements of the store do to failed rows and to the budget. *)

BudgetKept == RetryBudget => RetryBudget'

LEMMA CreateEffect ==
  ASSUME TypeOK, NEW t \in Task, NEW st \in {"scheduled", "pending"},
         NEW m \in MaxRetriesOf, Create(t, st, m)
  PROVE  (\A x : FailedKeptBut(x)) /\ BudgetKept
BY StoreAssumption DEF TypeOK, StoreTypeOK, Row, Create, Exists, AbsentRow,
                       FailedKeptBut, BudgetKept, RetryBudget

LEMMA TransitionEffect ==
  ASSUME TypeOK, NEW t \in Task, NEW from, NEW to, NEW w, from # "failed",
         Transition(t, from, to, w)
  PROVE  (\A x : FailedKeptBut(x)) /\ BudgetKept
<1>1. CASE Hits(t, from)
  <2>1. tasks' = [tasks EXCEPT ![t] = MovedRow(tasks[t], to, w)]
    BY <1>1 DEF Transition
  <2>2. /\ MovedRow(tasks[t], to, w).retry_count = tasks[t].retry_count
        /\ MovedRow(tasks[t], to, w).max_retries = tasks[t].max_retries
    BY DEF MovedRow, TypeOK, StoreTypeOK, Row
  <2>3. tasks[t].status # "failed"
    BY <1>1 DEF Hits
  <2> HIDE DEF MovedRow
  <2> QED BY <2>1, <2>2, <2>3 DEF TypeOK, StoreTypeOK, FailedKeptBut, BudgetKept, RetryBudget
<1>2. CASE ~Hits(t, from)
  BY <1>2 DEF Transition, FailedKeptBut, BudgetKept, RetryBudget
<1> QED BY <1>1, <1>2

LEMMA MarkFailedEffect ==
  ASSUME TypeOK, NEW t \in Task, MarkFailed(t)
  PROVE  (\A x : FailedKeptBut(x)) /\ BudgetKept
<1>1. CASE Hits(t, "running")
  BY <1>1 DEF MarkFailed, Hits, TypeOK, StoreTypeOK, Row, FailedKeptBut, BudgetKept,
              RetryBudget
<1>2. CASE ~Hits(t, "running")
  BY <1>2 DEF MarkFailed, FailedKeptBut, BudgetKept, RetryBudget
<1> QED BY <1>1, <1>2

(* What becomes of the row that MarkFailed hits. *)
LEMMA MarkFailedHit ==
  ASSUME TypeOK, NEW t \in Task, MarkFailed(t), Hits(t, "running")
  PROVE  /\ tasks[t].status # "failed"
         /\ tasks'[t].status = "failed"
         /\ tasks'[t].retry_count = tasks[t].retry_count
         /\ tasks'[t].max_retries = tasks[t].max_retries
BY DEF MarkFailed, Hits, TypeOK, StoreTypeOK, Row

LEMMA CompleteFailureEffect ==
  ASSUME TypeOK, NEW t \in Task, NEW d \in FailureDecision, CompleteFailure(t, d),
         FreshDecision(d, tasks[t])
  PROVE  FailedKeptBut(t) /\ BudgetKept
<1>1. CASE Hits(t, "failed")
  <2> SUFFICES ASSUME RetryBudget PROVE FailedKeptBut(t) /\ RetryBudget'
    BY <1>1 DEF CompleteFailure, FailedKeptBut, BudgetKept, TypeOK, StoreTypeOK
  <2>1. tasks[t].retry_count \in Nat /\ tasks[t].max_retries \in Nat
    BY DEF TypeOK, StoreTypeOK, Row
  <2>2. d.retry_count <= tasks[t].max_retries
    BY <2>1 DEF FreshDecision, DecideFailure, NonRetryableDecision, RetryBudget
  <2>3. /\ tasks'[t].retry_count = d.retry_count
        /\ tasks'[t].max_retries = tasks[t].max_retries
        /\ \A u \in Task \ {t} : tasks'[u] = tasks[u]
    BY <1>1 DEF CompleteFailure, TypeOK, StoreTypeOK, Row
  <2> QED BY <2>2, <2>3 DEF FailedKeptBut, RetryBudget
<1>2. CASE ~Hits(t, "failed")
  BY <1>2 DEF CompleteFailure, FailedKeptBut, BudgetKept, RetryBudget
<1> QED BY <1>1, <1>2

LEMMA TaskTimeEffect ==
  ASSUME TypeOK, NEW t \in Task, RunExpires(t) \/ RetryComesDue(t)
  PROVE  (\A x : FailedKeptBut(x)) /\ BudgetKept
BY DEF RunExpires, RetryComesDue, TypeOK, StoreTypeOK, Row, FailedKeptBut, BudgetKept,
       RetryBudget

LEMMA NoEffect ==
  ASSUME UNCHANGED tasks
  PROVE  (\A x : FailedKeptBut(x)) /\ BudgetKept
BY DEF FailedKeptBut, BudgetKept, RetryBudget

LEMMA PublishKeepsStream ==
  ASSUME TypeOK, NEW t \in Task, PublishTask(t)
  PROVE  StreamKept
BY DEF TypeOK, QueueTypeOK, PublishTask, StreamKept, Entry

-----------------------------------------------------------------------------
(* No holder anywhere is excepted: the frame without an excepted row. *)

LEMMA PlainFrame ==
  ASSUME TypeOK, FailureHeldOnce, NoNewHolder, StreamKept, \A x : FailedKeptBut(x),
         TypeOK'
  PROVE  FailureHeldOnce'
<1>1. PICK x : x \notin Task
  BY SchedulerAssumption
<1>2. ReleasedAfter(x)
  <2>1. ASSUME NEW s \in Slot, SlotAt(s, "complete", x)' PROVE FALSE
    <3>1. slot'[s] = slot[s] /\ slot[s].pc = "complete"
      BY <2>1 DEF SlotAt, NoNewHolder
    <3>2. TaskOf(s)' = TaskOf(s)
      BY <3>1, TaskOfKept
    <3>3. TaskOf(s) \in Task
      BY <3>1, TaskOfType DEF TypeOK, WorkerTypeOK
    <3> QED BY <1>1, <2>1, <3>2, <3>3 DEF SlotAt
  <2>2. ASSUME NEW c \in SchedulerID, SchedAt(c, {"complete"}, x)' PROVE FALSE
    <3>1. sched'[c].cur \in Task
      BY <2>2 DEF SchedAt, TypeOK, SchedTypeOK
    <3> QED BY <1>1, <2>2, <3>1 DEF SchedAt
  <2> QED BY <2>1, <2>2 DEF ReleasedAfter
<1> QED BY <1>2, HolderFrame

(* Going on to a call other than CompleteFailure makes no holder. *)
LEMMA GotoHolder ==
  ASSUME TypeOK, NEW s \in Slot, NEW pc, pc # "complete", Goto(s, pc), UNCHANGED sched
  PROVE  NoNewHolder /\ slot'[s].pc # "complete"
<1>1. \A r \in Slot \ {s} : slot'[r] = slot[r]
  BY DEF Goto, TypeOK, WorkerTypeOK, SlotTypeOK
<1>2. slot'[s].pc # "complete"
  BY DEF Goto, FreeSlot, TypeOK, WorkerTypeOK, SlotTypeOK
<1> QED BY <1>1, <1>2 DEF NoNewHolder

(* An actor that marks a running task failed becomes its only holder. *)
LEMMA FailTaskHolds ==
  ASSUME TypeOK, TypeOK', FailureHeldOnce, NEW s \in Slot, NEW nr \in BOOLEAN,
         FailTask(s, nr), UNCHANGED sched
  PROVE  FailureHeldOnce'
<1>0. TaskOf(s) \in Task /\ StreamKept
  BY TaskOfType DEF FailTask, TypeOK, WorkerTypeOK, redisVars, StreamKept
<1>1. \A r \in Slot \ {s} : slot'[r] = slot[r]
  BY DEF FailTask, TypeOK, WorkerTypeOK, SlotTypeOK
<1>2. \A x : FailedKeptBut(x)
  BY <1>0, MarkFailedEffect DEF FailTask
<1>3. CASE ~Hits(TaskOf(s), "running")
  <2>1. slot'[s].pc # "complete"
    BY <1>3 DEF FailTask, FreeSlot, TypeOK, WorkerTypeOK, SlotTypeOK
  <2>2. NoNewHolder
    BY <1>1, <2>1 DEF NoNewHolder
  <2> QED BY <1>0, <1>2, <2>2, PlainFrame
<1>4. CASE Hits(TaskOf(s), "running")
  <2> DEFINE u == TaskOf(s)
             row == tasks[u]
             d == IF nr THEN NonRetryableDecision(row.retry_count)
                        ELSE DecideFailure(row.retry_count, row.max_retries)
  <2>1. slot' = [slot EXCEPT ![s] = [FreeSlot EXCEPT !.pc = "complete",
                                                     !.msg = slot[s].msg,
                                                     !.decision = d]]
    BY <1>4 DEF FailTask
  <2>2. slot'[s].pc = "complete" /\ slot'[s].decision = d /\ slot'[s].msg = slot[s].msg
    BY <2>1 DEF FreeSlot, TypeOK, WorkerTypeOK, SlotTypeOK
  <2>3. /\ row.status # "failed" /\ tasks'[u].status = "failed"
        /\ tasks'[u].retry_count = row.retry_count
        /\ tasks'[u].max_retries = row.max_retries
    BY <1>0, <1>4, MarkFailedHit DEF FailTask
  <2>4. FreshDecision(d, tasks'[u])
    BY <2>3 DEF FreshDecision
  <2>5. TaskOf(s)' = u
    BY <1>0, <2>2, TaskOfKept DEF FailTask
  <2>6. \A r \in Slot \ {s} : slot'[r].pc = "complete" =>
           /\ TaskOf(r)' = TaskOf(r) /\ TaskOf(r) \in Task /\ TaskOf(r) # u
           /\ tasks[TaskOf(r)].status = "failed"
    <3> SUFFICES ASSUME NEW r \in Slot \ {s}, slot'[r].pc = "complete"
                 PROVE  /\ TaskOf(r)' = TaskOf(r) /\ TaskOf(r) \in Task /\ TaskOf(r) # u
                        /\ tasks[TaskOf(r)].status = "failed"
      OBVIOUS
    <3>1. slot'[r] = slot[r] /\ slot[r].pc = "complete"
      BY <1>1
    <3>2. tasks[TaskOf(r)].status = "failed"
      BY <3>1 DEF FailureHeldOnce, SlotFailureHeld
    <3>3. TaskOf(r) \in Task /\ TaskOf(r)' = TaskOf(r)
      BY <1>0, <3>1, TaskOfKept, TaskOfType DEF TypeOK, WorkerTypeOK
    <3> QED BY <2>3, <3>2, <3>3
  <2>7. \A c \in SchedulerID : sched[c].pc = "complete" =>
           /\ sched[c].cur \in Task /\ sched[c].cur # u
           /\ tasks[sched[c].cur].status = "failed"
    BY <2>3 DEF FailureHeldOnce, SchedFailureHeld, TypeOK, SchedTypeOK
  <2> HIDE DEF u, d, row
  <2>8. SlotFailureHeld'
    <3> SUFFICES ASSUME NEW r \in Slot, slot'[r].pc = "complete"
                 PROVE  /\ tasks'[TaskOf(r)'].status = "failed"
                        /\ FreshDecision(slot'[r].decision, tasks'[TaskOf(r)'])
                        /\ \A q \in Slot : SlotAt(q, "complete", TaskOf(r))' => q = r
      BY DEF SlotFailureHeld, Slot
    <3>1. CASE r = s
      BY <2>2, <2>3, <2>4, <2>5, <2>6, <3>1 DEF SlotAt
    <3>2. CASE r # s
      <4>1. /\ TaskOf(r)' = TaskOf(r) /\ TaskOf(r) \in Task /\ TaskOf(r) # u
            /\ tasks[TaskOf(r)].status = "failed" /\ slot'[r] = slot[r]
        BY <1>1, <2>6, <3>2
      <4>2. /\ tasks'[TaskOf(r)].status = "failed"
            /\ tasks'[TaskOf(r)].retry_count = tasks[TaskOf(r)].retry_count
            /\ tasks'[TaskOf(r)].max_retries = tasks[TaskOf(r)].max_retries
        BY <1>2, <4>1 DEF FailedKeptBut
      <4>3. FreshDecision(slot[r].decision, tasks[TaskOf(r)])
        BY <4>1 DEF FailureHeldOnce, SlotFailureHeld
      <4>4. FreshDecision(slot'[r].decision, tasks'[TaskOf(r)'])
        BY <4>1, <4>2, <4>3 DEF FreshDecision
      <4>5. \A q \in Slot : SlotAt(q, "complete", TaskOf(r))' => q = r
        BY <1>1, <2>5, <2>6, <4>1 DEF SlotAt, FailureHeldOnce, SlotFailureHeld
      <4> QED BY <4>1, <4>2, <4>4, <4>5
    <3> QED BY <3>1, <3>2
  <2>9. SchedFailureHeld'
    <3> SUFFICES ASSUME NEW c \in SchedulerID, sched[c].pc = "complete"
                 PROVE  /\ tasks'[sched[c].cur].status = "failed"
                        /\ FreshDecision(sched[c].decision, tasks'[sched[c].cur])
                        /\ \A b \in SchedulerID :
                             SchedAt(b, {"complete"}, sched[c].cur) => b = c
                        /\ \A q \in Slot : ~SlotAt(q, "complete", sched[c].cur)'
      BY DEF SchedFailureHeld, Slot, SchedAt
    <3>1. /\ tasks'[sched[c].cur].status = "failed"
          /\ tasks'[sched[c].cur].retry_count = tasks[sched[c].cur].retry_count
          /\ tasks'[sched[c].cur].max_retries = tasks[sched[c].cur].max_retries
      BY <1>2, <2>7 DEF FailedKeptBut
    <3>2. FreshDecision(sched[c].decision, tasks[sched[c].cur])
      BY DEF FailureHeldOnce, SchedFailureHeld
    <3>3. FreshDecision(sched[c].decision, tasks'[sched[c].cur])
      BY <3>1, <3>2 DEF FreshDecision
    <3>4. \A q \in Slot : ~SlotAt(q, "complete", sched[c].cur)'
      BY <1>1, <2>5, <2>6, <2>7 DEF SlotAt, FailureHeldOnce, SchedFailureHeld
    <3> QED BY <3>1, <3>3, <3>4 DEF FailureHeldOnce, SchedFailureHeld
  <2> QED BY <2>8, <2>9 DEF FailureHeldOnce
<1> QED BY <1>3, <1>4

LEMMA RecoverMarkFailedHolds ==
  ASSUME TypeOK, TypeOK', FailureHeldOnce, NEW c \in SchedulerID, NEW t \in Task,
         RecoverMarkFailed(c, t), UNCHANGED slot
  PROVE  FailureHeldOnce'
<1>0. StreamKept
  BY DEF RecoverMarkFailed, redisVars, StreamKept
<1>2. \A x : FailedKeptBut(x)
  BY MarkFailedEffect DEF RecoverMarkFailed
<1>3. CASE ~Hits(t, "running")
  <2>1. NoNewHolder
    BY <1>3 DEF RecoverMarkFailed, Skip, NoNewHolder, TypeOK, SchedTypeOK
  <2> QED BY <1>0, <1>2, <2>1, PlainFrame
<1>4. CASE Hits(t, "running")
  <2> DEFINE d == DecideFailure(tasks[t].retry_count, tasks[t].max_retries)
  <2>1. sched' = [sched EXCEPT ![c] = [pc |-> "complete", todo |-> sched[c].todo \ {t},
                                       cur |-> t, decision |-> d]]
    BY <1>4 DEF RecoverMarkFailed
  <2> HIDE DEF d
  <2>2. /\ sched'[c].pc = "complete" /\ sched'[c].decision = d /\ sched'[c].cur = t
        /\ \A b \in SchedulerID \ {c} : sched'[b] = sched[b]
    BY <2>1 DEF TypeOK, SchedTypeOK
  <2>3. /\ tasks[t].status # "failed" /\ tasks'[t].status = "failed"
        /\ tasks'[t].retry_count = tasks[t].retry_count
        /\ tasks'[t].max_retries = tasks[t].max_retries
    BY <1>4, MarkFailedHit DEF RecoverMarkFailed
  <2>4. FreshDecision(d, tasks'[t])
    BY <2>3 DEF FreshDecision, d
  <2>5. \A s \in Slot : slot[s].pc = "complete" =>
           /\ TaskOf(s)' = TaskOf(s) /\ TaskOf(s) \in Task /\ TaskOf(s) # t
           /\ tasks[TaskOf(s)].status = "failed"
    <3> SUFFICES ASSUME NEW s \in Slot, slot[s].pc = "complete"
                 PROVE  /\ TaskOf(s)' = TaskOf(s) /\ TaskOf(s) \in Task /\ TaskOf(s) # t
                        /\ tasks[TaskOf(s)].status = "failed"
      OBVIOUS
    <3>1. tasks[TaskOf(s)].status = "failed"
      BY DEF FailureHeldOnce, SlotFailureHeld
    <3>2. TaskOf(s) \in Task /\ TaskOf(s)' = TaskOf(s)
      BY <1>0, TaskOfKept, TaskOfType DEF TypeOK, WorkerTypeOK
    <3> QED BY <2>3, <3>1, <3>2
  <2>6. \A b \in SchedulerID : sched[b].pc = "complete" =>
           /\ sched[b].cur \in Task /\ sched[b].cur # t
           /\ tasks[sched[b].cur].status = "failed"
    BY <2>3 DEF FailureHeldOnce, SchedFailureHeld, TypeOK, SchedTypeOK
  <2>7. SlotFailureHeld'
    <3> SUFFICES ASSUME NEW s \in Slot, slot[s].pc = "complete"
                 PROVE  /\ tasks'[TaskOf(s)].status = "failed"
                        /\ FreshDecision(slot[s].decision, tasks'[TaskOf(s)])
                        /\ \A r \in Slot : SlotAt(r, "complete", TaskOf(s))' => r = s
      BY <2>5 DEF SlotFailureHeld, Slot
    <3>1. /\ tasks'[TaskOf(s)].status = "failed"
          /\ tasks'[TaskOf(s)].retry_count = tasks[TaskOf(s)].retry_count
          /\ tasks'[TaskOf(s)].max_retries = tasks[TaskOf(s)].max_retries
      BY <1>2, <2>5 DEF FailedKeptBut
    <3>2. FreshDecision(slot[s].decision, tasks'[TaskOf(s)])
      BY <3>1 DEF FreshDecision, FailureHeldOnce, SlotFailureHeld
    <3>3. \A r \in Slot : SlotAt(r, "complete", TaskOf(s))' => r = s
      BY <2>5 DEF SlotAt, FailureHeldOnce, SlotFailureHeld
    <3> QED BY <3>1, <3>2, <3>3
  <2>8. SchedFailureHeld'
    <3> SUFFICES ASSUME NEW b \in SchedulerID, sched'[b].pc = "complete"
                 PROVE  /\ tasks'[sched'[b].cur].status = "failed"
                        /\ FreshDecision(sched'[b].decision, tasks'[sched'[b].cur])
                        /\ \A a \in SchedulerID :
                             SchedAt(a, {"complete"}, sched[b].cur)' => a = b
                        /\ \A s \in Slot : ~SlotAt(s, "complete", sched[b].cur)'
      BY DEF SchedFailureHeld, Slot
    <3>1. CASE b = c
      BY <2>2, <2>3, <2>4, <2>5, <2>6, <3>1 DEF SlotAt, SchedAt
    <3>2. CASE b # c
      <4>1. /\ sched'[b] = sched[b] /\ sched[b].cur \in Task /\ sched[b].cur # t
            /\ tasks[sched[b].cur].status = "failed"
        BY <2>2, <2>6, <3>2
      <4>2. /\ tasks'[sched[b].cur].status = "failed"
            /\ tasks'[sched[b].cur].retry_count = tasks[sched[b].cur].retry_count
            /\ tasks'[sched[b].cur].max_retries = tasks[sched[b].cur].max_retries
        BY <1>2, <4>1 DEF FailedKeptBut
      <4>3. FreshDecision(sched'[b].decision, tasks'[sched'[b].cur])
        BY <4>1, <4>2 DEF FreshDecision, FailureHeldOnce, SchedFailureHeld
      <4>4. \A a \in SchedulerID : SchedAt(a, {"complete"}, sched[b].cur)' => a = b
        BY <2>2, <4>1 DEF SchedAt, FailureHeldOnce, SchedFailureHeld
      <4>5. \A s \in Slot : ~SlotAt(s, "complete", sched[b].cur)'
        BY <2>5, <4>1 DEF SlotAt, FailureHeldOnce, SchedFailureHeld
      <4> QED BY <4>1, <4>2, <4>3, <4>4, <4>5
    <3> QED BY <3>1, <3>2
  <2> QED BY <2>7, <2>8 DEF FailureHeldOnce
<1> QED BY <1>3, <1>4

(* An actor that completes a failure was its only holder, so that nobody   *)
(* holds the task when it leaves failed.                                   *)
LEMMA FinishFailureReleases ==
  ASSUME TypeOK, FailureHeldOnce, NEW s \in Slot, FinishFailure(s), UNCHANGED sched
  PROVE  FailureHeldOnce' /\ BudgetKept
<1>0. TaskOf(s) \in Task /\ StreamKept /\ slot[s].pc = "complete"
  BY TaskOfType DEF FinishFailure, TypeOK, WorkerTypeOK, redisVars, StreamKept
<1> PICK u \in Task : u = TaskOf(s)
  BY <1>0
<1>1. /\ slot[s].decision \in FailureDecision
      /\ FreshDecision(slot[s].decision, tasks[u])
  BY <1>0 DEF TypeOK, WorkerTypeOK, SlotTypeOK, FailureHeldOnce, SlotFailureHeld
<1>2. FailedKeptBut(u) /\ BudgetKept
  BY <1>1, CompleteFailureEffect DEF FinishFailure
<1>3. PICK pc \in {"free", "deadpub", "ack"} : Goto(s, pc)
  BY DEF FinishFailure
<1>4. NoNewHolder /\ slot'[s].pc # "complete"
  BY <1>3, GotoHolder
<1>5. ReleasedAfter(u)
  <2>1. ASSUME NEW r \in Slot, SlotAt(r, "complete", u)' PROVE FALSE
    <3>1. slot'[r] = slot[r] /\ slot[r].pc = "complete" /\ r # s
      BY <1>4, <2>1 DEF SlotAt, NoNewHolder
    <3>2. TaskOf(r) = u
      BY <1>0, <2>1, <3>1, TaskOfKept DEF SlotAt
    <3> QED BY <1>0, <3>1, <3>2 DEF SlotAt, FailureHeldOnce, SlotFailureHeld
  <2>2. ASSUME NEW c \in SchedulerID, SchedAt(c, {"complete"}, u)' PROVE FALSE
    BY <1>0, <2>2 DEF SlotAt, SchedAt, FailureHeldOnce, SchedFailureHeld
  <2> QED BY <2>1, <2>2 DEF ReleasedAfter
<1> QED BY <1>0, <1>2, <1>4, <1>5, HolderFrame

LEMMA RecoverCompleteFailureReleases ==
  ASSUME TypeOK, FailureHeldOnce, NEW c \in SchedulerID, RecoverCompleteFailure(c),
         UNCHANGED slot
  PROVE  FailureHeldOnce' /\ BudgetKept
<1>0. sched[c].cur \in Task /\ StreamKept /\ sched[c].pc = "complete"
  BY DEF RecoverCompleteFailure, TypeOK, SchedTypeOK, redisVars, StreamKept
<1> PICK u \in Task : u = sched[c].cur
  BY <1>0
<1>1. /\ sched[c].decision \in FailureDecision
      /\ FreshDecision(sched[c].decision, tasks[u])
  BY <1>0 DEF TypeOK, SchedTypeOK, FailureHeldOnce, SchedFailureHeld
<1>2. FailedKeptBut(u) /\ BudgetKept
  BY <1>1, CompleteFailureEffect DEF RecoverCompleteFailure
<1>3. /\ sched'[c].pc # "complete"
      /\ \A b \in SchedulerID \ {c} : sched'[b] = sched[b]
  BY <1>0 DEF RecoverCompleteFailure, NextItem, ScanOf, SchedIdle, TypeOK, SchedTypeOK
<1>4. NoNewHolder
  BY <1>3 DEF NoNewHolder
<1>5. ReleasedAfter(u)
  <2>1. ASSUME NEW s \in Slot, SlotAt(s, "complete", u)' PROVE FALSE
    <3>1. TaskOf(s) = u /\ slot[s].pc = "complete"
      BY <1>0, <2>1, TaskOfKept DEF SlotAt
    <3> QED BY <1>0, <3>1 DEF SlotAt, FailureHeldOnce, SchedFailureHeld
  <2>2. ASSUME NEW b \in SchedulerID, SchedAt(b, {"complete"}, u)' PROVE FALSE
    BY <1>0, <1>3, <2>2 DEF SchedAt, FailureHeldOnce, SchedFailureHeld
  <2> QED BY <2>1, <2>2 DEF ReleasedAfter
<1> QED BY <1>0, <1>2, <1>4, <1>5, HolderFrame

-----------------------------------------------------------------------------
(* One lemma per actor. *)

LEMMA HandleMessageSafe ==
  ASSUME TypeOK, TypeOK', FailureHeldOnce, NEW s \in Slot, HandleMessage(s),
         UNCHANGED sched
  PROVE  FailureHeldOnce' /\ BudgetKept
<1>0. slot[s].pc # "free" => TaskOf(s) \in Task
  BY TaskOfType DEF TypeOK, WorkerTypeOK
<1>1. CASE GetTask(s) \/ SendDead(s) \/ AckMessage(s)
  <2>1. UNCHANGED tasks /\ StreamKept
    BY <1>1 DEF GetTask, SendDead, AckMessage, PublishDead, Ack, redisVars, StreamKept
  <2>2. PICK pc : pc # "complete" /\ Goto(s, pc)
    BY <1>1 DEF GetTask, SendDead, AckMessage
  <2> QED BY <2>1, <2>2, NoEffect, GotoHolder, PlainFrame
<1>2. CASE ClaimTask(s)
  <2>1. StreamKept /\ TaskOf(s) \in Task
    BY <1>0, <1>2 DEF ClaimTask, redisVars, StreamKept
  <2>2. PICK pc : pc # "complete" /\ Goto(s, pc)
    BY <1>2 DEF ClaimTask
  <2>3. (\A x : FailedKeptBut(x)) /\ BudgetKept
    BY <1>2, <2>1, TransitionEffect DEF ClaimTask
  <2> QED BY <2>1, <2>2, <2>3, GotoHolder, PlainFrame
<1>3. CASE SucceedTask(s)
  <2>1. StreamKept /\ TaskOf(s) \in Task
    BY <1>0, <1>3 DEF SucceedTask, redisVars, StreamKept
  <2>2. PICK pc : pc # "complete" /\ Goto(s, pc)
    BY <1>3 DEF SucceedTask
  <2>3. (\A x : FailedKeptBut(x)) /\ BudgetKept
    BY <1>3, <2>1, TransitionEffect DEF SucceedTask
  <2> QED BY <2>1, <2>2, <2>3, GotoHolder, PlainFrame
<1>4. ASSUME NEW nr \in BOOLEAN, FailTask(s, nr) PROVE FailureHeldOnce' /\ BudgetKept
  <2>1. BudgetKept
    BY <1>0, <1>4, MarkFailedEffect DEF FailTask
  <2> QED BY <1>4, <2>1, FailTaskHolds
<1>5. CASE FinishFailure(s)
  BY <1>5, FinishFailureReleases
<1> QED BY <1>1, <1>2, <1>3, <1>4, <1>5 DEF HandleMessage

LEMMA LoopSafe ==
  ASSUME TypeOK, TypeOK', FailureHeldOnce, NEW w \in WorkerID,
         \/ InspectPending(w) \/ ClaimPending(w) \/ ReadBatch(w)
         \/ ReadNothing(w) \/ SpawnHandle(w) \/ RecoveryTickElapses(w),
         UNCHANGED sched
  PROVE  FailureHeldOnce' /\ BudgetKept
<1>1. UNCHANGED tasks /\ StreamKept
  BY DEF InspectPending, ClaimPending, ReadBatch, ReadNothing, SpawnHandle,
         RecoveryTickElapses, XClaim, XReadGroup, redisVars, StreamKept
<1>2. \A s \in Slot : slot'[s].pc = "complete" => slot'[s] = slot[s]
  <2>1. CASE SpawnHandle(w)
    <3>1. PICK i \in 1..Concurrency, e \in loop[w].ids :
             slot' = [slot EXCEPT ![<<w, i>>] =
                        [FreeSlot EXCEPT !.pc = "get", !.msg = e,
                           !.recovered = (loop[w].phase = "spawnRecovered")]]
      BY <2>1 DEF SpawnHandle
    <3> QED BY <3>1 DEF FreeSlot, TypeOK, WorkerTypeOK, SlotTypeOK
  <2>2. CASE ~SpawnHandle(w)
    BY <2>2 DEF InspectPending, ClaimPending, ReadBatch, ReadNothing, RecoveryTickElapses
  <2> QED BY <2>1, <2>2
<1> QED BY <1>1, <1>2, NoEffect, PlainFrame DEF NoNewHolder

(* Nothing a scheduler does between its two updates makes a holder. *)
LEMMA SchedNoHolder ==
  ASSUME TypeOK, UNCHANGED slot, NEW c \in SchedulerID,
         \/ NextItem(c)
         \/ \E t : Skip(c, t)
         \/ \E pc, S : pc # "complete" /\ StartScan(c, pc, S)
         \/ \E pc, t : pc # "complete" /\ Pick(c, t, pc)
         \/ \E pc : pc # "complete" /\ Proceed(c, pc)
         \/ sched' = [sched EXCEPT ![c] = SchedIdle],
         \/ sched[c].pc # "complete"
         \/ NextItem(c) \/ sched' = [sched EXCEPT ![c] = SchedIdle]
  PROVE  NoNewHolder
<1>1. \A b \in SchedulerID \ {c} : sched'[b] = sched[b]
  BY DEF NextItem, Skip, StartScan, Pick, Proceed, TypeOK, SchedTypeOK
<1>2. sched'[c].pc # "complete"
  <2>1. CASE NextItem(c)
    BY <2>1 DEF NextItem, ScanOf, SchedIdle, TypeOK, SchedTypeOK
  <2>2. CASE sched' = [sched EXCEPT ![c] = SchedIdle]
    BY <2>2 DEF SchedIdle, TypeOK, SchedTypeOK
  <2>3. ASSUME NEW t, Skip(c, t), sched[c].pc # "complete"
        PROVE  sched'[c].pc # "complete"
    BY <2>3 DEF Skip, TypeOK, SchedTypeOK
  <2>4. ASSUME NEW pc, NEW S, pc # "complete", StartScan(c, pc, S)
        PROVE  sched'[c].pc # "complete"
    BY <2>4 DEF StartScan, SchedIdle, TypeOK, SchedTypeOK
  <2>5. ASSUME NEW pc, NEW t, pc # "complete", Pick(c, t, pc)
        PROVE  sched'[c].pc # "complete"
    BY <2>5 DEF Pick, SchedIdle, TypeOK, SchedTypeOK
  <2>6. ASSUME NEW pc, pc # "complete", Proceed(c, pc)
        PROVE  sched'[c].pc # "complete"
    BY <2>6 DEF Proceed, TypeOK, SchedTypeOK
  <2> QED BY <2>1, <2>2, <2>3, <2>4, <2>5, <2>6
<1> QED BY <1>1, <1>2 DEF NoNewHolder

LEMMA TickSafe ==
  ASSUME TypeOK, TypeOK', FailureHeldOnce, NEW c \in SchedulerID, Tick(c), UNCHANGED slot
  PROVE  FailureHeldOnce' /\ BudgetKept
<1>1. CASE ScanExpiredRunning(c) \/ ScanDueTaskIDs(c) \/ ScanDueRetrying(c)
  <2>1. UNCHANGED tasks /\ StreamKept
    BY <1>1 DEF ScanExpiredRunning, ScanDueTaskIDs, ScanDueRetrying, redisVars, StreamKept
  <2>2. NoNewHolder
    BY <1>1, SchedNoHolder DEF ScanExpiredRunning, ScanDueTaskIDs, ScanDueRetrying, ScanDone
  <2> QED BY <2>1, <2>2, NoEffect, PlainFrame
<1>2. ASSUME NEW t \in Task, RecoverMarkFailed(c, t)
      PROVE  FailureHeldOnce' /\ BudgetKept
  <2>1. BudgetKept
    BY <1>2, MarkFailedEffect DEF RecoverMarkFailed
  <2> QED BY <1>2, <2>1, RecoverMarkFailedHolds
<1>3. CASE RecoverCompleteFailure(c)
  BY <1>3, RecoverCompleteFailureReleases
<1>4. CASE RecoverPublishDead(c) \/ ZSetRemove(c)
  <2>1. UNCHANGED tasks /\ StreamKept
    BY <1>4 DEF RecoverPublishDead, ZSetRemove, PublishDead, Remove, StreamKept
  <2>2. NoNewHolder
    BY <1>4, SchedNoHolder DEF RecoverPublishDead, ZSetRemove
  <2> QED BY <2>1, <2>2, NoEffect, PlainFrame
<1>5. ASSUME NEW t \in Task, ZSetGet(c, t) PROVE FailureHeldOnce' /\ BudgetKept
  <2>1. UNCHANGED tasks /\ StreamKept
    BY <1>5 DEF ZSetGet, redisVars, StreamKept
  <2>2. NoNewHolder
    <3>1. PICK pc : pc # "complete" /\ Pick(c, t, pc)
      BY <1>5 DEF ZSetGet
    <3> QED BY <1>5, <3>1, SchedNoHolder DEF ZSetGet
  <2> QED BY <2>1, <2>2, NoEffect, PlainFrame
<1>6. CASE ZSetTransition(c)
  <2>1. StreamKept /\ sched[c].cur \in Task
    BY <1>6 DEF ZSetTransition, redisVars, StreamKept, TypeOK, SchedTypeOK
  <2>2. (\A x : FailedKeptBut(x)) /\ BudgetKept
    BY <1>6, <2>1, TransitionEffect DEF ZSetTransition
  <2>3. NoNewHolder
    <3>1. PICK pc : pc # "complete" /\ Proceed(c, pc)
      BY <1>6 DEF ZSetTransition
    <3> QED BY <1>6, <3>1, SchedNoHolder DEF ZSetTransition
  <2> QED BY <2>1, <2>2, <2>3, PlainFrame
<1>7. CASE ZSetPublish(c) \/ RetryPublish(c)
  <2>1. UNCHANGED tasks /\ sched[c].cur \in Task /\ PublishTask(sched[c].cur)
    BY <1>7 DEF ZSetPublish, RetryPublish, TypeOK, SchedTypeOK
  <2>2. NoNewHolder
    BY <1>7, SchedNoHolder DEF ZSetPublish, RetryPublish
  <2> QED BY <2>1, <2>2, PublishKeepsStream, NoEffect, PlainFrame
<1>8. ASSUME NEW t \in Task, RetryTransition(c, t) PROVE FailureHeldOnce' /\ BudgetKept
  <2>1. StreamKept
    BY <1>8 DEF RetryTransition, redisVars, StreamKept
  <2>2. (\A x : FailedKeptBut(x)) /\ BudgetKept
    BY <1>8, TransitionEffect DEF RetryTransition
  <2>3. NoNewHolder
    BY <1>8, SchedNoHolder DEF RetryTransition
  <2> QED BY <2>1, <2>2, <2>3, PlainFrame
<1> QED BY <1>1, <1>2, <1>3, <1>4, <1>5, <1>6, <1>7, <1>8 DEF Tick

LEMMA SubmitSafe ==
  ASSUME TypeOK, TypeOK', FailureHeldOnce, NEW t \in Task, Submit(t),
         UNCHANGED <<workerVars, sched>>
  PROVE  FailureHeldOnce' /\ BudgetKept
<1>0. NoNewHolder
  BY DEF NoNewHolder, workerVars
<1>1. ASSUME NEW delayed \in BOOLEAN, NEW m \in MaxRetriesOf, CreateTask(t, delayed, m)
      PROVE  FailureHeldOnce' /\ BudgetKept
  <2>1. StreamKept
    BY <1>1 DEF CreateTask, redisVars, StreamKept
  <2>2. PICK st \in {"scheduled", "pending"} : Create(t, st, m)
    BY <1>1 DEF CreateTask
  <2> QED BY <1>0, <2>1, <2>2, CreateEffect, PlainFrame
<1>2. CASE PublishCreated(t) \/ ScheduleCreated(t)
  <2>1. UNCHANGED tasks
    BY <1>2 DEF PublishCreated, ScheduleCreated
  <2>2. StreamKept
    BY <1>2, PublishKeepsStream DEF PublishCreated, ScheduleCreated, ScheduleTask, StreamKept
  <2> QED BY <1>0, <2>1, <2>2, NoEffect, PlainFrame
<1> QED BY <1>1, <1>2 DEF Submit

LEMMA WorkerFaultSafe ==
  ASSUME TypeOK, TypeOK', FailureHeldOnce, WorkerFault
  PROVE  FailureHeldOnce' /\ BudgetKept
<1>1. UNCHANGED <<tasks, stream, sched>>
  BY DEF WorkerFault, HandleError, DeadPublishError, LoopError, ClaimReplyLost,
         ReadReplyLost, WorkerCrash, XClaim, XReadGroup, redisVars
<1>2. NoNewHolder
  <2>1. ASSUME NEW s \in Slot, HandleError(s) \/ DeadPublishError(s) PROVE NoNewHolder
    <3>1. PICK pc : pc # "complete" /\ Goto(s, pc)
      BY <2>1 DEF HandleError, DeadPublishError
    <3> QED BY <1>1, <3>1, GotoHolder
  <2>2. ASSUME NEW w \in WorkerID, LoopError(w) \/ ClaimReplyLost(w) \/ ReadReplyLost(w)
        PROVE  NoNewHolder
    BY <1>1, <2>2 DEF LoopError, ClaimReplyLost, ReadReplyLost, NoNewHolder
  <2>3. ASSUME NEW w \in WorkerID, WorkerCrash(w) PROVE NoNewHolder
    BY <1>1, <2>3 DEF WorkerCrash, FreeSlot, NoNewHolder
  <2> QED BY <2>1, <2>2, <2>3 DEF WorkerFault
<1> QED BY <1>1, <1>2, NoEffect, PlainFrame DEF StreamKept

LEMMA FaultSafe ==
  ASSUME TypeOK, TypeOK', FailureHeldOnce, Fault
  PROVE  FailureHeldOnce' /\ BudgetKept
<1>1. CASE WorkerFault
  BY <1>1, WorkerFaultSafe
<1>2. CASE SchedulerFault
  <2>1. UNCHANGED <<tasks, stream, slot>>
    BY <1>2 DEF SchedulerFault, SchedCallError, SchedItemError, SchedulerCrash, redisVars,
                workerVars
  <2>2. PICK c \in SchedulerID : \/ SchedCallError(c)
                                 \/ \E t \in Task : SchedItemError(c, t)
                                 \/ SchedulerCrash(c)
    BY <1>2 DEF SchedulerFault
  <2>3. NoNewHolder
    <3>1. CASE SchedCallError(c) \/ SchedulerCrash(c)
      BY <2>1, <3>1, SchedNoHolder DEF SchedCallError, SchedulerCrash
    <3>2. ASSUME NEW t \in Task, SchedItemError(c, t) PROVE NoNewHolder
      <4>1. sched[c].pc # "complete" /\ Skip(c, t)
        BY <3>2, SchedulerAssumption DEF SchedItemError, TypeOK, SchedTypeOK
      <4> QED BY <2>1, <4>1, SchedNoHolder
    <3> QED BY <2>2, <3>1, <3>2
  <2> QED BY <2>1, <2>3, NoEffect, PlainFrame DEF StreamKept
<1>3. CASE SubmitFault
  <2>1. UNCHANGED <<tasks, stream, slot, sched>>
    BY <1>3 DEF SubmitFault, SubmitError, redisVars, workerVars
  <2> QED BY <2>1, NoEffect, PlainFrame DEF StreamKept, NoNewHolder
<1>4. CASE Retransmit
  <2>1. UNCHANGED <<tasks, slot, sched>> /\ \E t \in Task : PublishTask(t)
    BY <1>4 DEF Retransmit, workerVars
  <2> QED BY <2>1, PublishKeepsStream, NoEffect, PlainFrame DEF NoNewHolder
<1> QED BY <1>1, <1>2, <1>3, <1>4 DEF Fault

LEMMA StepSafe ==
  ASSUME TypeOK, TypeOK', FailureHeldOnce, Step
  PROVE  FailureHeldOnce' /\ BudgetKept
<1>1. ASSUME NEW t \in Task, SubmitStep(t) PROVE FailureHeldOnce' /\ BudgetKept
  BY <1>1, SubmitSafe DEF SubmitStep
<1>2. ASSUME NEW w \in WorkerID, LoopStep(w) \/ TickTime(w)
      PROVE  FailureHeldOnce' /\ BudgetKept
  BY <1>2, LoopSafe DEF LoopStep, TickTime
<1>3. ASSUME NEW s \in Slot, HandleStep(s) PROVE FailureHeldOnce' /\ BudgetKept
  BY <1>3, HandleMessageSafe DEF HandleStep
<1>4. ASSUME NEW c \in SchedulerID, SchedStep(c) PROVE FailureHeldOnce' /\ BudgetKept
  BY <1>4, TickSafe DEF SchedStep, workerVars
<1>5. ASSUME NEW t \in Task, TaskTime(t) PROVE FailureHeldOnce' /\ BudgetKept
  <2>1. StreamKept /\ NoNewHolder
    BY <1>5 DEF TaskTime, redisVars, workerVars, StreamKept, NoNewHolder
  <2> QED BY <1>5, <2>1, TaskTimeEffect, PlainFrame DEF TaskTime
<1>6. ASSUME (\E t \in Task : DelayTime(t)) \/ (\E e \in pel : EntryTime(e))
      PROVE  FailureHeldOnce' /\ BudgetKept
  <2>1. UNCHANGED tasks /\ StreamKept /\ NoNewHolder
    BY <1>6 DEF DelayTime, EntryTime, DelayPasses, EntryGoesIdle, workerVars, StreamKept,
                NoNewHolder
  <2> QED BY <2>1, NoEffect, PlainFrame
<1> QED BY <1>1, <1>2, <1>3, <1>4, <1>5, <1>6 DEF Step, TimePasses

LEMMA InitSafe == Init => FailureHeldOnce /\ RetryBudget
BY DEF Init, WorkerInit, SchedInit, StoreInit, FreeSlot, SchedIdle, AbsentRow, Slot,
       FailureHeldOnce, SlotFailureHeld, SchedFailureHeld, RetryBudget

LEMMA NextSafe ==
  ASSUME TypeOK, TypeOK', FailureHeldOnce, RetryBudget, [Next]_vars
  PROVE  FailureHeldOnce' /\ RetryBudget'
<1>1. CASE Step
  BY <1>1, StepSafe DEF BudgetKept
<1>2. CASE Fault
  BY <1>2, FaultSafe DEF BudgetKept
<1>3. CASE UNCHANGED vars
  <2>1. UNCHANGED tasks /\ StreamKept /\ NoNewHolder
    BY <1>3 DEF vars, redisVars, workerVars, StreamKept, NoNewHolder
  <2> QED BY <2>1, NoEffect, PlainFrame DEF BudgetKept
<1> QED BY <1>1, <1>2, <1>3 DEF Next

(***************************************************************************)
(* Whatever the number of tasks, workers, goroutines, schedulers and       *)
(* faults, the failure of an attempt is in the hands of one goroutine or   *)
(* scheduler between MarkFailed and CompleteFailure, the row does not      *)
(* change meanwhile, and no task is charged more retries than max_retries. *)
(***************************************************************************)
THEOREM FailureSafe == Spec => [](FailureHeldOnce /\ RetryBudget)
<1> DEFINE Safe == FailureHeldOnce /\ RetryBudget
<1>1. TypeOK /\ TypeOK' /\ Safe /\ [Next]_vars => Safe'
  BY NextSafe
<1>2. Init => Safe
  BY InitSafe
<1> QED BY <1>1, <1>2, TypeCorrect, PTL DEF Spec

(***************************************************************************)
(* The CHECK on retry_count (000001_create_tasks.up.sql) never fires: the  *)
(* count that CompleteFailure writes, computed when the row was marked     *)
(* failed, is within max_retries.                                          *)
(***************************************************************************)
THEOREM BudgetSafe == Spec => []RetryBudget
BY FailureSafe, PTL

(***************************************************************************)
(* LIVES                                                                   *)
(*                                                                         *)
(* Every step changes the row of at most one task, and as one of the moves *)
(* of its life.  FailureHeldOnce is what makes the charge of a failure a   *)
(* single move: the retry_count that CompleteFailure writes was computed   *)
(* by an earlier step, and is the one of the row plus one because nobody   *)
(* changed the row in between.  RetryBudget makes the count that is        *)
(* written when the budget is used up the count the row already had.       *)
(***************************************************************************)

Life == [t \in Task |-> [status |-> tasks[t].status,
                         retries |-> tasks[t].retry_count,
                         budget |-> tasks[t].max_retries]]

(* One task moved, or none did. *)
Lives == Lifecycle!LifeNext \/ UNCHANGED Life

LEMMA SameRows ==
  ASSUME UNCHANGED tasks
  PROVE  Lives
BY DEF Lives, Life

(* A row that changes as a move says makes that move. *)
LEMMA RowMoves ==
  ASSUME TypeOK, NEW t \in Task, NEW row, NEW from, NEW to, NEW n,
         tasks' = [tasks EXCEPT ![t] = row],
         tasks[t].status = from,
         row.status = to,
         row.retry_count = tasks[t].retry_count + n,
         row.max_retries = tasks[t].max_retries
  PROVE  Lifecycle!Move(t, from, to, n)
<1>1. tasks'[t] = row /\ \A u \in Task \ {t} : tasks'[u] = tasks[u]
  BY DEF TypeOK, StoreTypeOK
<1> QED BY <1>1 DEF Lifecycle!Move

LEMMA CreateMoves ==
  ASSUME TypeOK, NEW t \in Task, NEW st \in {"scheduled", "pending"},
         NEW m \in MaxRetriesOf, Create(t, st, m)
  PROVE  Lives
<1>1. /\ tasks[t].status = "absent"
      /\ tasks'[t].status = st /\ tasks'[t].retry_count = 0 /\ tasks'[t].max_retries = m
      /\ \A u \in Task \ {t} : tasks'[u] = tasks[u]
  BY DEF Create, Exists, AbsentRow, TypeOK, StoreTypeOK
<1>2. Life' = [Life EXCEPT ![t] = [status |-> st, retries |-> 0, budget |-> m]]
  BY <1>1 DEF Life
<1>3. Lifecycle!Submitted(t)
  BY <1>1, <1>2 DEF Lifecycle!Submitted, Life
<1> QED BY <1>3 DEF Lives, Lifecycle!LifeNext

(* A conditional update misses, or moves its row. *)
LEMMA TransitionMoves ==
  ASSUME TypeOK, NEW t \in Task, NEW from, NEW to, NEW w, Transition(t, from, to, w),
         \/ from \in {"scheduled", "retrying"} /\ to = "pending"
         \/ from = "pending" /\ to = "running"
         \/ from = "running" /\ to = "success"
  PROVE  Lives
<1>1. CASE Hits(t, from)
  <2> DEFINE row == MovedRow(tasks[t], to, w)
  <2>1. tasks' = [tasks EXCEPT ![t] = row]
    BY <1>1 DEF Transition
  <2>2. tasks[t].retry_count \in Nat
    BY DEF TypeOK, StoreTypeOK, Row
  <2>3. /\ row.status = to /\ row.max_retries = tasks[t].max_retries
        /\ row.retry_count = tasks[t].retry_count + 0
    BY <2>2 DEF MovedRow, TypeOK, StoreTypeOK, Row
  <2> HIDE DEF row
  <2>4. Lifecycle!Move(t, from, to, 0)
    BY <1>1, <2>1, <2>3, RowMoves DEF Hits
  <2> QED BY <2>4 DEF Lives, Lifecycle!LifeNext, Lifecycle!Released, Lifecycle!Claimed,
                      Lifecycle!Ended
<1>2. CASE ~Hits(t, from)
  BY <1>2, SameRows DEF Transition
<1> QED BY <1>1, <1>2

LEMMA MarkFailedMoves ==
  ASSUME TypeOK, NEW t \in Task, MarkFailed(t)
  PROVE  Lives
<1>1. CASE Hits(t, "running")
  <2> DEFINE row == [tasks[t] EXCEPT !.status = "failed"]
  <2>1. tasks' = [tasks EXCEPT ![t] = row]
    BY <1>1 DEF MarkFailed
  <2>2. /\ row.status = "failed" /\ row.max_retries = tasks[t].max_retries
        /\ row.retry_count = tasks[t].retry_count + 0
    BY DEF TypeOK, StoreTypeOK, Row
  <2> HIDE DEF row
  <2>3. Lifecycle!Move(t, "running", "failed", 0)
    BY <1>1, <2>1, <2>2, RowMoves DEF Hits
  <2> QED BY <2>3 DEF Lives, Lifecycle!LifeNext, Lifecycle!Ended
<1>2. CASE ~Hits(t, "running")
  BY <1>2, SameRows DEF MarkFailed
<1> QED BY <1>1, <1>2

(* A fresh decision charges one retry, or buries without a charge. *)
LEMMA CompleteFailureMoves ==
  ASSUME TypeOK, RetryBudget, NEW t \in Task, NEW d, CompleteFailure(t, d),
         FreshDecision(d, tasks[t])
  PROVE  Lives
<1>1. CASE Hits(t, "failed")
  <2> DEFINE row == [tasks[t] EXCEPT !.status = d.status,
                                     !.retry_count = d.retry_count,
                                     !.next_retry_at = d.next_retry_at]
  <2>1. tasks' = [tasks EXCEPT ![t] = row]
    BY <1>1 DEF CompleteFailure
  <2>2. /\ row.status = d.status /\ row.retry_count = d.retry_count
        /\ row.max_retries = tasks[t].max_retries
    BY DEF TypeOK, StoreTypeOK, Row
  <2>3. /\ tasks[t].retry_count \in Nat /\ tasks[t].max_retries \in Nat
        /\ tasks[t].retry_count <= tasks[t].max_retries
    BY DEF TypeOK, StoreTypeOK, Row, RetryBudget
  <2>4. \/ /\ d.status = "dead" /\ d.retry_count = tasks[t].retry_count + 0
        \/ /\ d.status = "retrying" /\ d.retry_count = tasks[t].retry_count + 1
           /\ tasks[t].retry_count < tasks[t].max_retries
    BY <2>3 DEF FreshDecision, DecideFailure, NonRetryableDecision
  <2> HIDE DEF row
  <2>5. CASE d.status = "dead"
    <3>1. Lifecycle!Move(t, "failed", "dead", 0)
      BY <1>1, <2>1, <2>2, <2>4, <2>5, RowMoves DEF Hits
    <3> QED BY <3>1 DEF Lives, Lifecycle!LifeNext, Lifecycle!Buried
  <2>6. CASE d.status = "retrying"
    <3>1. Lifecycle!Move(t, "failed", "retrying", 1)
      BY <1>1, <2>1, <2>2, <2>4, <2>6, RowMoves DEF Hits
    <3>2. Lifecycle!Charged(t)
      BY <2>4, <2>6, <3>1 DEF Lifecycle!Charged
    <3> QED BY <3>2 DEF Lives, Lifecycle!LifeNext
  <2> QED BY <2>4, <2>5, <2>6
<1>2. CASE ~Hits(t, "failed")
  BY <1>2, SameRows DEF CompleteFailure
<1> QED BY <1>1, <1>2

LEMMA TimeMoves ==
  ASSUME TypeOK, NEW t \in Task, RunExpires(t) \/ RetryComesDue(t)
  PROVE  Lives
<1>1. \A u \in Task : /\ tasks'[u].status = tasks[u].status
                      /\ tasks'[u].retry_count = tasks[u].retry_count
                      /\ tasks'[u].max_retries = tasks[u].max_retries
  BY DEF RunExpires, RetryComesDue, TypeOK, StoreTypeOK, Row
<1> QED BY <1>1 DEF Lives, Life

-----------------------------------------------------------------------------
(* Every step of the program is a move or leaves the rows' lives alone. *)

LEMMA HandleMessageMoves ==
  ASSUME TypeOK, FailureHeldOnce, RetryBudget, NEW s \in Slot, HandleMessage(s)
  PROVE  Lives
<1>0. slot[s].pc # "free" => TaskOf(s) \in Task
  BY TaskOfType DEF TypeOK, WorkerTypeOK
<1>1. CASE GetTask(s) \/ SendDead(s) \/ AckMessage(s)
  BY <1>1, SameRows DEF GetTask, SendDead, AckMessage
<1>2. CASE ClaimTask(s)
  BY <1>0, <1>2, TransitionMoves DEF ClaimTask
<1>3. CASE SucceedTask(s)
  BY <1>0, <1>3, TransitionMoves DEF SucceedTask
<1>4. ASSUME NEW nr \in BOOLEAN, FailTask(s, nr) PROVE Lives
  BY <1>0, <1>4, MarkFailedMoves DEF FailTask
<1>5. CASE FinishFailure(s)
  <2>1. FreshDecision(slot[s].decision, tasks[TaskOf(s)])
    BY <1>5 DEF FinishFailure, FailureHeldOnce, SlotFailureHeld
  <2> QED BY <1>0, <1>5, <2>1, CompleteFailureMoves DEF FinishFailure
<1> QED BY <1>1, <1>2, <1>3, <1>4, <1>5 DEF HandleMessage

LEMMA TickMoves ==
  ASSUME TypeOK, FailureHeldOnce, RetryBudget, NEW c \in SchedulerID, Tick(c)
  PROVE  Lives
<1>0. sched[c].pc \in {"complete", "ztransition"} => sched[c].cur \in Task
  BY DEF TypeOK, SchedTypeOK
<1>1. CASE \/ ScanExpiredRunning(c) \/ ScanDueTaskIDs(c) \/ ScanDueRetrying(c)
           \/ RecoverPublishDead(c) \/ ZSetPublish(c) \/ ZSetRemove(c) \/ RetryPublish(c)
           \/ \E t \in Task : ZSetGet(c, t)
  BY <1>1, SameRows DEF ScanExpiredRunning, ScanDueTaskIDs, ScanDueRetrying,
       RecoverPublishDead, ZSetPublish, ZSetRemove, RetryPublish, ZSetGet
<1>2. ASSUME NEW t \in Task, RecoverMarkFailed(c, t) PROVE Lives
  BY <1>2, MarkFailedMoves DEF RecoverMarkFailed
<1>3. CASE RecoverCompleteFailure(c)
  <2>1. FreshDecision(sched[c].decision, tasks[sched[c].cur])
    BY <1>3 DEF RecoverCompleteFailure, FailureHeldOnce, SchedFailureHeld
  <2> QED BY <1>0, <1>3, <2>1, CompleteFailureMoves DEF RecoverCompleteFailure
<1>4. CASE ZSetTransition(c)
  BY <1>0, <1>4, TransitionMoves DEF ZSetTransition
<1>5. ASSUME NEW t \in Task, RetryTransition(c, t) PROVE Lives
  BY <1>5, TransitionMoves DEF RetryTransition
<1> QED BY <1>1, <1>2, <1>3, <1>4, <1>5 DEF Tick

LEMMA SubmitMoves ==
  ASSUME TypeOK, NEW t \in Task, Submit(t)
  PROVE  Lives
<1>1. ASSUME NEW delayed \in BOOLEAN, NEW m \in MaxRetriesOf, CreateTask(t, delayed, m)
      PROVE  Lives
  <2>1. PICK st \in {"scheduled", "pending"} : Create(t, st, m)
    BY <1>1 DEF CreateTask
  <2> QED BY <2>1, CreateMoves
<1>2. CASE PublishCreated(t) \/ ScheduleCreated(t)
  BY <1>2, SameRows DEF PublishCreated, ScheduleCreated
<1> QED BY <1>1, <1>2 DEF Submit

LEMMA StepMoves ==
  ASSUME TypeOK, FailureHeldOnce, RetryBudget, Step
  PROVE  Lives
<1>1. ASSUME NEW t \in Task, SubmitStep(t) PROVE Lives
  BY <1>1, SubmitMoves DEF SubmitStep
<1>2. ASSUME NEW w \in WorkerID, LoopStep(w) \/ TickTime(w) PROVE Lives
  BY <1>2, LoopType, SameRows DEF LoopStep, TickTime, TypeOK
<1>3. ASSUME NEW s \in Slot, HandleStep(s) PROVE Lives
  BY <1>3, HandleMessageMoves DEF HandleStep
<1>4. ASSUME NEW c \in SchedulerID, SchedStep(c) PROVE Lives
  BY <1>4, TickMoves DEF SchedStep
<1>5. ASSUME NEW t \in Task, TaskTime(t) PROVE Lives
  BY <1>5, TimeMoves DEF TaskTime
<1>6. ASSUME (\E t \in Task : DelayTime(t)) \/ (\E e \in pel : EntryTime(e)) PROVE Lives
  BY <1>6, SameRows DEF DelayTime, EntryTime
<1> QED BY <1>1, <1>2, <1>3, <1>4, <1>5, <1>6 DEF Step, TimePasses

(* No fault changes a row. *)
LEMMA FaultMoves ==
  ASSUME TypeOK, Fault
  PROVE  Lives
<1>1. CASE WorkerFault
  BY <1>1, WorkerFaultType, SameRows DEF TypeOK
<1>2. CASE SchedulerFault \/ SubmitFault \/ Retransmit
  BY <1>2, SameRows DEF SchedulerFault, SchedCallError, SchedItemError, SchedulerCrash,
                        SubmitFault, SubmitError, Retransmit
<1> QED BY <1>1, <1>2 DEF Fault

LEMMA LivesInit == Init => Lifecycle!LifeInit
BY DEF Init, StoreInit, AbsentRow, Lifecycle!LifeInit, Lifecycle!Unborn

LEMMA NextMoves ==
  ASSUME TypeOK, FailureHeldOnce, RetryBudget, [Next]_vars
  PROVE  Lives
<1>1. CASE Step
  BY <1>1, StepMoves
<1>2. CASE Fault
  BY <1>2, FaultMoves
<1>3. CASE UNCHANGED vars
  BY <1>3, SameRows DEF vars
<1> QED BY <1>1, <1>2, <1>3 DEF Next

LEMMA LivesIsStep ==
  Lives => [Lifecycle!LifeNext]_[t \in Task |-> [status |-> tasks[t].status,
                                                 retries |-> tasks[t].retry_count,
                                                 budget |-> tasks[t].max_retries]]
BY DEF Lives, Life

(***************************************************************************)
(* Every behaviour of the program, with any number of tasks, workers,      *)
(* goroutines, schedulers and faults, is for each of its tasks a life that *)
(* TaskLifecycle allows: an attempt is claimed once, its failure is        *)
(* charged exactly once and within the budget, success and dead are final. *)
(***************************************************************************)
THEOREM Implements == Spec => ImplementsLifecycle
<1> DEFINE Safe == FailureHeldOnce /\ RetryBudget
<1>1. TypeOK /\ Safe /\ [Next]_vars =>
        [Lifecycle!LifeNext]_[t \in Task |-> [status |-> tasks[t].status,
                                              retries |-> tasks[t].retry_count,
                                              budget |-> tasks[t].max_retries]]
  BY NextMoves, LivesIsStep
<1> HIDE DEF Safe
<1>2. Spec => []Safe
  BY FailureSafe DEF Safe
<1> QED BY <1>1, <1>2, LivesInit, TypeCorrect, PTL
        DEF Spec, ImplementsLifecycle, Lifecycle!LifeSpec

=============================================================================
