---------------------------- MODULE ReachProofs ----------------------------
(***************************************************************************)
(* No task is orphaned, no dead letter is lost or sent twice, both even    *)
(* when Redis loses the consumer group, and the metrics count every        *)
(* outcome once.                                                           *)
(*                                                                         *)
(* None of them is inductive.  An acknowledgement takes a message that     *)
(* a pending task might still need, so PendingInv asks for a message that  *)
(* no goroutine is about to acknowledge; a removal takes a delayed task    *)
(* out of the sorted set, so PastInv says that who is about to remove one  *)
(* has seen it past scheduled, for good, as ExistInv says that the task    *)
(* had been inserted by then; DeadInv says that a dead task has one actor  *)
(* to bury it at most; and MeterInv says what a count is the size of.      *)
(***************************************************************************)
EXTENDS QueueProofs, MeteredQueue, GroupLoss, FiniteSetTheorems

(* The calls after which a goroutine acknowledges its message. *)
Closing == {"complete", "deadpub", "ack"}

(* A message of t that Redis keeps and that nobody is closing. *)
Fresh(t) == \E e \in Entry : /\ stream[e] = t /\ Unacked(e)
                             /\ \A s \in Slot : slot[s].msg = e =>
                                                  slot[s].pc \notin Closing

PendingInv(t) ==
  tasks[t].status = "pending" =>
    Fresh(t) \/ Publishing(t) \/ <<"dispatch", t>> \in interrupted

(* Whoever has a task at hand has one that was inserted. *)
ExistInv ==
  /\ \A t \in Task : t \in zset \/ req[t] # "none" => Exists(t)
  /\ \A c \in SchedulerID, t \in Task :
       t \in sched[c].todo \/ sched[c].cur = t => Exists(t)

(* Who publishes or removes a delayed task has seen it past scheduled. *)
PastInv ==
  \A c \in SchedulerID : sched[c].pc \in {"zpublish", "zremove"} =>
    tasks[sched[c].cur].status # "scheduled"

SlotBuries(s, t) == SlotAt(s, "deadpub", t)

SchedBuries(c, t) == SchedAt(c, {"deadpub"}, t)

(* At most one actor is about to send t to the dead stream. *)
OneBurier(t) ==
  /\ \A r, s \in Slot : SlotBuries(r, t) /\ SlotBuries(s, t) => r = s
  /\ \A c, d \in SchedulerID : SchedBuries(c, t) /\ SchedBuries(d, t) => c = d
  /\ \A s \in Slot, c \in SchedulerID : ~(SlotBuries(s, t) /\ SchedBuries(c, t))

DeadInv(t) ==
  /\ deadStream[t] \in {0, 1}
  /\ deadStream[t] = 1 => tasks[t].status = "dead"
  /\ Burying(t) => tasks[t].status = "dead" /\ deadStream[t] = 0
  /\ tasks[t].status = "dead" =>
       deadStream[t] = 1 \/ Burying(t) \/ <<"deadletter", t>> \in interrupted
  /\ OneBurier(t)

ReachInv ==
  /\ ExistInv
  /\ PastInv
  /\ \A t \in Task : /\ PendingInv(t)
                     /\ ScheduledReachable(t)
                     /\ FailedReachable(t)
                     /\ TimedReachable(t)

-----------------------------------------------------------------------------
(* What a statement of the store does to the rows. *)

(* A row comes to have this status. *)
Enters(t, st) == tasks'[t].status = st /\ tasks[t].status # st

(* Rows stay inserted, never come back to scheduled, stay dead, and keep   *)
(* the time a scan needs.                                                  *)
Forward(t) ==
  /\ Exists(t) => Exists(t)'
  /\ Enters(t, "scheduled") => tasks[t].status = "absent"
  /\ tasks[t].status = "dead" => tasks'[t].status = "dead"
  /\ TimedReachable(t) => TimedReachable(t)'

LEMMA UnchangedRow ==
  ASSUME NEW t \in Task, tasks'[t] = tasks[t]
  PROVE  Forward(t) /\ \A st : ~Enters(t, st)
BY DEF Forward, Exists, Enters, TimedReachable

LEMMA CreateRow ==
  ASSUME TypeOK, NEW t \in Task, NEW st \in {"scheduled", "pending"}, NEW m \in Nat,
         Create(t, st, m)
  PROVE  /\ tasks[t].status = "absent" /\ tasks'[t].status = st
         /\ \A u \in Task \ {t} : tasks'[u] = tasks[u]
         /\ \A u \in Task : Forward(u)
<1>1. /\ tasks[t].status = "absent" /\ tasks'[t].status = st
      /\ \A u \in Task \ {t} : tasks'[u] = tasks[u]
  BY DEF TypeOK, StoreTypeOK, Row, Create, Exists, AbsentRow
<1>2. Forward(t)
  BY <1>1 DEF Forward, Exists, Enters, TimedReachable
<1> QED BY <1>1, <1>2, UnchangedRow

LEMMA TransitionRow ==
  ASSUME TypeOK, NEW t \in Task, NEW from, NEW to, NEW w, Transition(t, from, to, w),
         from # "dead", to \notin {"absent", "scheduled", "retrying"}
  PROVE  /\ \A u \in Task \ {t} : tasks'[u] = tasks[u]
         /\ ~Hits(t, from) => tasks' = tasks
         /\ Hits(t, from) => tasks[t].status = from /\ tasks'[t].status = to
         /\ \A u \in Task : Forward(u)
<1>1. CASE Hits(t, from)
  <2>1. tasks' = [tasks EXCEPT ![t] = MovedRow(tasks[t], to, w)]
    BY <1>1 DEF Transition
  <2>2. /\ MovedRow(tasks[t], to, w).status = to
        /\ to = "running" => MovedRow(tasks[t], to, w).started_at = "recent"
    BY DEF MovedRow, TypeOK, StoreTypeOK, Row
  <2> HIDE DEF MovedRow
  <2>3. /\ \A u \in Task \ {t} : tasks'[u] = tasks[u]
        /\ tasks[t].status = from /\ tasks'[t].status = to
        /\ to = "running" => tasks'[t].started_at = "recent"
    BY <1>1, <2>1, <2>2 DEF TypeOK, StoreTypeOK, Hits
  <2>4. Forward(t)
    BY <2>3 DEF Forward, Exists, Enters, TimedReachable
  <2> QED BY <1>1, <2>3, <2>4, UnchangedRow
<1>2. CASE ~Hits(t, from)
  BY <1>2, UnchangedRow DEF Transition
<1> QED BY <1>1, <1>2

LEMMA MarkFailedRow ==
  ASSUME TypeOK, NEW t \in Task, MarkFailed(t)
  PROVE  /\ \A u \in Task \ {t} : tasks'[u] = tasks[u]
         /\ ~Hits(t, "running") => tasks' = tasks
         /\ Hits(t, "running") => tasks[t].status = "running" /\ tasks'[t].status = "failed"
         /\ \A u \in Task : Forward(u)
<1>1. CASE Hits(t, "running")
  <2>1. /\ \A u \in Task \ {t} : tasks'[u] = tasks[u]
        /\ tasks[t].status = "running" /\ tasks'[t].status = "failed"
    BY <1>1 DEF MarkFailed, Hits, TypeOK, StoreTypeOK, Row
  <2>2. Forward(t)
    BY <2>1 DEF Forward, Exists, Enters, TimedReachable
  <2> QED BY <1>1, <2>1, <2>2, UnchangedRow
<1>2. CASE ~Hits(t, "running")
  BY <1>2, UnchangedRow DEF MarkFailed
<1> QED BY <1>1, <1>2

LEMMA CompleteFailureRow ==
  ASSUME TypeOK, NEW t \in Task, NEW d \in FailureDecision, CompleteFailure(t, d),
         tasks[t].status = "failed", FreshDecision(d, tasks[t])
  PROVE  /\ \A u \in Task \ {t} : tasks'[u] = tasks[u]
         /\ Hits(t, "failed") /\ tasks'[t].status = d.status
         /\ d.status \in {"retrying", "dead"}
         /\ \A u \in Task : Forward(u)
<1>0. Hits(t, "failed")
  BY DEF Hits
<1>1. /\ \A u \in Task \ {t} : tasks'[u] = tasks[u]
      /\ tasks'[t].status = d.status /\ tasks'[t].next_retry_at = d.next_retry_at
  BY <1>0 DEF CompleteFailure, TypeOK, StoreTypeOK, Row
<1>2. d.status \in {"retrying", "dead"}
  BY DEF FailureDecision
<1>3. d.status = "retrying" => d.next_retry_at = "future"
  BY DEF FreshDecision, DecideFailure, NonRetryableDecision
<1>4. Forward(t)
  BY <1>1, <1>2, <1>3 DEF Forward, Exists, Enters, TimedReachable
<1> QED BY <1>0, <1>1, <1>2, <1>4, UnchangedRow

LEMMA TaskTimeRow ==
  ASSUME TypeOK, NEW t \in Task, RunExpires(t) \/ RetryComesDue(t)
  PROVE  \A u \in Task : tasks'[u].status = tasks[u].status /\ Forward(u)
<1>1. /\ \A u \in Task \ {t} : tasks'[u] = tasks[u]
      /\ tasks'[t].status = tasks[t].status
      /\ tasks'[t].started_at \in {tasks[t].started_at, "expired"}
      /\ tasks'[t].next_retry_at \in {tasks[t].next_retry_at, "due"}
  BY DEF RunExpires, RetryComesDue, TypeOK, StoreTypeOK, Row
<1>2. Forward(t)
  BY <1>1 DEF Forward, Exists, Enters, TimedReachable
<1> QED BY <1>1, <1>2, UnchangedRow

-----------------------------------------------------------------------------
(* What a step leaves to a task. *)

(* Redis keeps its entries, and who takes one has been at its Ack. *)
EntriesKept ==
  /\ StreamKept /\ Len(stream) <= Len(stream')
  /\ \A e \in Entry : Unacked(e) =>
       Unacked(e)' \/ \E s \in Slot : slot[s].pc = "ack" /\ slot[s].msg = e

(* Nobody begins to close a message of t. *)
ClosersKept(t) ==
  \A s \in Slot : slot'[s].pc \in Closing =>
    \/ slot[s].pc \in Closing /\ slot'[s].msg = slot[s].msg
    \/ TaskOf(s)' # t

PublishersKept(t) ==
  Publishing(t) => Publishing(t)' \/ Fresh(t)' \/ <<"dispatch", t>> \in interrupted'

FinalizersKept(t) ==
  Finalizing(t) /\ tasks'[t].status = "failed" =>
    Finalizing(t)' \/ <<"failure", t>> \in interrupted'

LEMMA FreshKept ==
  ASSUME TypeOK, TypeOK', EntriesKept, NEW t \in Task, ClosersKept(t), Fresh(t)
  PROVE  Fresh(t)'
<1>1. PICK e \in Entry : /\ stream[e] = t /\ Unacked(e)
                         /\ \A s \in Slot : slot[s].msg = e => slot[s].pc \notin Closing
  BY DEF Fresh
<1>2. e \in Entry'
  BY DEF EntriesKept, Entry, TypeOK, QueueTypeOK
<1>3. stream'[e] = t /\ Unacked(e)'
  BY <1>1 DEF EntriesKept, StreamKept, Closing
<1>4. ASSUME NEW s \in Slot, slot'[s].msg = e, slot'[s].pc \in Closing
      PROVE  FALSE
  BY <1>1, <1>3, <1>4 DEF ClosersKept, TaskOf
<1>5. Slot' = Slot
  BY DEF Slot
<1> QED BY <1>2, <1>3, <1>4, <1>5 DEF Fresh

LEMMA Frame ==
  ASSUME TypeOK, TypeOK', ReachInv, EntriesKept, interrupted \subseteq interrupted',
         ExistInv', PastInv',
         \A u \in Task : /\ Forward(u)
                         /\ ScheduledReachable(u)'
                         /\ Enters(u, "pending") => Publishing(u)'
                         /\ PublishersKept(u)
                         /\ tasks'[u].status = "pending" => ClosersKept(u)
                         /\ Enters(u, "failed") => Finalizing(u)'
                         /\ FinalizersKept(u)
  PROVE  ReachInv'
<1> SUFFICES ASSUME NEW t \in Task
             PROVE  PendingInv(t)' /\ FailedReachable(t)' /\ TimedReachable(t)'
  BY DEF ReachInv
<1>1. PendingInv(t)'
  <2> SUFFICES ASSUME tasks'[t].status = "pending"
               PROVE  Fresh(t)' \/ Publishing(t)' \/ <<"dispatch", t>> \in interrupted'
    BY DEF PendingInv
  <2>1. CASE tasks[t].status = "pending"
    BY <2>1, FreshKept DEF ReachInv, PendingInv, PublishersKept
  <2>2. CASE tasks[t].status # "pending"
    BY <2>2 DEF Enters
  <2> QED BY <2>1, <2>2
<1>2. FailedReachable(t)'
  <2> SUFFICES ASSUME tasks'[t].status = "failed"
               PROVE  Finalizing(t)' \/ <<"failure", t>> \in interrupted'
    BY DEF FailedReachable
  <2>1. CASE tasks[t].status = "failed"
    BY <2>1 DEF ReachInv, FailedReachable, FinalizersKept
  <2>2. CASE tasks[t].status # "failed"
    BY <2>2 DEF Enters
  <2> QED BY <2>1, <2>2
<1>3. TimedReachable(t)'
  BY DEF ReachInv, Forward
<1> QED BY <1>1, <1>2, <1>3

(* A goroutine that stays at its call stays at its task. *)
LEMMA SlotAtKept ==
  ASSUME TypeOK, StreamKept, NEW s \in Slot, slot'[s] = slot[s], NEW p, p # "free", NEW t
  PROVE  SlotAt(s, p, t)' <=> SlotAt(s, p, t)
BY TaskOfKept DEF SlotAt

(* A step of others than the schedulers and submissions. *)
LEMMA DispatchSideKept ==
  ASSUME TypeOK, ReachInv, UNCHANGED <<sched, req, zset>>,
         interrupted \subseteq interrupted',
         \A u \in Task : Forward(u) /\ ~Enters(u, "scheduled")
  PROVE  /\ ExistInv' /\ PastInv'
         /\ \A u \in Task : ScheduledReachable(u)' /\ PublishersKept(u)
<1>1. ExistInv'
  BY DEF ReachInv, ExistInv, Forward
<1>2. PastInv'
  <2> SUFFICES ASSUME NEW c \in SchedulerID, sched[c].pc \in {"zpublish", "zremove"}
               PROVE  tasks'[sched[c].cur].status # "scheduled"
    BY DEF PastInv
  <2>1. sched[c].cur \in Task
    BY DEF TypeOK, SchedTypeOK
  <2> QED BY <2>1 DEF ReachInv, PastInv, Enters
<1>3. \A u \in Task : ScheduledReachable(u)'
  BY DEF ReachInv, ScheduledReachable, Enters
<1>4. \A u \in Task : PublishersKept(u)
  BY DEF PublishersKept, Publishing, SchedAt
<1> QED BY <1>1, <1>2, <1>3, <1>4

(* A step that leaves the goroutines where they are. *)
LEMMA SlotSideKept ==
  ASSUME TypeOK, EntriesKept, UNCHANGED slot
  PROVE  \A u \in Task : /\ ClosersKept(u)
                         /\ \A s \in Slot : SlotAt(s, "complete", u) =>
                                              SlotAt(s, "complete", u)'
BY SlotAtKept DEF EntriesKept, ClosersKept

-----------------------------------------------------------------------------
(* The commands of Redis keep the entries. *)

LEMMA SameEntries ==
  ASSUME TypeOK, UNCHANGED <<stream, delivered, pel>>
  PROVE  EntriesKept
BY DEF EntriesKept, StreamKept, Unacked, Entry, TypeOK, QueueTypeOK

LEMMA PublishKeeps ==
  ASSUME TypeOK, TypeOK', NEW t \in Task, PublishTask(t)
  PROVE  EntriesKept /\ (UNCHANGED slot => Fresh(t)')
<1>0. Len(stream) \in Nat /\ delivered \in 0..Len(stream)
  BY DEF TypeOK, QueueTypeOK
<1>1. /\ Len(stream') = Len(stream) + 1 /\ stream'[Len(stream) + 1] = t
      /\ UNCHANGED <<delivered, pel>>
  BY DEF PublishTask, TypeOK, QueueTypeOK
<1>2. StreamKept
  BY PublishKeepsStream
<1>3. EntriesKept
  BY <1>0, <1>1, <1>2 DEF EntriesKept, Unacked, Entry
<1>4. ASSUME UNCHANGED slot PROVE Fresh(t)'
  <2>0. PICK e \in Nat : e = Len(stream) + 1
    BY <1>0
  <2>1. e \in Entry' /\ stream'[e] = t /\ Unacked(e)'
    BY <1>0, <1>1, <2>0 DEF Entry, Unacked
  <2>2. ASSUME NEW s \in Slot, slot'[s].msg = e PROVE slot'[s].pc \notin Closing
    <3>1. slot[s].pc # "free" => slot[s].msg \in 1..Len(stream)
      BY DEF TypeOK, WorkerTypeOK, SlotTypeOK, Entry
    <3>2. slot[s].pc = "free"
      BY <1>0, <1>4, <2>0, <2>2, <3>1
    <3> QED BY <1>4, <3>2 DEF Closing
  <2>3. Slot' = Slot
    BY DEF Slot
  <2> QED BY <2>1, <2>2, <2>3 DEF Fresh
<1> QED BY <1>3, <1>4

LEMMA ReadKeeps ==
  ASSUME TypeOK, XReadGroup(BatchSize), delivered < Len(stream)
  PROVE  EntriesKept
<1>0. delivered \in Nat /\ Len(stream) \in Nat /\ pel \subseteq 1..delivered
  BY DEF TypeOK, QueueTypeOK
<1>1. /\ UNCHANGED stream
      /\ delivered' = ReadUpTo(BatchSize)
      /\ pel' = pel \cup ((delivered + 1)..delivered')
  BY DEF XReadGroup
<1>2. delivered' \in Nat
  BY <1>0, <1>1, WorkerAssumption DEF ReadUpTo
<1>3. ASSUME NEW e \in Entry, Unacked(e) PROVE Unacked(e)'
  BY <1>0, <1>1, <1>2, <1>3 DEF Unacked, Entry
<1> QED BY <1>0, <1>1, <1>3 DEF EntriesKept, StreamKept

LEMMA AckKeeps ==
  ASSUME TypeOK, NEW s \in Slot, slot[s].pc = "ack", Ack(slot[s].msg)
  PROVE  EntriesKept
BY DEF Ack, EntriesKept, StreamKept, Unacked, Entry, TypeOK, QueueTypeOK

-----------------------------------------------------------------------------
(* The steps of a goroutine. *)

LEMMA GotoEffect ==
  ASSUME TypeOK, NEW s \in Slot, NEW pc, Goto(s, pc)
  PROVE  /\ \A r \in Slot \ {s} : slot'[r] = slot[r]
         /\ slot'[s].pc = pc
         /\ pc # "free" => slot'[s].msg = slot[s].msg
<1>1. CASE pc = "free"
  BY <1>1 DEF Goto, FreeSlot, TypeOK, WorkerTypeOK, SlotTypeOK
<1>2. CASE pc # "free"
  <2>1. slot' = [slot EXCEPT ![s] = [FreeSlot EXCEPT !.pc = pc, !.msg = slot[s].msg]]
    BY <1>2 DEF Goto
  <2> QED BY <1>2, <2>1 DEF FreeSlot, TypeOK, WorkerTypeOK, SlotTypeOK
<1> QED BY <1>1, <1>2

(* A goroutine goes on: if towards its Ack, then for a reason. *)
LEMMA SlotMoves ==
  ASSUME TypeOK, TypeOK', ReachInv, EntriesKept, UNCHANGED <<sched, req, zset>>,
         interrupted \subseteq interrupted',
         NEW s \in Slot, NEW pc, pc # "complete", Goto(s, pc), slot[s].pc # "free",
         \A u \in Task : /\ Forward(u)
                         /\ \A st \in {"scheduled", "pending", "failed"} : ~Enters(u, st),
         pc \in Closing => slot[s].pc \in Closing \/ tasks'[TaskOf(s)].status # "pending",
         slot[s].pc = "complete" => \/ tasks'[TaskOf(s)].status # "failed"
                                    \/ <<"failure", TaskOf(s)>> \in interrupted'
  PROVE  ReachInv'
<1>1. /\ \A r \in Slot \ {s} : slot'[r] = slot[r]
      /\ slot'[s].pc = pc
      /\ pc # "free" => slot'[s].msg = slot[s].msg
  BY GotoEffect
<1>2. StreamKept
  BY DEF EntriesKept
<1>3. pc # "free" => TaskOf(s)' = TaskOf(s)
  BY <1>1, <1>2, TaskOfKept
<1>4. ASSUME NEW u \in Task, tasks'[u].status = "pending" PROVE ClosersKept(u)
  BY <1>1, <1>3, <1>4 DEF ClosersKept, Closing
<1>5. ASSUME NEW u \in Task PROVE FinalizersKept(u)
  <2> SUFFICES ASSUME Finalizing(u), tasks'[u].status = "failed"
               PROVE  Finalizing(u)' \/ <<"failure", u>> \in interrupted'
    BY DEF FinalizersKept
  <2>1. ASSUME NEW r \in Slot, SlotAt(r, "complete", u)
        PROVE  SlotAt(r, "complete", u)' \/ <<"failure", u>> \in interrupted'
    BY <1>1, <1>2, <2>1, SlotAtKept DEF SlotAt
  <2>2. Slot' = Slot
    BY DEF Slot
  <2> QED BY <2>1, <2>2 DEF Finalizing, SchedAt
<1>6. /\ ExistInv' /\ PastInv'
      /\ \A u \in Task : ScheduledReachable(u)' /\ PublishersKept(u)
  BY DispatchSideKept
<1> QED BY <1>4, <1>5, <1>6, Frame

(* A goroutine marks its task failed, and has it from then on. *)
LEMMA FailTaskReach ==
  ASSUME TypeOK, TypeOK', ReachInv, UNCHANGED <<sched, req, interrupted>>,
         NEW s \in Slot, NEW nr \in BOOLEAN, FailTask(s, nr)
  PROVE  ReachInv'
<1>0. TaskOf(s) \in Task /\ slot[s].pc = "exec"
  BY TaskOfType DEF FailTask, TypeOK, WorkerTypeOK
<1>1. EntriesKept /\ UNCHANGED zset
  BY SameEntries DEF FailTask, redisVars
<1>2. PICK t \in Task : t = TaskOf(s)
  BY <1>0
<1>3. MarkFailed(t)
  BY <1>2 DEF FailTask
<1>4. \A r \in Slot \ {s} : slot'[r] = slot[r]
  BY DEF FailTask, TypeOK, WorkerTypeOK, SlotTypeOK
<1>5. CASE Hits(t, "running")
  <2>1. slot'[s].pc = "complete" /\ slot'[s].msg = slot[s].msg
    BY <1>2, <1>5 DEF FailTask, FreeSlot, TypeOK, WorkerTypeOK, SlotTypeOK
  <2>2. TaskOf(s)' = t
    BY <1>0, <1>1, <1>2, <2>1, TaskOfKept DEF EntriesKept
  <2>3. /\ \A u \in Task \ {t} : tasks'[u] = tasks[u]
        /\ tasks'[t].status = "failed"
        /\ \A u \in Task : Forward(u)
    BY <1>3, <1>5, MarkFailedRow
  <2>4. \A u \in Task : ~Enters(u, "scheduled") /\ ~Enters(u, "pending")
    BY <2>3 DEF Enters
  <2>5. ASSUME NEW u \in Task, tasks'[u].status = "pending" PROVE ClosersKept(u)
    BY <1>4, <2>2, <2>3, <2>5 DEF ClosersKept
  <2>6. Slot' = Slot
    BY DEF Slot
  <2>7. ASSUME NEW u \in Task
        PROVE  /\ Enters(u, "failed") => Finalizing(u)'
               /\ FinalizersKept(u)
    <3>1. SlotAt(s, "complete", t)'
      BY <2>1, <2>2 DEF SlotAt
    <3>2. Finalizing(t)'
      BY <2>6, <3>1 DEF Finalizing
    <3>3. CASE u = t
      BY <3>2, <3>3 DEF FinalizersKept
    <3>4. CASE u # t
      <4>1. ASSUME NEW r \in Slot, SlotAt(r, "complete", u)
            PROVE  SlotAt(r, "complete", u)'
        <5>1. slot'[r] = slot[r]
          BY <1>0, <1>4, <4>1 DEF SlotAt
        <5>2. StreamKept
          BY <1>1 DEF EntriesKept
        <5> QED BY <4>1, <5>1, <5>2, SlotAtKept
      <4>2. Finalizing(u) => Finalizing(u)'
        BY <2>6, <4>1 DEF Finalizing, SchedAt
      <4> QED BY <2>3, <3>4, <4>2 DEF FinalizersKept, Enters
    <3> QED BY <3>3, <3>4
  <2>8. /\ ExistInv' /\ PastInv'
        /\ \A u \in Task : ScheduledReachable(u)' /\ PublishersKept(u)
    BY <1>1, <2>3, <2>4, DispatchSideKept
  <2> QED BY <1>1, <2>3, <2>4, <2>5, <2>7, <2>8, Frame
<1>6. CASE ~Hits(t, "running")
  <2>1. Goto(s, "free")
    BY <1>2, <1>6 DEF FailTask, Goto
  <2>2. UNCHANGED tasks
    BY <1>3, <1>6, MarkFailedRow
  <2> QED BY <1>0, <1>1, <2>1, <2>2, SlotMoves, UnchangedRow DEF Closing
<1> QED BY <1>5, <1>6

LEMMA HandleReach ==
  ASSUME TypeOK, TypeOK', FailureHeldOnce, ReachInv, UNCHANGED <<sched, req, interrupted>>,
         NEW s \in Slot, HandleMessage(s)
  PROVE  ReachInv'
<1> USE DEF Closing
<1>0. slot[s].pc # "free" => TaskOf(s) \in Task
  BY TaskOfType DEF TypeOK, WorkerTypeOK
<1>1. CASE GetTask(s)
  <2>1. slot[s].pc = "get" /\ UNCHANGED <<tasks, redisVars>>
    BY <1>1 DEF GetTask
  <2>2. PICK pc : /\ Goto(s, pc) /\ pc \notin {"complete", "deadpub"}
                  /\ pc = "ack" => IsTerminal(tasks[TaskOf(s)].status)
    BY <1>1 DEF GetTask
  <2>3. EntriesKept
    BY <2>1, SameEntries DEF redisVars
  <2> QED BY <2>1, <2>2, <2>3, SlotMoves, UnchangedRow DEF redisVars, IsTerminal
<1>2. CASE ClaimTask(s)
  <2>1. slot[s].pc = "claim" /\ Transition(TaskOf(s), "pending", "running", s[1])
        /\ EntriesKept /\ UNCHANGED zset
    BY <1>2, SameEntries DEF ClaimTask, redisVars
  <2>2. PICK pc \in {"exec", "free"} : Goto(s, pc)
    BY <1>2 DEF ClaimTask
  <2>3. \A u \in Task : /\ Forward(u)
                        /\ \A st \in {"scheduled", "pending", "failed"} : ~Enters(u, st)
    BY <1>0, <2>1, TransitionRow DEF Enters
  <2> QED BY <2>1, <2>2, <2>3, SlotMoves
<1>3. CASE SucceedTask(s)
  <2>1. slot[s].pc = "exec" /\ Transition(TaskOf(s), "running", "success", s[1])
        /\ EntriesKept /\ UNCHANGED zset
    BY <1>3, SameEntries DEF SucceedTask, redisVars
  <2>2. PICK pc \in {"ack", "free"} : Goto(s, pc) /\ (pc = "ack" => Hits(TaskOf(s), "running"))
    BY <1>3 DEF SucceedTask
  <2>3. /\ \A u \in Task : /\ Forward(u)
                           /\ \A st \in {"scheduled", "pending", "failed"} : ~Enters(u, st)
        /\ pc = "ack" => tasks'[TaskOf(s)].status = "success"
    BY <1>0, <2>1, <2>2, TransitionRow DEF Enters
  <2> QED BY <2>1, <2>2, <2>3, SlotMoves
<1>4. ASSUME NEW nr \in BOOLEAN, FailTask(s, nr) PROVE ReachInv'
  BY <1>4, FailTaskReach
<1>5. CASE FinishFailure(s)
  <2>1. slot[s].pc = "complete" /\ CompleteFailure(TaskOf(s), slot[s].decision)
        /\ EntriesKept /\ UNCHANGED zset
    BY <1>5, SameEntries DEF FinishFailure, redisVars
  <2>2. PICK pc \in {"ack", "deadpub", "free"} : Goto(s, pc)
    BY <1>5 DEF FinishFailure
  <2>3. /\ slot[s].decision \in FailureDecision
        /\ tasks[TaskOf(s)].status = "failed"
        /\ FreshDecision(slot[s].decision, tasks[TaskOf(s)])
    BY <2>1 DEF TypeOK, WorkerTypeOK, SlotTypeOK, FailureHeldOnce, SlotFailureHeld
  <2>4. /\ \A u \in Task \ {TaskOf(s)} : tasks'[u] = tasks[u]
        /\ tasks'[TaskOf(s)].status \in {"retrying", "dead"}
        /\ \A u \in Task : Forward(u)
    BY <1>0, <2>1, <2>3, CompleteFailureRow
  <2>5. \A u \in Task, st \in {"scheduled", "pending", "failed"} : ~Enters(u, st)
    BY <2>4 DEF Enters
  <2> QED BY <2>1, <2>2, <2>4, <2>5, SlotMoves
<1>6. CASE SendDead(s)
  <2>1. /\ slot[s].pc = "deadpub" /\ Goto(s, "ack")
        /\ UNCHANGED <<tasks, zset>> /\ EntriesKept
    BY <1>6, SameEntries DEF SendDead, PublishDead
  <2> QED BY <2>1, SlotMoves, UnchangedRow
<1>7. CASE AckMessage(s)
  <2>1. /\ slot[s].pc = "ack" /\ Goto(s, "free")
        /\ UNCHANGED <<tasks, zset>> /\ EntriesKept
    BY <1>7, AckKeeps DEF AckMessage, Ack
  <2> QED BY <2>1, SlotMoves, UnchangedRow
<1> QED BY <1>1, <1>2, <1>3, <1>4, <1>5, <1>6, <1>7 DEF HandleMessage

-----------------------------------------------------------------------------
(* The consumer loop, the faults of a worker, and time. *)

(* Goroutines start or die; nothing else happens to a task. *)
LEMMA QuietReach ==
  ASSUME TypeOK, TypeOK', ReachInv, EntriesKept, UNCHANGED <<sched, req, zset>>,
         interrupted \subseteq interrupted',
         \A u \in Task : /\ Forward(u)
                         /\ \A st \in {"scheduled", "pending", "failed"} : ~Enters(u, st),
         \A r \in Slot : \/ slot'[r] = slot[r]
                         \/ /\ slot'[r].pc \notin Closing
                            /\ slot[r].pc = "complete" =>
                                 <<"failure", TaskOf(r)>> \in interrupted'
  PROVE  ReachInv'
<1>1. \A u \in Task : ClosersKept(u)
  BY DEF ClosersKept
<1>2. ASSUME NEW u \in Task PROVE FinalizersKept(u)
  <2>1. ASSUME NEW r \in Slot, SlotAt(r, "complete", u)
        PROVE  SlotAt(r, "complete", u)' \/ <<"failure", u>> \in interrupted'
    <3>1. CASE slot'[r] = slot[r]
      BY <2>1, <3>1, SlotAtKept DEF EntriesKept
    <3>2. CASE slot'[r] # slot[r]
      BY <2>1, <3>2 DEF SlotAt
    <3> QED BY <3>1, <3>2
  <2>2. Slot' = Slot
    BY DEF Slot
  <2> QED BY <2>1, <2>2 DEF FinalizersKept, Finalizing, SchedAt
<1>3. /\ ExistInv' /\ PastInv'
      /\ \A u \in Task : ScheduledReachable(u)' /\ PublishersKept(u)
  BY DispatchSideKept
<1> QED BY <1>1, <1>2, <1>3, Frame

LEMMA LoopReach ==
  ASSUME TypeOK, TypeOK', ReachInv, UNCHANGED <<sched, req, interrupted>>,
         NEW w \in WorkerID,
         \/ InspectPending(w) \/ ClaimPending(w) \/ ReadBatch(w)
         \/ ReadNothing(w) \/ SpawnHandle(w) \/ RecoveryTickElapses(w)
  PROVE  ReachInv'
<1>1. UNCHANGED <<tasks, zset>>
  BY DEF InspectPending, ClaimPending, ReadBatch, ReadNothing, SpawnHandle,
         RecoveryTickElapses, XClaim, XReadGroup, redisVars
<1>2. EntriesKept
  <2>1. CASE ReadBatch(w)
    BY <2>1, ReadKeeps DEF ReadBatch
  <2>2. CASE ~ReadBatch(w)
    BY <2>2, SameEntries DEF InspectPending, ClaimPending, ReadNothing, SpawnHandle,
                             RecoveryTickElapses, XClaim, redisVars
  <2> QED BY <2>1, <2>2
<1>3. ASSUME NEW r \in Slot
      PROVE  slot'[r] = slot[r] \/ (slot'[r].pc \notin Closing /\ slot[r].pc = "free")
  <2>1. CASE SpawnHandle(w)
    <3>1. PICK i \in 1..Concurrency, e \in loop[w].ids :
             /\ slot[<<w, i>>].pc = "free"
             /\ slot' = [slot EXCEPT ![<<w, i>>] =
                           [FreeSlot EXCEPT !.pc = "get", !.msg = e,
                              !.recovered = (loop[w].phase = "spawnRecovered")]]
      BY <2>1 DEF SpawnHandle
    <3> QED BY <3>1 DEF FreeSlot, Closing, TypeOK, WorkerTypeOK, SlotTypeOK
  <2>2. CASE ~SpawnHandle(w)
    BY <2>2 DEF InspectPending, ClaimPending, ReadBatch, ReadNothing, RecoveryTickElapses
  <2> QED BY <2>1, <2>2
<1> QED BY <1>1, <1>2, <1>3, QuietReach, UnchangedRow

LEMMA WorkerFaultReach ==
  ASSUME TypeOK, TypeOK', ReachInv, WorkerFault
  PROVE  ReachInv'
<1>0. UNCHANGED <<tasks, zset, sched, req>> /\ interrupted \subseteq interrupted'
  BY DEF WorkerFault, HandleError, DeadPublishError, LoopError, ClaimReplyLost,
         ReadReplyLost, WorkerCrash, XClaim, XReadGroup, redisVars, Cut
<1>1. ASSUME NEW s \in Slot, HandleError(s) \/ DeadPublishError(s), Cut(SlotCut(s))
      PROVE  ReachInv'
  <2>1. PICK pc \in {"free", "ack"} : Goto(s, pc) /\ (pc = "ack" => slot[s].pc = "deadpub")
    BY <1>1 DEF HandleError, DeadPublishError
  <2>2. slot[s].pc # "free" /\ EntriesKept
    BY <1>1, SameEntries DEF HandleError, DeadPublishError, redisVars
  <2>3. slot[s].pc = "complete" => <<"failure", TaskOf(s)>> \in interrupted'
    BY <1>1 DEF Cut, SlotCut
  <2> QED BY <1>0, <2>1, <2>2, <2>3, SlotMoves, UnchangedRow DEF Closing
<1>2. ASSUME NEW w \in WorkerID, LoopError(w) \/ ClaimReplyLost(w) \/ ReadReplyLost(w)
      PROVE  ReachInv'
  <2>1. UNCHANGED slot /\ EntriesKept
    BY <1>2, SameEntries, ReadKeeps DEF LoopError, ClaimReplyLost, ReadReplyLost, XClaim,
                                        redisVars
  <2> QED BY <1>0, <2>1, QuietReach, UnchangedRow
<1>3. ASSUME NEW w \in WorkerID, WorkerCrash(w), Cut(UNION {SlotCut(s) : s \in SlotsOf(w)})
      PROVE  ReachInv'
  <2>1. EntriesKept
    BY <1>3, SameEntries DEF WorkerCrash, redisVars
  <2>2. ASSUME NEW r \in Slot
        PROVE  \/ slot'[r] = slot[r]
               \/ /\ slot'[r].pc \notin Closing
                  /\ slot[r].pc = "complete" => <<"failure", TaskOf(r)>> \in interrupted'
    <3>1. CASE r[1] = w
      <4>1. slot'[r].pc = "free"
        BY <1>3, <3>1 DEF WorkerCrash, FreeSlot
      <4>2. slot[r].pc = "complete" => <<"failure", TaskOf(r)>> \in SlotCut(r)
        BY DEF SlotCut
      <4>3. SlotCut(r) \subseteq interrupted'
        BY <1>3, <3>1 DEF Cut, SlotsOf
      <4> QED BY <4>1, <4>2, <4>3 DEF Closing
    <3>2. CASE r[1] # w
      BY <1>3, <3>2 DEF WorkerCrash
    <3> QED BY <3>1, <3>2
  <2> QED BY <1>0, <2>1, <2>2, QuietReach, UnchangedRow
<1> QED BY <1>1, <1>2, <1>3 DEF WorkerFault

LEMMA TimeReach ==
  ASSUME TypeOK, TypeOK', ReachInv, UNCHANGED interrupted,
         \/ \E t \in Task : TaskTime(t) \/ DelayTime(t)
         \/ \E e \in pel : EntryTime(e)
  PROVE  ReachInv'
<1>1. UNCHANGED <<stream, delivered, pel, zset, slot, sched, req>>
  BY DEF TaskTime, DelayTime, EntryTime, DelayPasses, EntryGoesIdle, redisVars, workerVars
<1>2. \A u \in Task : /\ Forward(u)
                      /\ \A st \in {"scheduled", "pending", "failed"} : ~Enters(u, st)
  <2>1. ASSUME NEW t \in Task, TaskTime(t)
        PROVE  \A u \in Task : Forward(u) /\ tasks'[u].status = tasks[u].status
    BY <2>1, TaskTimeRow DEF TaskTime
  <2>2. ASSUME ~\E t \in Task : TaskTime(t) PROVE UNCHANGED tasks
    BY <2>2 DEF DelayTime, EntryTime
  <2> QED BY <2>1, <2>2, UnchangedRow DEF Enters
<1> QED BY <1>1, <1>2, SameEntries, QuietReach

-----------------------------------------------------------------------------
(* The steps of a scheduler. *)

(* How each of them moves it on. *)
LEMMA NextItemEffect ==
  ASSUME TypeOK, NEW c \in SchedulerID, NextItem(c)
  PROVE  /\ sched'[c].pc \in {"recover", "zset", "retry"}
         /\ sched'[c].todo = sched[c].todo /\ sched'[c].cur = NoTask
         /\ \A d \in SchedulerID \ {c} : sched'[d] = sched[d]
BY DEF NextItem, ScanOf, TypeOK, SchedTypeOK, SchedIdle

LEMMA SkipEffect ==
  ASSUME TypeOK, NEW c \in SchedulerID, NEW t, Skip(c, t)
  PROVE  /\ sched'[c].pc = sched[c].pc /\ sched'[c].cur = sched[c].cur
         /\ sched'[c].todo = sched[c].todo \ {t}
         /\ \A d \in SchedulerID \ {c} : sched'[d] = sched[d]
BY DEF Skip, TypeOK, SchedTypeOK

LEMMA PickEffect ==
  ASSUME TypeOK, NEW c \in SchedulerID, NEW t, NEW pc, Pick(c, t, pc)
  PROVE  /\ sched'[c].pc = pc /\ sched'[c].cur = t
         /\ sched'[c].todo = sched[c].todo \ {t}
         /\ \A d \in SchedulerID \ {c} : sched'[d] = sched[d]
BY DEF Pick, TypeOK, SchedTypeOK, SchedIdle

LEMMA ProceedEffect ==
  ASSUME TypeOK, NEW c \in SchedulerID, NEW pc, Proceed(c, pc)
  PROVE  /\ sched'[c].pc = pc /\ sched'[c].cur = sched[c].cur
         /\ sched'[c].todo = sched[c].todo
         /\ \A d \in SchedulerID \ {c} : sched'[d] = sched[d]
BY DEF Proceed, TypeOK, SchedTypeOK

LEMMA StartScanEffect ==
  ASSUME TypeOK, NEW c \in SchedulerID, NEW pc, NEW S, StartScan(c, pc, S)
  PROVE  /\ sched'[c].pc = pc /\ sched'[c].cur = NoTask /\ sched'[c].todo = S
         /\ \A d \in SchedulerID \ {c} : sched'[d] = sched[d]
BY DEF StartScan, TypeOK, SchedTypeOK, SchedIdle

PublishCalls == {"zpublish", "rpublish"}

LEMMA SchedMoves ==
  ASSUME TypeOK, TypeOK', ReachInv, EntriesKept, UNCHANGED <<slot, req>>,
         interrupted \subseteq interrupted',
         NEW c \in SchedulerID,
         \A d \in SchedulerID \ {c} : sched'[d] = sched[d],
         sched'[c].pc \in {"zpublish", "zremove"} =>
           tasks'[sched'[c].cur].status # "scheduled",
         \A u \in Task :
           /\ Forward(u) /\ ~Enters(u, "scheduled")
           /\ u \in sched'[c].todo \/ sched'[c].cur = u => Exists(u)
           /\ u \in zset' => u \in zset
           /\ u \in zset => u \in zset' \/ tasks'[u].status # "scheduled"
           /\ Enters(u, "pending") => SchedAt(c, PublishCalls, u)'
           /\ SchedAt(c, PublishCalls, u) =>
                \/ SchedAt(c, PublishCalls, u)' \/ Fresh(u)'
                \/ <<"dispatch", u>> \in interrupted'
           /\ Enters(u, "failed") => SchedAt(c, {"complete"}, u)'
           /\ SchedAt(c, {"complete"}, u) =>
                \/ tasks'[u].status # "failed" \/ <<"failure", u>> \in interrupted'
  PROVE  ReachInv'
<1>1. ExistInv'
  BY DEF ReachInv, ExistInv, Forward
<1>2. PastInv'
  <2> SUFFICES ASSUME NEW d \in SchedulerID, sched'[d].pc \in {"zpublish", "zremove"}
               PROVE  tasks'[sched'[d].cur].status # "scheduled"
    BY DEF PastInv
  <2>1. CASE d = c
    BY <2>1
  <2>2. CASE d # c
    <3>1. sched'[d] = sched[d] /\ sched[d].cur \in Task
      BY <2>2 DEF TypeOK, SchedTypeOK
    <3> QED BY <3>1 DEF ReachInv, PastInv, Enters
  <2> QED BY <2>1, <2>2
<1>3. ASSUME NEW u \in Task PROVE ScheduledReachable(u)'
  BY DEF ReachInv, ScheduledReachable, Enters
<1>4. ASSUME NEW u \in Task
      PROVE  (Enters(u, "pending") => Publishing(u)') /\ PublishersKept(u)
  BY DEF PublishersKept, Publishing, SchedAt, PublishCalls
<1>5. ASSUME NEW u \in Task
      PROVE  /\ ClosersKept(u)
             /\ Enters(u, "failed") => Finalizing(u)'
             /\ FinalizersKept(u)
  <2>1. /\ ClosersKept(u)
        /\ \A s \in Slot : SlotAt(s, "complete", u) => SlotAt(s, "complete", u)'
    BY SlotSideKept
  <2>2. \A d \in SchedulerID \ {c} : SchedAt(d, {"complete"}, u) =>
                                       SchedAt(d, {"complete"}, u)'
    BY DEF SchedAt
  <2>3. Slot' = Slot
    BY DEF Slot
  <2> QED BY <2>1, <2>2, <2>3 DEF FinalizersKept, Finalizing
<1> QED BY <1>1, <1>2, <1>3, <1>4, <1>5, Frame

(* Between two tasks, or on to a call that is neither of a publisher nor   *)
(* the second update: what is at hand has been inserted.                   *)
LEMMA SchedPlain ==
  ASSUME TypeOK, TypeOK', ReachInv, UNCHANGED <<tasks, stream, delivered, pel, zset>>,
         UNCHANGED <<slot, req>>, interrupted \subseteq interrupted',
         NEW c \in SchedulerID,
         \A d \in SchedulerID \ {c} : sched'[d] = sched[d],
         sched'[c].pc \in {"zpublish", "zremove"} =>
           tasks[sched'[c].cur].status # "scheduled",
         \A u \in Task :
           /\ u \in sched'[c].todo \/ sched'[c].cur = u => Exists(u)
           /\ SchedAt(c, PublishCalls, u) => <<"dispatch", u>> \in interrupted'
           /\ SchedAt(c, {"complete"}, u) => <<"failure", u>> \in interrupted'
  PROVE  ReachInv'
<1>1. EntriesKept
  BY SameEntries
<1>2. \A u \in Task : Forward(u) /\ \A st : ~Enters(u, st)
  BY UnchangedRow
<1> QED BY <1>1, <1>2, SchedMoves

LEMMA ScanReach ==
  ASSUME TypeOK, TypeOK', ReachInv, UNCHANGED <<slot, req, interrupted>>,
         NEW c \in SchedulerID,
         ScanExpiredRunning(c) \/ ScanDueTaskIDs(c) \/ ScanDueRetrying(c)
  PROVE  ReachInv'
<1>1. UNCHANGED <<tasks, redisVars>> /\ sched[c].pc \in {"retry", "recover", "zset"}
  BY DEF ScanExpiredRunning, ScanDueTaskIDs, ScanDueRetrying, ScanDone
<1>2. PICK S \in SUBSET Task, pc \in {"retry", "recover", "zset"} :
        /\ StartScan(c, pc, S)
        /\ S \subseteq ExpiredRunning \/ S \subseteq zdue \/ S \subseteq DueRetrying
  <2>1. ExpiredRunning \subseteq Task /\ zdue \subseteq Task /\ DueRetrying \subseteq Task
    BY DEF ExpiredRunning, DueRetrying, TypeOK, QueueTypeOK
  <2> QED BY <2>1 DEF ScanExpiredRunning, ScanDueTaskIDs, ScanDueRetrying, AtMost
<1>3. /\ sched'[c].pc = pc /\ sched'[c].cur = NoTask /\ sched'[c].todo = S
      /\ \A d \in SchedulerID \ {c} : sched'[d] = sched[d]
  BY <1>2, StartScanEffect
<1>4. \A u \in Task : u \in S => Exists(u)
  BY <1>2 DEF ExpiredRunning, DueRetrying, Exists, ReachInv, ExistInv, TypeOK, QueueTypeOK
<1> QED BY <1>1, <1>3, <1>4, SchedPlain, SchedulerAssumption DEF redisVars, SchedAt,
                                                                 PublishCalls

LEMMA RecoverReach ==
  ASSUME TypeOK, TypeOK', FailureHeldOnce, ReachInv, UNCHANGED <<slot, req, interrupted>>,
         NEW c \in SchedulerID,
         \/ \E t \in Task : RecoverMarkFailed(c, t)
         \/ RecoverCompleteFailure(c) \/ RecoverPublishDead(c)
  PROVE  ReachInv'
<1> USE DEF PublishCalls
<1>1. ASSUME NEW t \in Task, RecoverMarkFailed(c, t) PROVE ReachInv'
  <2>1. /\ sched[c].pc = "recover" /\ t \in sched[c].todo
        /\ EntriesKept /\ UNCHANGED zset /\ MarkFailed(t)
    BY <1>1, SameEntries DEF RecoverMarkFailed, redisVars
  <2>2. CASE Hits(t, "running")
    <3>1. /\ sched'[c].pc = "complete" /\ sched'[c].cur = t
          /\ sched'[c].todo = sched[c].todo \ {t}
          /\ \A d \in SchedulerID \ {c} : sched'[d] = sched[d]
      BY <1>1, <2>2 DEF RecoverMarkFailed, TypeOK, SchedTypeOK
    <3>2. \A u \in Task : /\ Forward(u) /\ ~Enters(u, "scheduled") /\ ~Enters(u, "pending")
                          /\ Enters(u, "failed") => u = t
      BY <2>1, <2>2, MarkFailedRow DEF Enters
    <3> QED BY <2>1, <3>1, <3>2, SchedMoves DEF SchedAt, ReachInv, ExistInv
  <2>3. CASE ~Hits(t, "running")
    <3>1. /\ sched'[c].pc = "recover" /\ sched'[c].cur = sched[c].cur
          /\ sched'[c].todo = sched[c].todo \ {t}
          /\ \A d \in SchedulerID \ {c} : sched'[d] = sched[d]
      BY <1>1, <2>1, <2>3, SkipEffect DEF RecoverMarkFailed
    <3>2. UNCHANGED <<tasks, stream, delivered, pel, zset>>
      BY <1>1, <2>1, <2>3, MarkFailedRow DEF RecoverMarkFailed, redisVars
    <3> QED BY <2>1, <3>1, <3>2, SchedPlain DEF SchedAt, ReachInv, ExistInv
  <2> QED BY <2>2, <2>3
<1>2. CASE RecoverCompleteFailure(c)
  <2>1. /\ sched[c].pc = "complete" /\ sched[c].cur \in Task
        /\ EntriesKept /\ UNCHANGED zset
        /\ CompleteFailure(sched[c].cur, sched[c].decision)
    BY <1>2, SameEntries DEF RecoverCompleteFailure, redisVars, TypeOK, SchedTypeOK
  <2>2. PICK t \in Task : t = sched[c].cur
    BY <2>1
  <2>3. /\ sched[c].decision \in FailureDecision
        /\ tasks[t].status = "failed" /\ FreshDecision(sched[c].decision, tasks[t])
    BY <2>1, <2>2 DEF TypeOK, SchedTypeOK, FailureHeldOnce, SchedFailureHeld
  <2>4. /\ \A u \in Task \ {t} : tasks'[u] = tasks[u]
        /\ tasks'[t].status \in {"retrying", "dead"}
        /\ \A u \in Task : Forward(u)
    BY <2>1, <2>2, <2>3, CompleteFailureRow
  <2>5. /\ sched'[c].pc \in {"deadpub", "recover", "zset", "retry"}
        /\ sched'[c].todo = sched[c].todo
        /\ sched'[c].cur \in {t, NoTask}
        /\ \A d \in SchedulerID \ {c} : sched'[d] = sched[d]
    <3>1. CASE NextItem(c)
      BY <3>1, NextItemEffect
    <3>2. CASE sched' = [sched EXCEPT ![c].pc = "deadpub", ![c].decision = NoDecision]
      BY <2>2, <3>2 DEF TypeOK, SchedTypeOK
    <3> QED BY <1>2, <3>1, <3>2 DEF RecoverCompleteFailure
  <2>6. \A u \in Task, st \in {"scheduled", "pending", "failed"} : ~Enters(u, st)
    BY <2>4 DEF Enters
  <2> QED BY <2>1, <2>2, <2>4, <2>5, <2>6, SchedMoves, SchedulerAssumption
          DEF SchedAt, ReachInv, ExistInv
<1>3. CASE RecoverPublishDead(c)
  <2>1. /\ sched[c].pc = "deadpub" /\ NextItem(c)
        /\ UNCHANGED <<tasks, stream, delivered, pel, zset>>
    BY <1>3 DEF RecoverPublishDead, PublishDead
  <2>2. /\ sched'[c].pc \in {"recover", "zset", "retry"}
        /\ sched'[c].todo = sched[c].todo /\ sched'[c].cur = NoTask
        /\ \A d \in SchedulerID \ {c} : sched'[d] = sched[d]
    BY <2>1, NextItemEffect
  <2> QED BY <2>1, <2>2, SchedPlain, SchedulerAssumption DEF SchedAt, ReachInv, ExistInv
<1> QED BY <1>1, <1>2, <1>3

LEMMA ZSetReach ==
  ASSUME TypeOK, TypeOK', ReachInv, UNCHANGED <<slot, req, interrupted>>,
         NEW c \in SchedulerID,
         \/ \E t \in Task : ZSetGet(c, t)
         \/ ZSetTransition(c) \/ ZSetPublish(c) \/ ZSetRemove(c)
  PROVE  ReachInv'
<1> USE DEF PublishCalls
<1>1. ASSUME NEW t \in Task, ZSetGet(c, t) PROVE ReachInv'
  <2>1. /\ sched[c].pc = "zset" /\ t \in sched[c].todo
        /\ UNCHANGED <<tasks, stream, delivered, pel, zset>>
    BY <1>1 DEF ZSetGet, redisVars
  <2>2. PICK pc \in {"ztransition", "zremove"} :
          Pick(c, t, pc) /\ (pc = "zremove" => tasks[t].status # "scheduled")
    BY <1>1 DEF ZSetGet
  <2>3. /\ sched'[c].pc = pc /\ sched'[c].cur = t
        /\ sched'[c].todo = sched[c].todo \ {t}
        /\ \A d \in SchedulerID \ {c} : sched'[d] = sched[d]
    BY <2>2, PickEffect
  <2> QED BY <2>1, <2>2, <2>3, SchedPlain DEF SchedAt, ReachInv, ExistInv
<1>2. CASE ZSetTransition(c)
  <2>1. /\ sched[c].pc = "ztransition" /\ sched[c].cur \in Task
        /\ EntriesKept /\ UNCHANGED zset
    BY <1>2, SameEntries DEF ZSetTransition, redisVars, TypeOK, SchedTypeOK
  <2>2. PICK t \in Task : t = sched[c].cur
    BY <2>1
  <2>3. PICK pc \in {"zpublish", "zremove"} :
          Proceed(c, pc) /\ (pc = "zpublish" <=> Hits(t, "scheduled"))
    BY <1>2, <2>2 DEF ZSetTransition
  <2>4. /\ sched'[c].pc = pc /\ sched'[c].cur = t /\ sched'[c].todo = sched[c].todo
        /\ \A d \in SchedulerID \ {c} : sched'[d] = sched[d]
    BY <2>2, <2>3, ProceedEffect
  <2>5. Transition(t, "scheduled", "pending", NoWorker)
    BY <1>2, <2>2 DEF ZSetTransition
  <2>6. /\ \A u \in Task \ {t} : tasks'[u] = tasks[u]
        /\ ~Hits(t, "scheduled") => tasks' = tasks
        /\ Hits(t, "scheduled") => tasks[t].status = "scheduled" /\ tasks'[t].status = "pending"
        /\ \A u \in Task : Forward(u)
    BY <2>5, TransitionRow
  <2>7. /\ tasks'[t].status # "scheduled"
        /\ \A u \in Task : /\ ~Enters(u, "scheduled") /\ ~Enters(u, "failed")
                           /\ Enters(u, "pending") => u = t /\ pc = "zpublish"
    BY <2>3, <2>6 DEF Enters, Hits
  <2>8. \A u \in Task : u \in sched'[c].todo \/ sched'[c].cur = u => Exists(u)
    BY <2>2, <2>4 DEF ReachInv, ExistInv
  <2> QED BY <2>1, <2>2, <2>4, <2>6, <2>7, <2>8, SchedMoves DEF SchedAt
<1>3. CASE ZSetPublish(c)
  <2>1. /\ sched[c].pc = "zpublish" /\ sched[c].cur \in Task /\ UNCHANGED <<tasks, zset>>
        /\ PublishTask(sched[c].cur) /\ Proceed(c, "zremove")
    BY <1>3 DEF ZSetPublish, PublishTask, TypeOK, SchedTypeOK
  <2>2. PICK t \in Task : t = sched[c].cur
    BY <2>1
  <2>3. EntriesKept /\ Fresh(t)'
    <3>1. PublishTask(t)
      BY <2>1, <2>2
    <3> QED BY <3>1, PublishKeeps
  <2>4. /\ sched'[c].pc = "zremove" /\ sched'[c].cur = t /\ sched'[c].todo = sched[c].todo
        /\ \A d \in SchedulerID \ {c} : sched'[d] = sched[d]
    BY <2>1, <2>2, ProceedEffect
  <2>5. tasks[t].status # "scheduled"
    BY <2>1, <2>2 DEF ReachInv, PastInv
  <2>6. \A u \in Task : Forward(u) /\ \A st : ~Enters(u, st)
    BY <2>1, UnchangedRow
  <2>7. \A u \in Task : u \in sched'[c].todo \/ sched'[c].cur = u => Exists(u)
    BY <2>2, <2>4 DEF ReachInv, ExistInv
  <2> QED BY <2>1, <2>2, <2>3, <2>4, <2>5, <2>6, <2>7, SchedMoves DEF SchedAt
<1>4. CASE ZSetRemove(c)
  <2>1. /\ sched[c].pc = "zremove" /\ sched[c].cur \in Task /\ UNCHANGED tasks
        /\ zset' = zset \ {sched[c].cur} /\ NextItem(c) /\ EntriesKept
    BY <1>4, SameEntries DEF ZSetRemove, Remove, TypeOK, SchedTypeOK
  <2>2. /\ sched'[c].pc \in {"recover", "zset", "retry"}
        /\ sched'[c].todo = sched[c].todo /\ sched'[c].cur = NoTask
        /\ \A d \in SchedulerID \ {c} : sched'[d] = sched[d]
    BY <2>1, NextItemEffect
  <2>3. tasks[sched[c].cur].status # "scheduled"
    BY <2>1 DEF ReachInv, PastInv
  <2>4. \A u \in Task : Forward(u) /\ \A st : ~Enters(u, st)
    BY <2>1, UnchangedRow
  <2>5. \A u \in Task : u \in sched'[c].todo \/ sched'[c].cur = u => Exists(u)
    BY <2>2, SchedulerAssumption DEF ReachInv, ExistInv
  <2> QED BY <2>1, <2>2, <2>3, <2>4, <2>5, SchedMoves DEF SchedAt
<1> QED BY <1>1, <1>2, <1>3, <1>4

LEMMA RetryReach ==
  ASSUME TypeOK, TypeOK', ReachInv, UNCHANGED <<slot, req, interrupted>>,
         NEW c \in SchedulerID,
         (\E t \in Task : RetryTransition(c, t)) \/ RetryPublish(c)
  PROVE  ReachInv'
<1> USE DEF PublishCalls
<1>1. ASSUME NEW t \in Task, RetryTransition(c, t) PROVE ReachInv'
  <2>1. /\ sched[c].pc = "retry" /\ t \in sched[c].todo
        /\ UNCHANGED <<stream, delivered, pel, zset>>
        /\ Transition(t, "retrying", "pending", NoWorker)
    BY <1>1 DEF RetryTransition, redisVars
  <2>2. EntriesKept
    BY <2>1, SameEntries
  <2>3. /\ \A u \in Task \ {t} : tasks'[u] = tasks[u]
        /\ ~Hits(t, "retrying") => tasks' = tasks
        /\ Hits(t, "retrying") => tasks'[t].status = "pending"
        /\ \A u \in Task : Forward(u)
    BY <2>1, TransitionRow
  <2>4. CASE Hits(t, "retrying")
    <3>1. /\ sched'[c].pc = "rpublish" /\ sched'[c].cur = t
          /\ sched'[c].todo = sched[c].todo \ {t}
          /\ \A d \in SchedulerID \ {c} : sched'[d] = sched[d]
      BY <1>1, <2>4, PickEffect DEF RetryTransition
    <3>2. \A u \in Task : /\ ~Enters(u, "scheduled") /\ ~Enters(u, "failed")
                          /\ Enters(u, "pending") => u = t
      BY <2>3, <2>4 DEF Enters
    <3>3. \A u \in Task : u \in sched'[c].todo \/ sched'[c].cur = u => Exists(u)
      BY <2>1, <3>1 DEF ReachInv, ExistInv
    <3> QED BY <2>1, <2>2, <2>3, <3>1, <3>2, <3>3, SchedMoves DEF SchedAt
  <2>5. CASE ~Hits(t, "retrying")
    <3>1. /\ sched'[c].pc = "retry" /\ sched'[c].cur = sched[c].cur
          /\ sched'[c].todo = sched[c].todo \ {t}
          /\ \A d \in SchedulerID \ {c} : sched'[d] = sched[d]
      BY <1>1, <2>1, <2>5, SkipEffect DEF RetryTransition
    <3> QED BY <2>1, <2>3, <2>5, <3>1, SchedPlain DEF SchedAt, ReachInv, ExistInv
  <2> QED BY <2>4, <2>5
<1>2. CASE RetryPublish(c)
  <2>1. /\ sched[c].pc = "rpublish" /\ sched[c].cur \in Task /\ UNCHANGED <<tasks, zset>>
        /\ PublishTask(sched[c].cur) /\ NextItem(c)
    BY <1>2 DEF RetryPublish, PublishTask, TypeOK, SchedTypeOK
  <2>2. PICK t \in Task : t = sched[c].cur
    BY <2>1
  <2>3. EntriesKept /\ Fresh(t)'
    <3>1. PublishTask(t)
      BY <2>1, <2>2
    <3> QED BY <3>1, PublishKeeps
  <2>4. /\ sched'[c].pc \in {"recover", "zset", "retry"}
        /\ sched'[c].todo = sched[c].todo /\ sched'[c].cur = NoTask
        /\ \A d \in SchedulerID \ {c} : sched'[d] = sched[d]
    BY <2>1, NextItemEffect
  <2>5. \A u \in Task : Forward(u) /\ \A st : ~Enters(u, st)
    BY <2>1, UnchangedRow
  <2>6. \A u \in Task : u \in sched'[c].todo \/ sched'[c].cur = u => Exists(u)
    BY <2>4, SchedulerAssumption DEF ReachInv, ExistInv
  <2> QED BY <2>1, <2>2, <2>3, <2>4, <2>5, <2>6, SchedMoves DEF SchedAt
<1> QED BY <1>1, <1>2

LEMMA SchedulerFaultReach ==
  ASSUME TypeOK, TypeOK', ReachInv, SchedulerFault
  PROVE  ReachInv'
<1>1. PICK c \in SchedulerID :
        /\ SchedCallError(c) \/ (\E t \in Task : SchedItemError(c, t)) \/ SchedulerCrash(c)
        /\ Cut(SchedCut(c))
  BY DEF SchedulerFault
<1>2. UNCHANGED <<tasks, stream, delivered, pel, zset, slot, req>>
  BY <1>1 DEF SchedulerFault, SchedCallError, SchedItemError, SchedulerCrash, redisVars,
              workerVars
<1>3. /\ interrupted \subseteq interrupted'
      /\ \A u \in Task :
           /\ SchedAt(c, PublishCalls, u) => <<"dispatch", u>> \in interrupted'
           /\ SchedAt(c, {"complete"}, u) => <<"failure", u>> \in interrupted'
  BY <1>1 DEF Cut, SchedCut, SchedAt, PublishCalls
<1>4. /\ \/ sched'[c].pc \notin {"zpublish", "zremove"}
         \/ sched'[c] = [sched[c] EXCEPT !.todo = sched'[c].todo]
      /\ sched'[c].todo \subseteq sched[c].todo
      /\ sched'[c].cur \in {sched[c].cur, NoTask}
      /\ \A d \in SchedulerID \ {c} : sched'[d] = sched[d]
  <2>1. CASE SchedCallError(c)
    BY <2>1, NextItemEffect DEF SchedCallError
  <2>2. ASSUME NEW t \in Task, SchedItemError(c, t)
        PROVE  sched' = [sched EXCEPT ![c].todo = @ \ {t}]
    BY <2>2 DEF SchedItemError, Skip
  <2>3. CASE SchedulerCrash(c)
    BY <2>3 DEF SchedulerCrash, SchedIdle, TypeOK, SchedTypeOK
  <2> QED BY <1>1, <2>1, <2>2, <2>3 DEF TypeOK, SchedTypeOK
<1>5. sched'[c].pc \in {"zpublish", "zremove"} => tasks[sched'[c].cur].status # "scheduled"
  BY <1>4 DEF ReachInv, PastInv, TypeOK, SchedTypeOK
<1>6. \A u \in Task : u \in sched'[c].todo \/ sched'[c].cur = u => Exists(u)
  BY <1>4, SchedulerAssumption DEF ReachInv, ExistInv
<1> QED BY <1>2, <1>3, <1>4, <1>5, <1>6, SchedPlain

-----------------------------------------------------------------------------
(* The steps of a submission. *)

LEMMA SubmitFrame ==
  ASSUME TypeOK, TypeOK', ReachInv, EntriesKept, UNCHANGED <<slot, sched>>,
         interrupted \subseteq interrupted',
         NEW t \in Task, \A u \in Task \ {t} : req'[u] = req[u],
         req'[t] # "none" => Exists(t)',
         \A u \in zset' : Exists(u)', zset \subseteq zset',
         \A u \in Task : /\ Forward(u) /\ ~Enters(u, "failed")
                         /\ Enters(u, "scheduled") => u = t /\ req'[t] = "schedule"
                         /\ Enters(u, "pending") => u = t /\ req'[t] = "publish",
         req[t] = "publish" => Fresh(t)' \/ <<"dispatch", t>> \in interrupted',
         req[t] = "schedule" => t \in zset' \/ <<"delay", t>> \in interrupted'
  PROVE  ReachInv'
<1>1. ExistInv'
  BY DEF ReachInv, ExistInv, Forward
<1>2. PastInv'
  <2> SUFFICES ASSUME NEW c \in SchedulerID, sched[c].pc \in {"zpublish", "zremove"}
               PROVE  tasks'[sched[c].cur].status # "scheduled"
    BY DEF PastInv
  <2>1. sched[c].cur \in Task
    BY DEF TypeOK, SchedTypeOK
  <2>2. Exists(sched[c].cur)
    BY <2>1 DEF ReachInv, ExistInv
  <2> QED BY <2>1, <2>2 DEF ReachInv, PastInv, Forward, Enters, Exists
<1>3. ASSUME NEW u \in Task PROVE ScheduledReachable(u)'
  BY DEF ReachInv, ScheduledReachable, Enters
<1>4. ASSUME NEW u \in Task
      PROVE  (Enters(u, "pending") => Publishing(u)') /\ PublishersKept(u)
  BY DEF PublishersKept, Publishing, SchedAt
<1>5. ASSUME NEW u \in Task PROVE ClosersKept(u) /\ FinalizersKept(u)
  <2>1. /\ ClosersKept(u)
        /\ \A s \in Slot : SlotAt(s, "complete", u) => SlotAt(s, "complete", u)'
    BY SlotSideKept
  <2>2. Slot' = Slot
    BY DEF Slot
  <2> QED BY <2>1, <2>2 DEF FinalizersKept, Finalizing, SchedAt
<1> QED BY <1>1, <1>2, <1>3, <1>4, <1>5, Frame

LEMMA SubmitReach ==
  ASSUME TypeOK, TypeOK', ReachInv, UNCHANGED <<slot, sched, interrupted>>,
         NEW t \in Task, Submit(t)
  PROVE  ReachInv'
<1>1. ASSUME NEW delayed \in BOOLEAN, NEW m \in MaxRetriesOf, CreateTask(t, delayed, m)
      PROVE  ReachInv'
  <2>0. m \in Nat
    BY StoreAssumption
  <2>1. PICK st \in {"scheduled", "pending"} :
          /\ Create(t, st, m)
          /\ req' = [req EXCEPT ![t] = IF st = "scheduled" THEN "schedule" ELSE "publish"]
    <3>1. CASE delayed
      BY <1>1, <3>1 DEF CreateTask
    <3>2. CASE ~delayed
      BY <1>1, <3>2 DEF CreateTask
    <3> QED BY <3>1, <3>2
  <2>2. /\ tasks[t].status = "absent" /\ tasks'[t].status = st
        /\ \A u \in Task \ {t} : tasks'[u] = tasks[u]
        /\ \A u \in Task : Forward(u)
    BY <2>0, <2>1, CreateRow
  <2>3. EntriesKept /\ UNCHANGED zset /\ zset \subseteq Task
    BY <1>1, SameEntries DEF CreateTask, redisVars, TypeOK, QueueTypeOK
  <2>4. /\ req[t] = "none" /\ Exists(t)'
        /\ \A u \in zset' : Exists(u)'
    BY <2>2, <2>3 DEF ReachInv, ExistInv, Exists, Forward
  <2>5. /\ req'[t] = IF st = "scheduled" THEN "schedule" ELSE "publish"
        /\ \A u \in Task \ {t} : req'[u] = req[u]
    BY <2>1 DEF TypeOK, ReqTypeOK
  <2>6. \A u \in Task : /\ ~Enters(u, "failed")
                        /\ Enters(u, "scheduled") => u = t /\ req'[t] = "schedule"
                        /\ Enters(u, "pending") => u = t /\ req'[t] = "publish"
    BY <2>2, <2>5 DEF Enters
  <2> QED BY <2>2, <2>3, <2>4, <2>5, <2>6, SubmitFrame
<1>2. CASE PublishCreated(t)
  <2>1. /\ req[t] = "publish" /\ PublishTask(t) /\ UNCHANGED <<tasks, zset>>
        /\ req'[t] = "none" /\ \A u \in Task \ {t} : req'[u] = req[u]
        /\ zset \subseteq Task
    BY <1>2 DEF PublishCreated, PublishTask, TypeOK, ReqTypeOK, QueueTypeOK
  <2>2. EntriesKept /\ Fresh(t)'
    BY <2>1, PublishKeeps
  <2>3. \A u \in zset' : Exists(u)'
    BY <2>1 DEF ReachInv, ExistInv, Exists
  <2>4. \A u \in Task : Forward(u) /\ \A st : ~Enters(u, st)
    BY <2>1, UnchangedRow
  <2> QED BY <2>1, <2>2, <2>3, <2>4, SubmitFrame
<1>3. CASE ScheduleCreated(t)
  <2>1. /\ req[t] = "schedule" /\ UNCHANGED tasks /\ zset' = zset \cup {t}
        /\ req'[t] = "none" /\ \A u \in Task \ {t} : req'[u] = req[u]
        /\ zset \subseteq Task /\ EntriesKept
    BY <1>3, SameEntries DEF ScheduleCreated, ScheduleTask, TypeOK, ReqTypeOK, QueueTypeOK
  <2>2. \A u \in zset' : Exists(u)'
    BY <2>1 DEF ReachInv, ExistInv, Exists
  <2>3. \A u \in Task : Forward(u) /\ \A st : ~Enters(u, st)
    BY <2>1, UnchangedRow
  <2> QED BY <2>1, <2>2, <2>3, SubmitFrame
<1> QED BY <1>1, <1>2, <1>3 DEF Submit

LEMMA SubmitFaultReach ==
  ASSUME TypeOK, TypeOK', ReachInv, SubmitFault
  PROVE  ReachInv'
<1>1. PICK t \in Task : SubmitError(t) /\ Cut(ReqCut(t))
  BY DEF SubmitFault
<1>2. /\ UNCHANGED <<tasks, zset, slot, sched>> /\ EntriesKept
      /\ req'[t] = "none" /\ \A u \in Task \ {t} : req'[u] = req[u]
      /\ zset \subseteq Task
  BY <1>1, SameEntries DEF SubmitFault, SubmitError, redisVars, workerVars, TypeOK, ReqTypeOK,
                           QueueTypeOK
<1>3. /\ interrupted \subseteq interrupted'
      /\ req[t] = "publish" => <<"dispatch", t>> \in interrupted'
      /\ req[t] = "schedule" => <<"delay", t>> \in interrupted'
  BY <1>1 DEF Cut, ReqCut
<1>4. \A u \in zset' : Exists(u)'
  BY <1>2 DEF ReachInv, ExistInv, Exists
<1>5. \A u \in Task : Forward(u) /\ \A st : ~Enters(u, st)
  BY <1>2, UnchangedRow
<1> QED BY <1>2, <1>3, <1>4, <1>5, SubmitFrame

LEMMA RetransmitReach ==
  ASSUME TypeOK, TypeOK', ReachInv, Retransmit
  PROVE  ReachInv'
<1>1. PICK t \in Task : PublishTask(t)
  BY DEF Retransmit
<1>2. EntriesKept
  BY <1>1, PublishKeeps
<1>3. UNCHANGED <<tasks, zset, slot, sched, req, interrupted>>
  BY <1>1 DEF Retransmit, PublishTask, workerVars
<1> QED BY <1>2, <1>3, UnchangedRow, QuietReach

-----------------------------------------------------------------------------

LEMMA ReachInit ==
  ASSUME Init
  PROVE  ReachInv
<1>1. /\ \A t \in Task : tasks[t].status = "absent" /\ req[t] = "none"
      /\ zset = {}
      /\ \A c \in SchedulerID : sched[c] = SchedIdle
  BY DEF Init, StoreInit, AbsentRow, ReqInit, QueueInit, SchedInit
<1>2. ExistInv /\ PastInv
  BY <1>1, SchedulerAssumption DEF ExistInv, PastInv, SchedIdle
<1>3. ASSUME NEW t \in Task
      PROVE  PendingInv(t) /\ ScheduledReachable(t) /\ FailedReachable(t) /\ TimedReachable(t)
  BY <1>1 DEF PendingInv, ScheduledReachable, FailedReachable, TimedReachable
<1> QED BY <1>2, <1>3 DEF ReachInv

LEMMA ReachStep ==
  ASSUME TypeOK, TypeOK', FailureHeldOnce, ReachInv, [Next]_vars
  PROVE  ReachInv'
<1>1. CASE Step
  <2>0. UNCHANGED interrupted
    BY <1>1 DEF Step, Quiet
  <2>1. ASSUME NEW t \in Task, SubmitStep(t) PROVE ReachInv'
    BY <2>0, <2>1, SubmitReach DEF SubmitStep, workerVars
  <2>2. ASSUME NEW w \in WorkerID, LoopStep(w) \/ TickTime(w) PROVE ReachInv'
    BY <2>0, <2>2, LoopReach DEF LoopStep, TickTime
  <2>3. ASSUME NEW s \in Slot, HandleStep(s) PROVE ReachInv'
    BY <2>0, <2>3, HandleReach DEF HandleStep
  <2>4. ASSUME NEW c \in SchedulerID, SchedStep(c) PROVE ReachInv'
    <3>1. UNCHANGED <<slot, req, interrupted>> /\ Tick(c)
      BY <2>0, <2>4 DEF SchedStep, workerVars
    <3> QED BY <3>1, ScanReach, RecoverReach, ZSetReach, RetryReach DEF Tick
  <2>5. CASE TimePasses
    BY <2>0, <2>2, <2>5, TimeReach DEF TimePasses
  <2> QED BY <1>1, <2>1, <2>2, <2>3, <2>4, <2>5 DEF Step
<1>2. CASE Fault
  BY <1>2, WorkerFaultReach, SchedulerFaultReach, SubmitFaultReach, RetransmitReach DEF Fault
<1>3. CASE UNCHANGED vars
  <2>1. UNCHANGED <<tasks, stream, delivered, pel, zset, slot, sched, req, interrupted>>
    BY <1>3 DEF vars, redisVars, workerVars
  <2> QED BY <2>1, SameEntries, UnchangedRow, QuietReach
<1> QED BY <1>1, <1>2, <1>3 DEF Next

LEMMA ReachGoal ==
  ASSUME ReachInv
  PROVE  NoOrphan
<1> SUFFICES ASSUME NEW t \in Task
             PROVE  /\ PendingReachable(t) /\ ScheduledReachable(t)
                    /\ FailedReachable(t) /\ TimedReachable(t)
  BY DEF NoOrphan
<1>1. Fresh(t) => HasMessage(t)
  BY DEF Fresh, HasMessage
<1> QED BY <1>1 DEF ReachInv, PendingInv, PendingReachable

(***************************************************************************)
(* No unfinished task is out of reach of every loop, unless a fault cut an *)
(* operation on it in two: for any number of tasks, workers, goroutines,   *)
(* schedulers and faults, no acknowledgement (worker.go handleMessage)     *)
(* takes the last message of a task that needs one, no removal from the    *)
(* sorted set (scheduler.go scheduleZSetTask) takes a task that is still   *)
(* scheduled, and no race between two of them loses the task in between.   *)
(***************************************************************************)
THEOREM NoOrphanSafe == Spec => []NoOrphan
<1>1. Init => ReachInv
  BY ReachInit
<1>2. TypeOK /\ TypeOK' /\ FailureHeldOnce /\ ReachInv /\ [Next]_vars => ReachInv'
  BY ReachStep
<1>3. ReachInv => NoOrphan
  BY ReachGoal
<1> QED BY <1>1, <1>2, <1>3, TypeCorrect, FailureSafe, PTL DEF Spec

-----------------------------------------------------------------------------
(* The dead stream. *)

DeadSafe == \A t \in Task : DeadInv(t)

(* A step that neither buries u nor takes it up. *)
LEMMA DeadFrame ==
  ASSUME NEW u \in Task, DeadInv(u), interrupted \subseteq interrupted',
         deadStream'[u] = deadStream[u],
         tasks'[u].status = "dead" <=> tasks[u].status = "dead",
         \A s \in Slot : SlotBuries(s, u)' => SlotBuries(s, u),
         \A c \in SchedulerID : SchedBuries(c, u)' => SchedBuries(c, u),
         Burying(u) => Burying(u)' \/ <<"deadletter", u>> \in interrupted'
  PROVE  DeadInv(u)'
<1>1. Slot' = Slot
  BY DEF Slot
<1>2. Burying(u)' => Burying(u)
  BY <1>1 DEF Burying, SlotBuries, SchedBuries
<1>3. OneBurier(u)'
  BY <1>1 DEF OneBurier, DeadInv
<1> QED BY <1>2, <1>3 DEF DeadInv

LEMMA DeadPlain ==
  ASSUME TypeOK, StreamKept, DeadSafe, UNCHANGED deadStream,
         interrupted \subseteq interrupted',
         \A u \in Task : tasks'[u].status = "dead" <=> tasks[u].status = "dead",
         \A r \in Slot : \/ slot'[r] = slot[r]
                         \/ /\ slot'[r].pc # "deadpub"
                            /\ slot[r].pc = "deadpub" =>
                                 <<"deadletter", TaskOf(r)>> \in interrupted',
         \A d \in SchedulerID : \/ sched'[d] = sched[d]
                                \/ /\ sched'[d].pc # "deadpub"
                                   /\ sched[d].pc = "deadpub" =>
                                        <<"deadletter", sched[d].cur>> \in interrupted'
  PROVE  DeadSafe'
<1> SUFFICES ASSUME NEW u \in Task PROVE DeadInv(u)'
  BY DEF DeadSafe
<1>1. ASSUME NEW r \in Slot
      PROVE  /\ SlotBuries(r, u)' => SlotBuries(r, u)
             /\ SlotBuries(r, u) => SlotBuries(r, u)' \/ <<"deadletter", u>> \in interrupted'
  <2>1. CASE slot'[r] = slot[r]
    BY <2>1, SlotAtKept DEF SlotBuries
  <2>2. CASE slot'[r] # slot[r]
    BY <2>2 DEF SlotBuries, SlotAt
  <2> QED BY <2>1, <2>2
<1>2. ASSUME NEW d \in SchedulerID
      PROVE  /\ SchedBuries(d, u)' => SchedBuries(d, u)
             /\ SchedBuries(d, u) => SchedBuries(d, u)' \/ <<"deadletter", u>> \in interrupted'
  BY DEF SchedBuries, SchedAt
<1>3. Slot' = Slot
  BY DEF Slot
<1>4. Burying(u) => Burying(u)' \/ <<"deadletter", u>> \in interrupted'
  BY <1>1, <1>2, <1>3 DEF Burying, SlotBuries, SchedBuries
<1>5. DeadInv(u) /\ deadStream'[u] = deadStream[u]
  BY DEF DeadSafe
<1> QED BY <1>1, <1>2, <1>4, <1>5, DeadFrame

(* The actor that completes the failure of a task with dead buries it. *)
LEMMA DeadTaken ==
  ASSUME TypeOK, StreamKept, DeadSafe, UNCHANGED <<deadStream, interrupted>>,
         NEW t \in Task, tasks[t].status = "failed", tasks'[t].status = "dead",
         \A u \in Task \ {t} : tasks'[u] = tasks[u],
         \/ /\ UNCHANGED sched
            /\ \E s \in Slot : /\ \A r \in Slot \ {s} : slot'[r] = slot[r]
                               /\ slot[s].pc = "complete" /\ slot'[s].pc = "deadpub"
                               /\ TaskOf(s)' = t
         \/ /\ UNCHANGED slot
            /\ \E c \in SchedulerID : /\ \A d \in SchedulerID \ {c} : sched'[d] = sched[d]
                                      /\ sched[c].pc = "complete"
                                      /\ sched'[c].pc = "deadpub" /\ sched'[c].cur = t
  PROVE  DeadSafe'
<1>1. ~Burying(t) /\ deadStream[t] = 0
  BY DEF DeadSafe, DeadInv
<1>2. /\ \A s \in Slot : ~SlotBuries(s, t)
      /\ \A c \in SchedulerID : ~SchedBuries(c, t)
  BY <1>1 DEF Burying, SlotBuries, SchedBuries
<1>3. ASSUME NEW r \in Slot, slot'[r] = slot[r], NEW u
      PROVE  SlotBuries(r, u)' <=> SlotBuries(r, u)
  BY <1>3, SlotAtKept DEF SlotBuries
<1>4. Slot' = Slot
  BY DEF Slot
<1>5. CASE UNCHANGED sched
  <2>1. PICK s \in Slot : /\ \A r \in Slot \ {s} : slot'[r] = slot[r]
                          /\ slot[s].pc = "complete" /\ slot'[s].pc = "deadpub"
                          /\ TaskOf(s)' = t
    BY <1>5
  <2>2. ASSUME NEW u \in Task \ {t} PROVE DeadInv(u)'
    <3>1. \A r \in Slot : SlotBuries(r, u)' <=> SlotBuries(r, u)
      BY <1>3, <2>1 DEF SlotBuries, SlotAt
    <3>2. \A d \in SchedulerID : SchedBuries(d, u)' <=> SchedBuries(d, u)
      BY <1>5 DEF SchedBuries, SchedAt
    <3>3. Burying(u) => Burying(u)'
      BY <1>4, <3>1, <3>2 DEF Burying, SlotBuries, SchedBuries
    <3> QED BY <3>1, <3>2, <3>3, DeadFrame DEF DeadSafe
  <2>3. DeadInv(t)'
    <3>1. \A r \in Slot : SlotBuries(r, t)' <=> r = s
      BY <1>2, <1>3, <2>1 DEF SlotBuries, SlotAt
    <3>2. \A d \in SchedulerID : ~SchedBuries(d, t)'
      BY <1>2, <1>5 DEF SchedBuries, SchedAt
    <3>3. Burying(t)'
      BY <1>4, <3>1 DEF Burying, SlotBuries
    <3>4. OneBurier(t)'
      BY <1>4, <3>1, <3>2 DEF OneBurier
    <3> QED BY <1>1, <3>3, <3>4 DEF DeadInv
  <2> QED BY <2>2, <2>3 DEF DeadSafe
<1>6. CASE ~UNCHANGED sched
  <2>1. PICK c \in SchedulerID : /\ \A d \in SchedulerID \ {c} : sched'[d] = sched[d]
                                 /\ sched[c].pc = "complete"
                                 /\ sched'[c].pc = "deadpub" /\ sched'[c].cur = t
    BY <1>6
  <2>2. UNCHANGED slot
    BY <1>6
  <2>3. ASSUME NEW u \in Task \ {t} PROVE DeadInv(u)'
    <3>1. \A r \in Slot : SlotBuries(r, u)' <=> SlotBuries(r, u)
      BY <1>3, <2>2
    <3>2. \A d \in SchedulerID : SchedBuries(d, u)' <=> SchedBuries(d, u)
      BY <2>1 DEF SchedBuries, SchedAt
    <3>3. Burying(u) => Burying(u)'
      BY <1>4, <3>1, <3>2 DEF Burying, SlotBuries, SchedBuries
    <3> QED BY <3>1, <3>2, <3>3, DeadFrame DEF DeadSafe
  <2>4. DeadInv(t)'
    <3>1. \A r \in Slot : ~SlotBuries(r, t)'
      BY <1>2, <1>3, <2>2
    <3>2. \A d \in SchedulerID : SchedBuries(d, t)' <=> d = c
      BY <1>2, <2>1 DEF SchedBuries, SchedAt
    <3>3. Burying(t)'
      BY <3>2 DEF Burying, SchedBuries
    <3>4. OneBurier(t)'
      BY <1>4, <3>1, <3>2 DEF OneBurier
    <3> QED BY <1>1, <3>3, <3>4 DEF DeadInv
  <2> QED BY <2>3, <2>4 DEF DeadSafe
<1> QED BY <1>5, <1>6

(* The one actor that buries a task sends it, and goes on. *)
LEMMA DeadSent ==
  ASSUME TypeOK, DeadSafe, UNCHANGED <<tasks, interrupted>>,
         NEW t \in Task, PublishDead(t),
         \/ /\ UNCHANGED sched
            /\ \E s \in Slot : /\ \A r \in Slot \ {s} : slot'[r] = slot[r]
                               /\ SlotBuries(s, t) /\ slot'[s].pc # "deadpub"
         \/ /\ UNCHANGED slot
            /\ \E c \in SchedulerID : /\ \A d \in SchedulerID \ {c} : sched'[d] = sched[d]
                                      /\ SchedBuries(c, t) /\ sched'[c].pc # "deadpub"
  PROVE  DeadSafe'
<1>1. Slot' = Slot /\ StreamKept
  BY DEF Slot, PublishDead, StreamKept
<1>2. ASSUME NEW r \in Slot, slot'[r] = slot[r], NEW u
      PROVE  SlotBuries(r, u)' <=> SlotBuries(r, u)
  BY <1>1, <1>2, SlotAtKept DEF SlotBuries
<1>3. Burying(t) /\ tasks[t].status = "dead" /\ deadStream[t] = 0 /\ OneBurier(t)
  <2>1. Burying(t)
    BY DEF Burying, SlotBuries, SchedBuries
  <2> QED BY <2>1 DEF DeadSafe, DeadInv
<1>4. deadStream'[t] = 1 /\ \A u \in Task \ {t} : deadStream'[u] = deadStream[u]
  BY <1>3 DEF PublishDead, TypeOK, QueueTypeOK
<1>5. ASSUME NEW u \in Task \ {t}
      PROVE  /\ \A r \in Slot : SlotBuries(r, u)' <=> SlotBuries(r, u)
             /\ \A d \in SchedulerID : SchedBuries(d, u)' <=> SchedBuries(d, u)
  <2>1. \A r \in Slot : SlotBuries(r, u)' <=> SlotBuries(r, u)
    BY <1>2 DEF SlotBuries, SlotAt
  <2>2. \A d \in SchedulerID : SchedBuries(d, u)' <=> SchedBuries(d, u)
    BY DEF SchedBuries, SchedAt
  <2> QED BY <2>1, <2>2
<1>6. ASSUME NEW u \in Task \ {t} PROVE DeadInv(u)'
  <2>1. Burying(u) => Burying(u)'
    BY <1>1, <1>5 DEF Burying, SlotBuries, SchedBuries
  <2> QED BY <1>4, <1>5, <2>1, DeadFrame DEF DeadSafe
<1>7. ~Burying(t)'
  <2>1. \A r \in Slot : ~SlotBuries(r, t)'
    BY <1>2, <1>3 DEF SlotBuries, SlotAt, OneBurier
  <2>2. \A d \in SchedulerID : ~SchedBuries(d, t)'
    BY <1>3 DEF SchedBuries, SchedAt, OneBurier
  <2> QED BY <1>1, <2>1, <2>2 DEF Burying, SlotBuries, SchedBuries
<1>8. DeadInv(t)'
  BY <1>1, <1>3, <1>4, <1>7 DEF DeadInv, OneBurier, Burying, SlotBuries, SchedBuries
<1> QED BY <1>6, <1>8 DEF DeadSafe

LEMMA HandleDead ==
  ASSUME TypeOK, FailureHeldOnce, DeadSafe, UNCHANGED <<sched, interrupted>>,
         NEW s \in Slot, HandleMessage(s)
  PROVE  DeadSafe'
<1>0. slot[s].pc # "free" => TaskOf(s) \in Task
  BY TaskOfType DEF TypeOK, WorkerTypeOK
<1>1. CASE GetTask(s) \/ AckMessage(s)
  <2>1. UNCHANGED <<tasks, stream, deadStream>> /\ slot[s].pc # "deadpub"
    BY <1>1 DEF GetTask, AckMessage, Ack, redisVars
  <2>2. PICK pc : Goto(s, pc) /\ pc # "deadpub"
    BY <1>1 DEF GetTask, AckMessage
  <2> QED BY <2>1, <2>2, GotoEffect, DeadPlain DEF StreamKept
<1>2. CASE ClaimTask(s) \/ SucceedTask(s)
  <2>1. UNCHANGED <<stream, deadStream>> /\ slot[s].pc \in {"claim", "exec"}
    BY <1>2 DEF ClaimTask, SucceedTask, redisVars
  <2>2. PICK pc \in {"exec", "ack", "free"} : Goto(s, pc)
    BY <1>2 DEF ClaimTask, SucceedTask
  <2>3. \A u \in Task : tasks'[u].status = "dead" <=> tasks[u].status = "dead"
    <3>1. CASE ClaimTask(s)
      BY <1>0, <2>1, <3>1, TransitionRow DEF ClaimTask
    <3>2. CASE SucceedTask(s)
      BY <1>0, <2>1, <3>2, TransitionRow DEF SucceedTask
    <3> QED BY <1>2, <3>1, <3>2
  <2> QED BY <2>1, <2>2, <2>3, GotoEffect, DeadPlain DEF StreamKept
<1>3. ASSUME NEW nr \in BOOLEAN, FailTask(s, nr) PROVE DeadSafe'
  <2>1. UNCHANGED <<stream, deadStream>> /\ slot[s].pc = "exec" /\ MarkFailed(TaskOf(s))
    BY <1>3 DEF FailTask, redisVars
  <2>2. \A u \in Task : tasks'[u].status = "dead" <=> tasks[u].status = "dead"
    BY <1>0, <2>1, MarkFailedRow
  <2>3. /\ \A r \in Slot \ {s} : slot'[r] = slot[r]
        /\ slot'[s].pc \in {"free", "complete"}
    BY <1>3 DEF FailTask, FreeSlot, TypeOK, WorkerTypeOK, SlotTypeOK
  <2> QED BY <2>1, <2>2, <2>3, DeadPlain DEF StreamKept
<1>4. CASE FinishFailure(s)
  <2>1. /\ slot[s].pc = "complete" /\ CompleteFailure(TaskOf(s), slot[s].decision)
        /\ UNCHANGED <<stream, deadStream>>
    BY <1>4 DEF FinishFailure, redisVars
  <2>2. PICK t \in Task : t = TaskOf(s)
    BY <1>0, <2>1
  <2>3. /\ slot[s].decision \in FailureDecision
        /\ tasks[t].status = "failed" /\ FreshDecision(slot[s].decision, tasks[t])
    BY <2>1, <2>2 DEF TypeOK, WorkerTypeOK, SlotTypeOK, FailureHeldOnce, SlotFailureHeld
  <2>4. /\ \A u \in Task \ {t} : tasks'[u] = tasks[u]
        /\ Hits(t, "failed") /\ tasks'[t].status = slot[s].decision.status
    BY <2>1, <2>2, <2>3, CompleteFailureRow
  <2>5. CASE slot[s].decision.status = "dead"
    <3>1. Goto(s, "deadpub")
      BY <1>4, <2>2, <2>4, <2>5 DEF FinishFailure
    <3>2. /\ \A r \in Slot \ {s} : slot'[r] = slot[r]
          /\ slot'[s].pc = "deadpub" /\ slot'[s].msg = slot[s].msg
      BY <3>1, GotoEffect
    <3>3. TaskOf(s)' = t
      BY <2>1, <2>2, <3>2 DEF TaskOf
    <3> QED BY <2>1, <2>3, <2>4, <2>5, <3>2, <3>3, DeadTaken DEF StreamKept
  <2>6. CASE slot[s].decision.status # "dead"
    <3>1. PICK pc \in {"ack", "free"} : Goto(s, pc)
      BY <1>4, <2>6 DEF FinishFailure
    <3> QED BY <2>1, <2>3, <2>4, <2>6, <3>1, GotoEffect, DeadPlain DEF StreamKept
  <2> QED BY <2>5, <2>6
<1>5. CASE SendDead(s)
  <2>1. /\ slot[s].pc = "deadpub" /\ PublishDead(TaskOf(s)) /\ Goto(s, "ack")
        /\ UNCHANGED tasks
    BY <1>5 DEF SendDead
  <2>2. PICK t \in Task : t = TaskOf(s)
    BY <1>0, <2>1
  <2>3. PublishDead(t) /\ SlotBuries(s, t)
    BY <2>1, <2>2 DEF SlotBuries, SlotAt
  <2> QED BY <2>1, <2>3, GotoEffect, DeadSent
<1> QED BY <1>1, <1>2, <1>3, <1>4, <1>5 DEF HandleMessage

LEMMA TickDead ==
  ASSUME TypeOK, FailureHeldOnce, DeadSafe, UNCHANGED <<slot, interrupted>>,
         NEW c \in SchedulerID, Tick(c)
  PROVE  DeadSafe'
<1>1. CASE ScanExpiredRunning(c) \/ ScanDueTaskIDs(c) \/ ScanDueRetrying(c)
  <2>1. /\ UNCHANGED <<tasks, stream, deadStream>> /\ sched[c].pc # "deadpub"
        /\ \E S : StartScan(c, "recover", S) \/ StartScan(c, "zset", S) \/ StartScan(c, "retry", S)
    BY <1>1 DEF ScanExpiredRunning, ScanDueTaskIDs, ScanDueRetrying, ScanDone, redisVars
  <2>2. sched'[c].pc # "deadpub" /\ \A d \in SchedulerID \ {c} : sched'[d] = sched[d]
    BY <2>1, StartScanEffect
  <2> QED BY <2>1, <2>2, DeadPlain DEF StreamKept
<1>2. ASSUME NEW t \in Task, RecoverMarkFailed(c, t) PROVE DeadSafe'
  <2>1. UNCHANGED <<stream, deadStream>> /\ sched[c].pc = "recover" /\ MarkFailed(t)
    BY <1>2 DEF RecoverMarkFailed, redisVars
  <2>2. \A u \in Task : tasks'[u].status = "dead" <=> tasks[u].status = "dead"
    BY <2>1, MarkFailedRow
  <2>3. sched'[c].pc # "deadpub" /\ \A d \in SchedulerID \ {c} : sched'[d] = sched[d]
    BY <1>2, <2>1, SkipEffect DEF RecoverMarkFailed, TypeOK, SchedTypeOK
  <2> QED BY <2>1, <2>2, <2>3, DeadPlain DEF StreamKept
<1>3. CASE RecoverCompleteFailure(c)
  <2>1. /\ sched[c].pc = "complete" /\ sched[c].cur \in Task
        /\ CompleteFailure(sched[c].cur, sched[c].decision)
        /\ UNCHANGED <<stream, deadStream>>
    BY <1>3 DEF RecoverCompleteFailure, redisVars, TypeOK, SchedTypeOK
  <2>2. PICK t \in Task : t = sched[c].cur
    BY <2>1
  <2>3. /\ sched[c].decision \in FailureDecision
        /\ tasks[t].status = "failed" /\ FreshDecision(sched[c].decision, tasks[t])
    BY <2>1, <2>2 DEF TypeOK, SchedTypeOK, FailureHeldOnce, SchedFailureHeld
  <2>4. /\ \A u \in Task \ {t} : tasks'[u] = tasks[u]
        /\ Hits(t, "failed") /\ tasks'[t].status = sched[c].decision.status
    BY <2>1, <2>2, <2>3, CompleteFailureRow
  <2>5. CASE sched[c].decision.status = "dead"
    <3>1. sched' = [sched EXCEPT ![c].pc = "deadpub", ![c].decision = NoDecision]
      BY <1>3, <2>2, <2>4, <2>5 DEF RecoverCompleteFailure
    <3>2. /\ sched'[c].pc = "deadpub" /\ sched'[c].cur = t
          /\ \A d \in SchedulerID \ {c} : sched'[d] = sched[d]
      BY <2>2, <3>1 DEF TypeOK, SchedTypeOK
    <3> QED BY <2>1, <2>3, <2>4, <2>5, <3>2, DeadTaken DEF StreamKept
  <2>6. CASE sched[c].decision.status # "dead"
    <3>1. NextItem(c)
      BY <1>3, <2>6 DEF RecoverCompleteFailure
    <3>2. sched'[c].pc # "deadpub" /\ \A d \in SchedulerID \ {c} : sched'[d] = sched[d]
      BY <3>1, NextItemEffect
    <3> QED BY <2>1, <2>3, <2>4, <2>6, <3>2, DeadPlain DEF StreamKept
  <2> QED BY <2>5, <2>6
<1>4. CASE RecoverPublishDead(c)
  <2>1. /\ sched[c].pc = "deadpub" /\ sched[c].cur \in Task
        /\ PublishDead(sched[c].cur) /\ NextItem(c) /\ UNCHANGED tasks
    BY <1>4 DEF RecoverPublishDead, TypeOK, SchedTypeOK
  <2>2. PICK t \in Task : t = sched[c].cur
    BY <2>1
  <2>3. PublishDead(t) /\ SchedBuries(c, t)
    BY <2>1, <2>2 DEF SchedBuries, SchedAt
  <2>4. sched'[c].pc # "deadpub" /\ \A d \in SchedulerID \ {c} : sched'[d] = sched[d]
    BY <2>1, NextItemEffect
  <2> QED BY <2>1, <2>3, <2>4, DeadSent
<1>5. CASE (\E t \in Task : ZSetGet(c, t)) \/ ZSetPublish(c) \/ ZSetRemove(c) \/ RetryPublish(c)
  <2>1. UNCHANGED <<tasks, deadStream>> /\ sched[c].pc # "deadpub" /\ StreamKept
    <3>1. sched[c].cur \in Task /\ PublishTask(sched[c].cur) => StreamKept
      BY PublishKeepsStream
    <3> QED BY <1>5, <3>1 DEF ZSetGet, ZSetPublish, ZSetRemove, RetryPublish, PublishTask, Remove,
                     redisVars, StreamKept, TypeOK, SchedTypeOK
  <2>2. sched'[c].pc # "deadpub" /\ \A d \in SchedulerID \ {c} : sched'[d] = sched[d]
    BY <1>5, PickEffect, ProceedEffect, NextItemEffect
    DEF ZSetGet, ZSetPublish, ZSetRemove, RetryPublish
  <2> QED BY <2>1, <2>2, DeadPlain
<1>6. CASE ZSetTransition(c)
  <2>1. /\ sched[c].pc = "ztransition" /\ sched[c].cur \in Task
        /\ UNCHANGED <<stream, deadStream>>
        /\ Transition(sched[c].cur, "scheduled", "pending", NoWorker)
    BY <1>6 DEF ZSetTransition, redisVars, TypeOK, SchedTypeOK
  <2>2. \A u \in Task : tasks'[u].status = "dead" <=> tasks[u].status = "dead"
    BY <2>1, TransitionRow
  <2>3. sched'[c].pc # "deadpub" /\ \A d \in SchedulerID \ {c} : sched'[d] = sched[d]
    BY <1>6, ProceedEffect DEF ZSetTransition
  <2> QED BY <2>1, <2>2, <2>3, DeadPlain DEF StreamKept
<1>7. ASSUME NEW t \in Task, RetryTransition(c, t) PROVE DeadSafe'
  <2>1. /\ sched[c].pc = "retry" /\ UNCHANGED <<stream, deadStream>>
        /\ Transition(t, "retrying", "pending", NoWorker)
    BY <1>7 DEF RetryTransition, redisVars
  <2>2. \A u \in Task : tasks'[u].status = "dead" <=> tasks[u].status = "dead"
    BY <2>1, TransitionRow
  <2>3. sched'[c].pc # "deadpub" /\ \A d \in SchedulerID \ {c} : sched'[d] = sched[d]
    BY <1>7, <2>1, PickEffect, SkipEffect DEF RetryTransition
  <2> QED BY <2>1, <2>2, <2>3, DeadPlain DEF StreamKept
<1> QED BY <1>1, <1>2, <1>3, <1>4, <1>5, <1>6, <1>7 DEF Tick

LEMMA SubmitDead ==
  ASSUME TypeOK, DeadSafe, UNCHANGED <<slot, sched, interrupted>>,
         NEW t \in Task, Submit(t)
  PROVE  DeadSafe'
<1>1. UNCHANGED deadStream /\ StreamKept
  BY PublishKeepsStream
  DEF Submit, CreateTask, PublishCreated, ScheduleCreated, PublishTask, ScheduleTask, redisVars,
      StreamKept
<1>2. \A u \in Task : tasks'[u].status = "dead" <=> tasks[u].status = "dead"
  <2>1. ASSUME NEW st \in {"scheduled", "pending"}, NEW m \in Nat, Create(t, st, m)
        PROVE  \A u \in Task : tasks'[u].status = "dead" <=> tasks[u].status = "dead"
    BY <2>1, CreateRow
  <2> QED BY <2>1, StoreAssumption DEF Submit, CreateTask, PublishCreated, ScheduleCreated
<1> QED BY <1>1, <1>2, DeadPlain

LEMMA LoopDead ==
  ASSUME TypeOK, DeadSafe, UNCHANGED <<sched, interrupted>>,
         NEW w \in WorkerID,
         \/ InspectPending(w) \/ ClaimPending(w) \/ ReadBatch(w)
         \/ ReadNothing(w) \/ SpawnHandle(w) \/ RecoveryTickElapses(w)
  PROVE  DeadSafe'
<1>1. UNCHANGED <<tasks, stream, deadStream>>
  BY DEF InspectPending, ClaimPending, ReadBatch, ReadNothing, SpawnHandle,
         RecoveryTickElapses, XClaim, XReadGroup, redisVars
<1>2. ASSUME NEW r \in Slot
      PROVE  slot'[r] = slot[r] \/ (slot'[r].pc # "deadpub" /\ slot[r].pc # "deadpub")
  <2>1. CASE SpawnHandle(w)
    BY <2>1 DEF SpawnHandle, FreeSlot, TypeOK, WorkerTypeOK, SlotTypeOK
  <2>2. CASE ~SpawnHandle(w)
    BY <2>2 DEF InspectPending, ClaimPending, ReadBatch, ReadNothing, RecoveryTickElapses
  <2> QED BY <2>1, <2>2
<1> QED BY <1>1, <1>2, DeadPlain DEF StreamKept

LEMMA WorkerFaultDead ==
  ASSUME TypeOK, DeadSafe, WorkerFault
  PROVE  DeadSafe'
<1>1. /\ UNCHANGED <<tasks, stream, deadStream, sched>>
      /\ interrupted \subseteq interrupted'
  BY DEF WorkerFault, HandleError, DeadPublishError, LoopError, ClaimReplyLost,
         ReadReplyLost, WorkerCrash, XClaim, XReadGroup, redisVars, Cut
<1>2. \A r \in Slot : slot[r].pc = "deadpub" => <<"deadletter", TaskOf(r)>> \in SlotCut(r)
  BY DEF SlotCut
<1>3. ASSUME NEW s \in Slot, HandleError(s) \/ DeadPublishError(s), Cut(SlotCut(s))
      PROVE  DeadSafe'
  <2>1. PICK pc \in {"free", "ack"} : Goto(s, pc)
    BY <1>3 DEF HandleError, DeadPublishError
  <2>2. slot[s].pc = "deadpub" => <<"deadletter", TaskOf(s)>> \in interrupted'
    BY <1>2, <1>3 DEF Cut
  <2> QED BY <1>1, <2>1, <2>2, GotoEffect, DeadPlain DEF StreamKept
<1>4. ASSUME NEW w \in WorkerID, LoopError(w) \/ ClaimReplyLost(w) \/ ReadReplyLost(w)
      PROVE  DeadSafe'
  <2>1. UNCHANGED slot
    BY <1>4 DEF LoopError, ClaimReplyLost, ReadReplyLost
  <2> QED BY <1>1, <2>1, DeadPlain DEF StreamKept
<1>5. ASSUME NEW w \in WorkerID, WorkerCrash(w), Cut(UNION {SlotCut(s) : s \in SlotsOf(w)})
      PROVE  DeadSafe'
  <2>1. ASSUME NEW r \in Slot
        PROVE  \/ slot'[r] = slot[r]
               \/ /\ slot'[r].pc # "deadpub"
                  /\ slot[r].pc = "deadpub" => <<"deadletter", TaskOf(r)>> \in interrupted'
    <3>1. CASE r[1] = w
      <4>1. slot'[r].pc = "free"
        BY <1>5, <3>1 DEF WorkerCrash, FreeSlot
      <4>2. SlotCut(r) \subseteq interrupted'
        BY <1>5, <3>1 DEF Cut, SlotsOf
      <4> QED BY <1>2, <4>1, <4>2
    <3>2. CASE r[1] # w
      BY <1>5, <3>2 DEF WorkerCrash
    <3> QED BY <3>1, <3>2
  <2> QED BY <1>1, <2>1, DeadPlain DEF StreamKept
<1> QED BY <1>3, <1>4, <1>5 DEF WorkerFault

LEMMA SchedulerFaultDead ==
  ASSUME TypeOK, DeadSafe, SchedulerFault
  PROVE  DeadSafe'
<1>1. PICK c \in SchedulerID :
        /\ SchedCallError(c) \/ (\E t \in Task : SchedItemError(c, t)) \/ SchedulerCrash(c)
        /\ Cut(SchedCut(c))
  BY DEF SchedulerFault
<1>2. UNCHANGED <<tasks, stream, deadStream, slot>>
  BY <1>1 DEF SchedulerFault, SchedCallError, SchedItemError, SchedulerCrash, redisVars,
              workerVars
<1>3. /\ interrupted \subseteq interrupted'
      /\ sched[c].pc = "deadpub" => <<"deadletter", sched[c].cur>> \in interrupted'
  BY <1>1 DEF Cut, SchedCut
<1>4. sched'[c].pc # "deadpub" /\ \A d \in SchedulerID \ {c} : sched'[d] = sched[d]
  <2>1. CASE SchedCallError(c)
    BY <2>1, NextItemEffect DEF SchedCallError
  <2>2. ASSUME NEW t \in Task, SchedItemError(c, t)
        PROVE  sched[c].pc # "deadpub" /\ Skip(c, t)
    BY <2>2, SchedulerAssumption DEF SchedItemError, TypeOK, SchedTypeOK
  <2>3. CASE SchedulerCrash(c)
    BY <2>3 DEF SchedulerCrash, SchedIdle, TypeOK, SchedTypeOK
  <2> QED BY <1>1, <2>1, <2>2, <2>3, SkipEffect
<1> QED BY <1>2, <1>3, <1>4, DeadPlain DEF StreamKept

LEMMA DeadStep ==
  ASSUME TypeOK, FailureHeldOnce, DeadSafe, [Next]_vars
  PROVE  DeadSafe'
<1>1. CASE Step
  <2>0. UNCHANGED interrupted
    BY <1>1 DEF Step, Quiet
  <2>1. ASSUME NEW t \in Task, SubmitStep(t) PROVE DeadSafe'
    BY <2>0, <2>1, SubmitDead DEF SubmitStep, workerVars
  <2>2. ASSUME NEW w \in WorkerID, LoopStep(w) \/ TickTime(w) PROVE DeadSafe'
    BY <2>0, <2>2, LoopDead DEF LoopStep, TickTime
  <2>3. ASSUME NEW s \in Slot, HandleStep(s) PROVE DeadSafe'
    BY <2>0, <2>3, HandleDead DEF HandleStep
  <2>4. ASSUME NEW c \in SchedulerID, SchedStep(c) PROVE DeadSafe'
    BY <2>0, <2>4, TickDead DEF SchedStep, workerVars
  <2>5. ASSUME NEW t \in Task, TaskTime(t) PROVE DeadSafe'
    <3>1. UNCHANGED <<stream, deadStream, slot, sched>>
      BY <2>5 DEF TaskTime, redisVars, workerVars
    <3>2. \A u \in Task : tasks'[u].status = tasks[u].status
      BY <2>5, TaskTimeRow DEF TaskTime
    <3> QED BY <2>0, <3>1, <3>2, DeadPlain DEF StreamKept
  <2>6. ASSUME (\E t \in Task : DelayTime(t)) \/ (\E e \in pel : EntryTime(e)) PROVE DeadSafe'
    <3>1. UNCHANGED <<tasks, stream, deadStream, slot, sched>>
      BY <2>6 DEF DelayTime, EntryTime, DelayPasses, EntryGoesIdle, workerVars
    <3> QED BY <2>0, <3>1, DeadPlain DEF StreamKept
  <2> QED BY <1>1, <2>1, <2>2, <2>3, <2>4, <2>5, <2>6 DEF Step, TimePasses
<1>2. CASE Fault
  <2>1. ASSUME SubmitFault \/ Retransmit PROVE DeadSafe'
    <3>1. /\ UNCHANGED <<tasks, deadStream, slot, sched>> /\ StreamKept
          /\ interrupted \subseteq interrupted'
      BY <2>1, PublishKeepsStream
      DEF SubmitFault, SubmitError, Retransmit, PublishTask, redisVars, workerVars, Cut,
          StreamKept
    <3> QED BY <3>1, DeadPlain
  <2> QED BY <1>2, <2>1, WorkerFaultDead, SchedulerFaultDead DEF Fault
<1>3. CASE UNCHANGED vars
  <2>1. UNCHANGED <<tasks, stream, deadStream, slot, sched, interrupted>>
    BY <1>3 DEF vars, redisVars, workerVars
  <2> QED BY <2>1, DeadPlain DEF StreamKept
<1> QED BY <1>1, <1>2, <1>3 DEF Next

LEMMA DeadInit ==
  ASSUME Init
  PROVE  DeadSafe
<1>1. /\ \A t \in Task : tasks[t].status = "absent" /\ deadStream[t] = 0
      /\ \A s \in Slot : slot[s].pc = "free"
      /\ \A c \in SchedulerID : sched[c].pc = "retry"
  BY DEF Init, StoreInit, AbsentRow, QueueInit, WorkerInit, FreeSlot, SchedInit, SchedIdle
<1>2. ASSUME NEW t \in Task PROVE ~Burying(t) /\ OneBurier(t)
  BY <1>1 DEF OneBurier, Burying, SlotBuries, SchedBuries, SlotAt, SchedAt
<1>3. ASSUME NEW t \in Task PROVE DeadInv(t)
  <2>1. tasks[t].status # "dead" /\ deadStream[t] \in {0, 1} /\ deadStream[t] # 1
    BY <1>1
  <2> QED BY <1>2, <2>1 DEF DeadInv
<1> QED BY <1>3 DEF DeadSafe

LEMMA DeadGoal == DeadSafe => DeadLetterOnce
<1> SUFFICES ASSUME NEW t \in Task, DeadInv(t)
             PROVE  /\ deadStream[t] <= 1
                    /\ deadStream[t] = 1 => tasks[t].status = "dead" /\ ~Burying(t)
                    /\ tasks[t].status = "dead" =>
                         deadStream[t] = 1 \/ Burying(t) \/ <<"deadletter", t>> \in interrupted
  BY DEF DeadSafe, DeadLetterOnce
<1>1. deadStream[t] = 0 \/ deadStream[t] = 1
  BY DEF DeadInv
<1>2. deadStream[t] <= 1
  BY <1>1
<1>3. ~(deadStream[t] = 0 /\ deadStream[t] = 1)
  BY <1>1
<1> QED BY <1>2, <1>3 DEF DeadInv

(***************************************************************************)
(* A task reaches the dead stream at most once, only when its row is dead, *)
(* and unless a fault cuts the burial in two it does reach it, however     *)
(* many goroutines (worker.go handleExecutionFailure) and schedulers       *)
(* (scheduler.go recoverRunningTask) race to complete its failure.         *)
(***************************************************************************)
THEOREM DeadLetterSafe == Spec => []DeadLetterOnce
<1>1. Init => DeadSafe
  BY DeadInit
<1>2. TypeOK /\ FailureHeldOnce /\ DeadSafe /\ [Next]_vars => DeadSafe'
  BY DeadStep
<1> QED BY <1>1, <1>2, DeadGoal, TypeCorrect, FailureSafe, PTL DEF Spec

-----------------------------------------------------------------------------
(***************************************************************************)
(* The counters.  Each of them is compared with a set, and a step that     *)
(* counts adds an element to the set or, of the goroutines that have a     *)
(* dead task to publish, takes one away.                                   *)
(***************************************************************************)

(* A row that was not inserted has been charged nothing. *)
UnbornRows == \A t \in Task : ~Exists(t) => tasks[t].retry_count = 0

MeterInv ==
  /\ UnbornRows
  /\ counters \in [Counter -> Nat]
  /\ counters["submitted"] <= Cardinality(Accepted)
  /\ counters["succeeded"] <= Cardinality(Having("success"))
  /\ counters["retried"] <= Cardinality(ChargedRetries)
  /\ counters["dead"] <= Cardinality(Having("dead"))
  /\ counters["failed"] + Cardinality(Buriers) <= counters["retried"] + counters["dead"]
  /\ faults = 0 =>
       /\ counters["submitted"] = Cardinality(Accepted)
       /\ counters["succeeded"] = Cardinality(Having("success"))
       /\ counters["failed"] + Cardinality(Buriers)
            = counters["retried"] + counters["dead"]

LEMMA FiniteParts ==
  /\ \A S \in SUBSET Task : IsFiniteSet(S)
  /\ \A S \in SUBSET Slot : IsFiniteSet(S)
<1>1. IsFiniteSet(Slot)
  <2>1. 1 \in Int /\ Concurrency \in Int
    BY WorkerAssumption
  <2>2. IsFiniteSet(1..Concurrency)
    BY <2>1, FS_Interval
  <2> QED BY <2>2, MeteredAssumption, FS_Product DEF Slot
<1> QED BY <1>1, MeteredAssumption, FS_Subset

LEMMA FiniteRetries ==
  ASSUME NEW f \in [Task -> Nat]
  PROVE  IsFiniteSet(UNION {{t} \X (1..f[t]) : t \in Task})
<1> DEFINE R == {{t} \X (1..f[t]) : t \in Task}
           g == [t \in Task |-> {t} \X (1..f[t])]
<1>1. ASSUME NEW t \in Task PROVE IsFiniteSet({t} \X (1..f[t]))
  <2>1. 1 \in Int /\ f[t] \in Int
    OBVIOUS
  <2>2. IsFiniteSet(1..f[t]) /\ IsFiniteSet({t})
    BY <2>1, FS_Interval, FS_Singleton
  <2> QED BY <2>2, FS_Product
<1>2. \A T \in R : IsFiniteSet(T)
  BY <1>1
<1>3. IsFiniteSet(R)
  <2>1. \A t \in Task : g[t] = {t} \X (1..f[t])
    OBVIOUS
  <2>2. g \in [Task -> R]
    OBVIOUS
  <2>3. \A T \in R : \E t \in Task : g[t] = T
    BY <2>1, Zenon
  <2> HIDE DEF g, R
  <2>4. g \in Surjection(Task, R)
    BY <2>2, <2>3 DEF Surjection
  <2> QED BY <2>4, MeteredAssumption, FS_Surjection
<1> HIDE DEF R
<1>4. IsFiniteSet(UNION R)
  BY <1>2, <1>3, FS_UNION
<1> QED BY <1>4 DEF R

LEMMA MeteredSets ==
  ASSUME TypeOK, TypeOK'
  PROVE  /\ IsFiniteSet(Accepted) /\ IsFiniteSet(Accepted')
         /\ IsFiniteSet(ChargedRetries) /\ IsFiniteSet(ChargedRetries')
         /\ IsFiniteSet(Buriers) /\ IsFiniteSet(Buriers')
         /\ \A st : IsFiniteSet(Having(st)) /\ IsFiniteSet(Having(st)')
<1>1. ASSUME NEW st PROVE IsFiniteSet(Having(st)) /\ IsFiniteSet(Having(st)')
  BY FiniteParts DEF Having
<1>2. /\ IsFiniteSet(Accepted) /\ IsFiniteSet(Accepted')
      /\ IsFiniteSet(Buriers) /\ IsFiniteSet(Buriers')
  BY FiniteParts DEF Accepted, Buriers
<1>3. IsFiniteSet(ChargedRetries)
  <2> DEFINE f == [t \in Task |-> tasks[t].retry_count]
  <2>1. f \in [Task -> Nat]
    BY DEF TypeOK, StoreTypeOK, Row
  <2>2. ChargedRetries = UNION {{t} \X (1..f[t]) : t \in Task}
    BY Zenon DEF ChargedRetries
  <2> HIDE DEF f
  <2> QED BY <2>1, <2>2, FiniteRetries
<1>4. IsFiniteSet(ChargedRetries')
  <2> DEFINE f == [t \in Task |-> tasks'[t].retry_count]
  <2>1. f \in [Task -> Nat]
    BY DEF TypeOK, StoreTypeOK, Row
  <2>2. ChargedRetries' = UNION {{t} \X (1..f[t]) : t \in Task}
    BY Zenon DEF ChargedRetries
  <2> HIDE DEF f
  <2> QED BY <2>1, <2>2, FiniteRetries
<1> QED BY <1>1, <1>2, <1>3, <1>4

(* What a set of finite size gains or loses. *)
LEMMA GrowsBy ==
  ASSUME NEW S, NEW T, IsFiniteSet(S), IsFiniteSet(T)
  PROVE  /\ Cardinality(S) \in Nat /\ Cardinality(T) \in Nat
         /\ S \subseteq T => Cardinality(S) <= Cardinality(T)
         /\ \A x : S \subseteq T /\ x \in T \ S => Cardinality(S) + 1 <= Cardinality(T)
         /\ \A x : x \notin S /\ T = S \cup {x} => Cardinality(T) = Cardinality(S) + 1
<1>1. Cardinality(S) \in Nat /\ Cardinality(T) \in Nat
  BY FS_CardinalityType
<1>2. ASSUME S \subseteq T PROVE Cardinality(S) <= Cardinality(T)
  BY <1>2, FS_Subset
<1>3. ASSUME NEW x, x \notin S, T = S \cup {x} PROVE Cardinality(T) = Cardinality(S) + 1
  BY <1>3, FS_AddElement
<1>4. ASSUME NEW x, S \subseteq T, x \in T \ S PROVE Cardinality(S) + 1 <= Cardinality(T)
  <2>1. S # T /\ Cardinality(S) <= Cardinality(T) /\ Cardinality(T) # Cardinality(S)
    BY <1>4, FS_Subset
  <2> QED BY <1>1, <2>1
<1> QED BY <1>1, <1>2, <1>3, <1>4

(* The sizes of the sets, before and after a step. *)
LEMMA Sizes ==
  ASSUME TypeOK, TypeOK'
  PROVE  /\ Cardinality(Accepted) \in Nat /\ Cardinality(Accepted') \in Nat
         /\ Cardinality(Having("success")) \in Nat /\ Cardinality(Having("success")') \in Nat
         /\ Cardinality(ChargedRetries) \in Nat /\ Cardinality(ChargedRetries') \in Nat
         /\ Cardinality(Having("dead")) \in Nat /\ Cardinality(Having("dead")') \in Nat
         /\ Cardinality(Buriers) \in Nat /\ Cardinality(Buriers') \in Nat
BY MeteredSets, FS_CardinalityType

Counts(cs, c) == IF c \in cs THEN 1 ELSE 0

(* How the sets must change when cs is counted. *)
Balanced(cs) ==
  /\ Cardinality(Accepted) + Counts(cs, "submitted") <= Cardinality(Accepted')
  /\ Cardinality(Having("success")) + Counts(cs, "succeeded")
       <= Cardinality(Having("success")')
  /\ Cardinality(ChargedRetries) + Counts(cs, "retried") <= Cardinality(ChargedRetries')
  /\ Cardinality(Having("dead")) + Counts(cs, "dead") <= Cardinality(Having("dead")')
  /\ Counts(cs, "failed") + Cardinality(Buriers')
       <= Cardinality(Buriers) + Counts(cs, "retried") + Counts(cs, "dead")
  /\ faults' = 0 =>
       /\ faults = 0
       /\ Cardinality(Accepted) + Counts(cs, "submitted") = Cardinality(Accepted')
       /\ Cardinality(Having("success")) + Counts(cs, "succeeded")
            = Cardinality(Having("success")')
       /\ Counts(cs, "failed") + Cardinality(Buriers')
            = Cardinality(Buriers) + Counts(cs, "retried") + Counts(cs, "dead")

LEMMA BalancedSums ==
  ASSUME TypeOK, TypeOK', MeterInv, NEW cs, Add(cs), Balanced(cs), UnbornRows'
  PROVE  MeterInv'
<1>1. \A c \in Counter : Counts(cs, c) \in {0, 1} /\ counters[c] \in Nat
                         /\ counters'[c] = counters[c] + Counts(cs, c)
  BY DEF MeterInv, Add, Counts
<1>2. counters' \in [Counter -> Nat]
  BY <1>1 DEF Add, Counts
<1>3. {"submitted", "succeeded", "failed", "retried", "dead"} \subseteq Counter
  BY DEF Counter
<1>4. counters'["submitted"] <= Cardinality(Accepted')
  BY <1>1, <1>3, Sizes DEF MeterInv, Balanced
<1>5. counters'["succeeded"] <= Cardinality(Having("success")')
  BY <1>1, <1>3, Sizes DEF MeterInv, Balanced
<1>6. counters'["retried"] <= Cardinality(ChargedRetries')
  BY <1>1, <1>3, Sizes DEF MeterInv, Balanced
<1>7. counters'["dead"] <= Cardinality(Having("dead")')
  BY <1>1, <1>3, Sizes DEF MeterInv, Balanced
<1>8. counters'["failed"] + Cardinality(Buriers') <= counters'["retried"] + counters'["dead"]
  BY <1>1, <1>3, Sizes DEF MeterInv, Balanced
<1>9. ASSUME faults' = 0
       PROVE  /\ counters'["submitted"] = Cardinality(Accepted')
              /\ counters'["succeeded"] = Cardinality(Having("success")')
              /\ counters'["failed"] + Cardinality(Buriers')
                   = counters'["retried"] + counters'["dead"]
  BY <1>1, <1>3, <1>9, Sizes DEF MeterInv, Balanced
<1> QED BY <1>2, <1>4, <1>5, <1>6, <1>7, <1>8, <1>9 DEF MeterInv

(* Along the life of a task, what has been counted stays. *)
LEMMA LivesGrow ==
  ASSUME TypeOK, TypeOK', UnbornRows, Lives
  PROVE  /\ Having("success") \subseteq Having("success")'
         /\ Having("dead") \subseteq Having("dead")'
         /\ ChargedRetries \subseteq ChargedRetries'
         /\ \A t \in Task : Exists(t) => Exists(t)'
         /\ UnbornRows'
<1>1. ASSUME NEW t \in Task
      PROVE  /\ tasks[t].retry_count <= tasks'[t].retry_count
             /\ tasks[t].status \in {"success", "dead"} => tasks'[t].status = tasks[t].status
             /\ Exists(t) => Exists(t)'
             /\ ~Exists(t)' => tasks'[t].retry_count = 0
  <2>0. tasks[t].retry_count \in Nat /\ tasks'[t].retry_count \in Nat
    BY DEF TypeOK, StoreTypeOK, Row
  <2>1. /\ Life[t].status = tasks[t].status /\ Life[t].retries = tasks[t].retry_count
        /\ Life'[t].status = tasks'[t].status /\ Life'[t].retries = tasks'[t].retry_count
    BY DEF Life
  <2>2. CASE UNCHANGED Life
    BY <2>0, <2>1, <2>2 DEF Exists, UnbornRows
  <2>3. CASE Lifecycle!LifeNext
    <3>1. PICK u \in Task : \/ Lifecycle!Submitted(u) \/ Lifecycle!Released(u)
                            \/ Lifecycle!Claimed(u) \/ Lifecycle!Ended(u)
                            \/ Lifecycle!Charged(u) \/ Lifecycle!Buried(u)
      BY <2>3 DEF Lifecycle!LifeNext
    <3>2. Life = [v \in Task |-> [status |-> tasks[v].status,
                                  retries |-> tasks[v].retry_count,
                                  budget |-> tasks[v].max_retries]]
      BY DEF Life
    <3>3. Life' = [v \in Task |-> [status |-> tasks'[v].status,
                                   retries |-> tasks'[v].retry_count,
                                   budget |-> tasks'[v].max_retries]]
      BY DEF Life
    <3>4. CASE Lifecycle!Submitted(u)
      <4>1. PICK b \in MaxRetriesOf, st \in {"scheduled", "pending"} :
              /\ Life[u].status = "absent"
              /\ Life' = [Life EXCEPT ![u] = [status |-> st, retries |-> 0, budget |-> b]]
        BY <3>2, <3>3, <3>4 DEF Lifecycle!Submitted
      <4>2. CASE t = u
        <5>1. Life'[t].status = st /\ Life'[t].retries = 0
          BY <3>2, <4>1, <4>2
        <5>2. tasks[t].status = "absent" /\ tasks'[t].status = st /\ st # "absent"
          BY <2>1, <4>1, <4>2, <5>1
        <5>3. tasks[t].retry_count = 0 /\ tasks'[t].retry_count = 0
          BY <2>1, <5>1, <5>2 DEF Exists, UnbornRows
        <5> QED BY <5>2, <5>3 DEF Exists
      <4>3. CASE t # u
        BY <2>0, <2>1, <3>2, <4>1, <4>3 DEF Exists, UnbornRows
      <4> QED BY <4>2, <4>3
    <3>5. ASSUME NEW from, NEW to, NEW n \in {0, 1}, Lifecycle!Move(u, from, to, n),
                 from \notin {"success", "dead"}, to # "absent"
          PROVE  /\ tasks[t].retry_count <= tasks'[t].retry_count
                 /\ tasks[t].status \in {"success", "dead"} =>
                      tasks'[t].status = tasks[t].status
                 /\ Exists(t) => Exists(t)'
                 /\ ~Exists(t)' => tasks'[t].retry_count = 0
      <4>1. /\ Life[u].status = from
            /\ Life' = [Life EXCEPT ![u] = [status |-> to, retries |-> Life[u].retries + n,
                                            budget |-> Life[u].budget]]
        BY <3>2, <3>3, <3>5 DEF Lifecycle!Move
      <4>2. CASE t = u
        BY <2>0, <2>1, <3>2, <3>5, <4>1, <4>2 DEF Exists, UnbornRows
      <4>3. CASE t # u
        BY <2>0, <2>1, <3>2, <4>1, <4>3 DEF Exists, UnbornRows
      <4> QED BY <4>2, <4>3
    <3> QED BY <3>1, <3>4, <3>5 DEF Lifecycle!Released, Lifecycle!Claimed, Lifecycle!Ended,
                                   Lifecycle!Charged, Lifecycle!Buried
  <2> QED BY <2>2, <2>3 DEF Lives
<1>2. \A t \in Task : tasks[t].retry_count \in Nat /\ tasks'[t].retry_count \in Nat
  BY DEF TypeOK, StoreTypeOK, Row
<1>3. \A t \in Task : 1..tasks[t].retry_count \subseteq 1..tasks'[t].retry_count
  BY <1>1, <1>2
<1>4. ChargedRetries \subseteq ChargedRetries'
  <2> SUFFICES ASSUME NEW t \in Task, NEW p \in {t} \X (1..tasks[t].retry_count)
               PROVE  p \in ChargedRetries'
    BY Zenon DEF ChargedRetries
  <2>1. p \in {t} \X (1..tasks'[t].retry_count)
    BY <1>3
  <2> QED BY <2>1, Zenon DEF ChargedRetries
<1> QED BY <1>1, <1>4 DEF Having, UnbornRows

(* No row comes to exist, and none to be successful. *)
Calm == \A t \in Task : /\ tasks'[t].status = "success" <=> tasks[t].status = "success"
                        /\ Exists(t)' <=> Exists(t)

LEMMA CalmSets ==
  ASSUME Calm, UNCHANGED req
  PROVE  Accepted' = Accepted /\ Having("success")' = Having("success")
BY DEF Calm, Accepted, Having

LEMMA SizesGrow ==
  ASSUME TypeOK, TypeOK', UnbornRows, Lives
  PROVE  /\ Cardinality(Having("success")) <= Cardinality(Having("success")')
         /\ Cardinality(ChargedRetries) <= Cardinality(ChargedRetries')
         /\ Cardinality(Having("dead")) <= Cardinality(Having("dead")')
BY LivesGrow, MeteredSets, GrowsBy

(* A step that counts nothing. *)
LEMMA NothingCounted ==
  ASSUME TypeOK, TypeOK', MeterInv, Lives, UNCHANGED faults,
         Accepted' = Accepted, Having("success")' = Having("success"), Buriers' = Buriers,
         Add({}) \/ UNCHANGED counters
  PROVE  MeterInv'
<1>1. \A c : Counts({}, c) = 0
  BY DEF Counts
<1>2. Balanced({}) /\ UnbornRows'
  BY <1>1, Sizes, SizesGrow, LivesGrow DEF MeterInv, Balanced
<1>3. Add({})
  <2>1. CASE UNCHANGED counters
    BY <2>1 DEF Add, MeterInv
  <2> QED BY <2>1
<1> QED BY <1>2, <1>3, BalancedSums

LEMMA CalmStatements ==
  ASSUME TypeOK, NEW t \in Task
  PROVE  /\ \A from, to, w : Transition(t, from, to, w) =>
              Calm \/ from \in {"absent", "success"} \/ to \in {"absent", "success"}
         /\ MarkFailed(t) => Calm
         /\ \A d \in FailureDecision : CompleteFailure(t, d) => Calm
         /\ RunExpires(t) \/ RetryComesDue(t) => Calm
<1> USE DEF Calm, Exists, Hits, TypeOK, StoreTypeOK, Row
<1>1. ASSUME NEW from, NEW to, NEW w, Transition(t, from, to, w),
             from \notin {"absent", "success"}, to \notin {"absent", "success"}
      PROVE  Calm
  BY <1>1 DEF Transition, MovedRow
<1>2. ASSUME MarkFailed(t) PROVE Calm
  BY <1>2 DEF MarkFailed
<1>3. ASSUME NEW d \in FailureDecision, CompleteFailure(t, d) PROVE Calm
  BY <1>3 DEF CompleteFailure, FailureDecision
<1>4. ASSUME RunExpires(t) \/ RetryComesDue(t) PROVE Calm
  BY <1>4 DEF RunExpires, RetryComesDue
<1> QED BY <1>1, <1>2, <1>3, <1>4


LEMMA SubmitMeter ==
  ASSUME TypeOK, TypeOK', ExistInv, MeterInv, Lives, UNCHANGED faults,
         NEW t \in Task, MeteredSubmit(t)
  PROVE  MeterInv'
<1>1. Buriers' = Buriers
  BY DEF MeteredSubmit, workerVars, Buriers
<1>2. ASSUME NEW delayed \in BOOLEAN, NEW m \in MaxRetriesOf, CreateTask(t, delayed, m),
             Add({})
      PROVE  MeterInv'
  <2>1. PICK st \in {"scheduled", "pending"} : Create(t, st, m)
    BY <1>2 DEF CreateTask
  <2>2. /\ tasks[t].status = "absent" /\ tasks'[t].status = st
        /\ \A u \in Task \ {t} : tasks'[u] = tasks[u]
    BY <2>1, CreateRow, StoreAssumption
  <2>3. req'[t] # "none" /\ \A u \in Task \ {t} : req'[u] = req[u]
    BY <1>2 DEF CreateTask, TypeOK, ReqTypeOK
  <2>4. Accepted' = Accepted /\ Having("success")' = Having("success")
    BY <2>2, <2>3 DEF Accepted, Having, Exists
  <2> QED BY <1>1, <1>2, <2>4, NothingCounted
<1>3. ASSUME PublishCreated(t) \/ ScheduleCreated(t), Add({"submitted"}) PROVE MeterInv'
  <2>1. /\ UNCHANGED tasks /\ req[t] # "none" /\ req'[t] = "none"
        /\ \A u \in Task \ {t} : req'[u] = req[u]
    BY <1>3 DEF PublishCreated, ScheduleCreated, TypeOK, ReqTypeOK
  <2>2. Accepted' = Accepted \cup {t} /\ t \notin Accepted
    BY <2>1 DEF ExistInv, Accepted, Exists
  <2>3. Having("success")' = Having("success")
    BY <2>1 DEF Having
  <2>4. Cardinality(Accepted') = Cardinality(Accepted) + 1
    BY <2>2, MeteredSets, GrowsBy
  <2>5. /\ Counts({"submitted"}, "submitted") = 1 /\ Counts({"submitted"}, "succeeded") = 0
        /\ Counts({"submitted"}, "retried") = 0 /\ Counts({"submitted"}, "dead") = 0
        /\ Counts({"submitted"}, "failed") = 0
    BY DEF Counts
  <2>6. Balanced({"submitted"}) /\ UnbornRows'
    BY <1>1, <2>3, <2>4, <2>5, Sizes, SizesGrow, LivesGrow DEF MeterInv, Balanced
  <2> QED BY <1>3, <2>6, BalancedSums
<1> QED BY <1>2, <1>3 DEF MeteredSubmit

LEMMA SucceedMeter ==
  ASSUME TypeOK, TypeOK', MeterInv, Lives, UNCHANGED <<req, faults>>,
         NEW s \in Slot, MeteredSucceed(s)
  PROVE  MeterInv'
<1>1. slot[s].pc = "exec" /\ Transition(TaskOf(s), "running", "success", s[1])
  BY DEF MeteredSucceed, SucceedTask
<1>2. PICK t \in Task : t = TaskOf(s)
  BY <1>1, TaskOfType DEF TypeOK, WorkerTypeOK
<1>3. Buriers' = Buriers
  <2>1. PICK pc \in {"ack", "free"} : Goto(s, pc)
    BY DEF MeteredSucceed, SucceedTask
  <2> QED BY <1>1, <2>1, GotoEffect DEF Buriers
<1>4. /\ \A u \in Task \ {t} : tasks'[u] = tasks[u]
      /\ ~Hits(t, "running") => tasks' = tasks
      /\ Hits(t, "running") => tasks[t].status = "running" /\ tasks'[t].status = "success"
  BY <1>1, <1>2, TransitionRow
<1>5. Accepted' = Accepted
  BY <1>4 DEF Accepted, Exists
<1>6. CASE ~Hits(t, "running")
  <2>1. Add({}) /\ Having("success")' = Having("success")
    BY <1>2, <1>4, <1>6 DEF MeteredSucceed, Having
  <2> QED BY <1>3, <1>5, <2>1, NothingCounted
<1>7. CASE Hits(t, "running")
  <2>1. Add({"succeeded"})
    BY <1>2, <1>7 DEF MeteredSucceed
  <2>2. Having("success")' = Having("success") \cup {t} /\ t \notin Having("success")
    BY <1>4, <1>7 DEF Having
  <2>3. Cardinality(Having("success")') = Cardinality(Having("success")) + 1
    BY <2>2, MeteredSets, GrowsBy
  <2>4. /\ Counts({"succeeded"}, "submitted") = 0 /\ Counts({"succeeded"}, "succeeded") = 1
        /\ Counts({"succeeded"}, "retried") = 0 /\ Counts({"succeeded"}, "dead") = 0
        /\ Counts({"succeeded"}, "failed") = 0
    BY DEF Counts
  <2>5. Balanced({"succeeded"}) /\ UnbornRows'
    BY <1>3, <1>5, <2>3, <2>4, Sizes, SizesGrow, LivesGrow DEF MeterInv, Balanced
  <2> QED BY <2>1, <2>5, BalancedSums
<1> QED BY <1>6, <1>7

(* The decision was taken from the row as it still is, so a retry is one   *)
(* retry more.                                                             *)
LEMMA FinishMeter ==
  ASSUME TypeOK, TypeOK', FailureHeldOnce, MeterInv, Lives, UNCHANGED <<req, faults>>,
         NEW s \in Slot, MeteredFinish(s)
  PROVE  MeterInv'
<1>1. slot[s].pc = "complete" /\ CompleteFailure(TaskOf(s), slot[s].decision)
  BY DEF MeteredFinish, FinishFailure
<1>2. PICK t \in Task : t = TaskOf(s)
  BY <1>1, TaskOfType DEF TypeOK, WorkerTypeOK
<1>3. PICK d \in FailureDecision : d = slot[s].decision
  BY <1>1 DEF TypeOK, WorkerTypeOK, SlotTypeOK
<1>4. tasks[t].status = "failed" /\ FreshDecision(d, tasks[t])
  BY <1>1, <1>2, <1>3 DEF FailureHeldOnce, SlotFailureHeld
<1>5. /\ \A u \in Task \ {t} : tasks'[u] = tasks[u]
      /\ Hits(t, "failed") /\ tasks'[t].status = d.status
      /\ d.status \in {"retrying", "dead"}
  BY <1>1, <1>2, <1>3, <1>4, CompleteFailureRow
<1>6. Accepted' = Accepted /\ Having("success")' = Having("success")
  BY <1>4, <1>5 DEF Accepted, Having, Exists
<1>7. CASE d.status = "dead"
  <2>1. Add({"dead"}) /\ Goto(s, "deadpub")
    BY <1>2, <1>3, <1>5, <1>7 DEF MeteredFinish, FinishFailure
  <2>2. Buriers' = Buriers \cup {s} /\ s \notin Buriers
    BY <1>1, <2>1, GotoEffect DEF Buriers
  <2>3. Having("dead")' = Having("dead") \cup {t} /\ t \notin Having("dead")
    BY <1>4, <1>5, <1>7 DEF Having
  <2>4. /\ Cardinality(Buriers') = Cardinality(Buriers) + 1
        /\ Cardinality(Having("dead")') = Cardinality(Having("dead")) + 1
    BY <2>2, <2>3, MeteredSets, GrowsBy
  <2>5. /\ Counts({"dead"}, "submitted") = 0 /\ Counts({"dead"}, "succeeded") = 0
        /\ Counts({"dead"}, "retried") = 0 /\ Counts({"dead"}, "dead") = 1
        /\ Counts({"dead"}, "failed") = 0
    BY DEF Counts
  <2>6. Balanced({"dead"}) /\ UnbornRows'
    BY <1>6, <2>4, <2>5, Sizes, SizesGrow, LivesGrow DEF MeterInv, Balanced
  <2> QED BY <2>1, <2>6, BalancedSums
<1>8. CASE d.status # "dead"
  <2> DEFINE cs == {"retried", "failed"}
  <2>1. Add(cs) /\ Goto(s, "ack")
    BY <1>2, <1>3, <1>5, <1>8 DEF MeteredFinish, FinishFailure
  <2>2. Buriers' = Buriers
    BY <1>1, <2>1, GotoEffect DEF Buriers
  <2>3. /\ tasks[t].retry_count \in Nat
        /\ tasks'[t].retry_count = tasks[t].retry_count + 1
    <3>1. d.retry_count = tasks[t].retry_count + 1
      BY <1>4, <1>8 DEF FreshDecision, DecideFailure, NonRetryableDecision
    <3> QED BY <1>1, <1>2, <1>3, <1>5, <3>1 DEF CompleteFailure, TypeOK, StoreTypeOK, Row
  <2>4. <<t, tasks'[t].retry_count>> \in ChargedRetries' \ ChargedRetries
    <3>1. tasks'[t].retry_count \in 1..tasks'[t].retry_count
      BY <2>3
    <3>2. tasks'[t].retry_count \notin 1..tasks[t].retry_count
      BY <2>3
    <3> QED BY <3>1, <3>2 DEF ChargedRetries
  <2>5. Cardinality(ChargedRetries) + 1 <= Cardinality(ChargedRetries')
    BY <2>4, LivesGrow, MeteredSets, GrowsBy DEF MeterInv
  <2>6. /\ Counts(cs, "submitted") = 0 /\ Counts(cs, "succeeded") = 0
        /\ Counts(cs, "retried") = 1 /\ Counts(cs, "dead") = 0
        /\ Counts(cs, "failed") = 1
    BY DEF Counts
  <2> HIDE DEF cs
  <2>7. Balanced(cs) /\ UnbornRows'
    BY <1>6, <2>2, <2>5, <2>6, Sizes, SizesGrow, LivesGrow DEF MeterInv, Balanced
  <2> QED BY <2>1, <2>7, BalancedSums
<1> QED BY <1>7, <1>8

LEMMA SendDeadMeter ==
  ASSUME TypeOK, TypeOK', MeterInv, Lives, UNCHANGED <<req, faults>>,
         NEW s \in Slot, SendDead(s), Add({"failed"})
  PROVE  MeterInv'
<1>1. UNCHANGED tasks /\ slot[s].pc = "deadpub" /\ Goto(s, "ack")
  BY DEF SendDead
<1>2. Buriers = Buriers' \cup {s} /\ s \notin Buriers'
  BY <1>1, GotoEffect DEF Buriers
<1>3. Cardinality(Buriers) = Cardinality(Buriers') + 1
  BY <1>2, MeteredSets, GrowsBy
<1>4. Accepted' = Accepted /\ Having("success")' = Having("success")
  BY <1>1 DEF Accepted, Having, Exists
<1>5. /\ Counts({"failed"}, "submitted") = 0 /\ Counts({"failed"}, "succeeded") = 0
      /\ Counts({"failed"}, "retried") = 0 /\ Counts({"failed"}, "dead") = 0
      /\ Counts({"failed"}, "failed") = 1
  BY DEF Counts
<1>6. Balanced({"failed"}) /\ UnbornRows'
  BY <1>3, <1>4, <1>5, Sizes, SizesGrow, LivesGrow DEF MeterInv, Balanced
<1> QED BY <1>6, BalancedSums


LEMMA HandleMeter ==
  ASSUME TypeOK, TypeOK', FailureHeldOnce, MeterInv, Lives, UNCHANGED faults,
         NEW s \in Slot, MeteredHandle(s)
  PROVE  MeterInv'
<1>0. UNCHANGED req /\ (slot[s].pc # "free" => TaskOf(s) \in Task)
  BY TaskOfType DEF MeteredHandle, TypeOK, WorkerTypeOK
<1>1. ASSUME GetTask(s) \/ AckMessage(s) \/ ClaimTask(s)
      PROVE  Calm /\ Buriers' = Buriers
  <2>1. slot[s].pc \in {"get", "ack", "claim"}
    BY <1>1 DEF GetTask, AckMessage, ClaimTask
  <2>2. PICK pc : Goto(s, pc) /\ pc # "deadpub"
    BY <1>1 DEF GetTask, AckMessage, ClaimTask
  <2>3. Buriers' = Buriers
    BY <2>1, <2>2, GotoEffect DEF Buriers
  <2>4. CASE ClaimTask(s)
    <3>1. TaskOf(s) \in Task /\ Transition(TaskOf(s), "pending", "running", s[1])
      BY <1>0, <2>4 DEF ClaimTask
    <3>2. Calm
      BY <3>1, CalmStatements
    <3> QED BY <2>3, <3>2
  <2>5. CASE GetTask(s) \/ AckMessage(s)
    BY <2>3, <2>5 DEF GetTask, AckMessage, Calm, Exists
  <2> QED BY <1>1, <2>3, <2>4, <2>5
<1>2. ASSUME NEW nr \in BOOLEAN, FailTask(s, nr) PROVE Calm /\ Buriers' = Buriers
  <2>1. slot[s].pc = "exec" /\ MarkFailed(TaskOf(s))
    BY <1>2 DEF FailTask
  <2>2. /\ \A r \in Slot \ {s} : slot'[r] = slot[r]
        /\ slot'[s].pc \in {"free", "complete"}
    BY <1>2 DEF FailTask, FreeSlot, TypeOK, WorkerTypeOK, SlotTypeOK
  <2> QED BY <1>0, <2>1, <2>2, CalmStatements DEF Buriers
<1> QED BY <1>0, <1>1, <1>2, CalmSets, NothingCounted, SucceedMeter, FinishMeter,
           SendDeadMeter DEF MeteredHandle

LEMMA TickCalm ==
  ASSUME TypeOK, NEW c \in SchedulerID, Tick(c)
  PROVE  Calm
<1>1. CASE UNCHANGED tasks
  BY <1>1 DEF Calm, Exists
<1>2. ASSUME NEW t \in Task, RecoverMarkFailed(c, t) PROVE Calm
  BY <1>2, CalmStatements DEF RecoverMarkFailed
<1>3. CASE RecoverCompleteFailure(c)
  <2>1. sched[c].cur \in Task /\ sched[c].decision \in FailureDecision
    BY <1>3 DEF RecoverCompleteFailure, TypeOK, SchedTypeOK
  <2> QED BY <1>3, <2>1, CalmStatements DEF RecoverCompleteFailure
<1>4. CASE ZSetTransition(c)
  <2>1. sched[c].cur \in Task
    BY <1>4 DEF ZSetTransition, TypeOK, SchedTypeOK
  <2> QED BY <1>4, <2>1, CalmStatements DEF ZSetTransition
<1>5. ASSUME NEW t \in Task, RetryTransition(c, t) PROVE Calm
  BY <1>5, CalmStatements DEF RetryTransition
<1> QED BY <1>1, <1>2, <1>3, <1>4, <1>5
        DEF Tick, ScanExpiredRunning, RecoverPublishDead, ScanDueTaskIDs, ZSetGet,
            ZSetPublish, ZSetRemove, ScanDueRetrying, RetryPublish

(* The loops, the schedulers and the clock count nothing. *)
LEMMA OthersMeter ==
  ASSUME TypeOK, TypeOK', MeterInv, Lives, UNCHANGED <<faults, counters>>,
         \/ \E w \in WorkerID : LoopStep(w)
         \/ \E c \in SchedulerID : SchedStep(c)
         \/ TimePasses
  PROVE  MeterInv'
<1>1. ASSUME NEW w \in WorkerID, LoopStep(w) \/ TickTime(w)
      PROVE  Calm /\ UNCHANGED req /\ Buriers' = Buriers
  <2>1. UNCHANGED tasks /\ UNCHANGED req
    BY <1>1 DEF LoopStep, TickTime, InspectPending, ClaimPending, ReadBatch, ReadNothing,
                SpawnHandle, RecoveryTickElapses
  <2>2. \A r \in Slot : slot'[r].pc = "deadpub" <=> slot[r].pc = "deadpub"
    <3>1. CASE SpawnHandle(w)
      BY <3>1 DEF SpawnHandle, FreeSlot, TypeOK, WorkerTypeOK, SlotTypeOK
    <3>2. CASE ~SpawnHandle(w)
      BY <1>1, <3>2 DEF LoopStep, TickTime, InspectPending, ClaimPending, ReadBatch,
                        ReadNothing, RecoveryTickElapses
    <3> QED BY <3>1, <3>2
  <2> QED BY <2>1, <2>2 DEF Calm, Exists, Buriers
<1>2. ASSUME NEW c \in SchedulerID, SchedStep(c)
      PROVE  Calm /\ UNCHANGED req /\ Buriers' = Buriers
  BY <1>2, TickCalm DEF SchedStep, workerVars, Buriers
<1>3. ASSUME NEW t \in Task, TaskTime(t)
      PROVE  Calm /\ UNCHANGED req /\ Buriers' = Buriers
  BY <1>3, CalmStatements DEF TaskTime, workerVars, Buriers
<1>4. ASSUME (\E t \in Task : DelayTime(t)) \/ (\E e \in pel : EntryTime(e))
      PROVE  Calm /\ UNCHANGED req /\ Buriers' = Buriers
  BY <1>4 DEF DelayTime, EntryTime, workerVars, Buriers, Calm, Exists
<1>5. Calm /\ UNCHANGED req /\ Buriers' = Buriers
  BY <1>1, <1>2, <1>3, <1>4 DEF TimePasses
<1> QED BY <1>5, CalmSets, NothingCounted

(* A fault takes goroutines away and counts no more than one of them. *)
LEMMA FaultMeter ==
  ASSUME TypeOK, TypeOK', ExistInv, MeterInv, Lives, MeteredFault
  PROVE  MeterInv'
<1>1. Fault /\ faults' # 0
  BY DEF MeteredFault, Fault, TypeOK
<1>2. UNCHANGED tasks
  BY <1>1 DEF Fault, WorkerFault, HandleError, DeadPublishError, LoopError, ClaimReplyLost,
              ReadReplyLost, WorkerCrash, SchedulerFault, SchedCallError, SchedItemError,
              SchedulerCrash, SubmitFault, SubmitError, Retransmit
<1>3. \A t \in Task : req'[t] = req[t] \/ (req[t] # "none" /\ req'[t] = "none")
  BY <1>1 DEF Fault, WorkerFault, SchedulerFault, SubmitFault, SubmitError, Retransmit,
              TypeOK, ReqTypeOK
<1>4. Accepted \subseteq Accepted' /\ Having("success")' = Having("success")
  BY <1>2, <1>3 DEF Accepted, Having, Exists
<1>5. Buriers' \subseteq Buriers
  <2>1. ASSUME WorkerFault, NEW r \in Slot
        PROVE  slot'[r] = slot[r] \/ slot'[r].pc # "deadpub"
    <3>1. ASSUME NEW s \in Slot, HandleError(s) \/ DeadPublishError(s)
          PROVE  slot'[r] = slot[r] \/ slot'[r].pc # "deadpub"
      <4>1. PICK pc \in {"free", "ack"} : Goto(s, pc)
        BY <3>1 DEF HandleError, DeadPublishError
      <4> QED BY <4>1, GotoEffect
    <3>2. ASSUME NEW w \in WorkerID, WorkerCrash(w)
          PROVE  slot'[r] = slot[r] \/ slot'[r].pc # "deadpub"
      BY <3>2 DEF WorkerCrash, FreeSlot
    <3> QED BY <2>1, <3>1, <3>2 DEF WorkerFault, LoopError, ClaimReplyLost, ReadReplyLost
  <2> QED BY <1>1, <2>1 DEF Fault, SchedulerFault, SubmitFault, Retransmit, workerVars, Buriers
<1>6. /\ Cardinality(Accepted) <= Cardinality(Accepted')
      /\ Cardinality(Buriers') <= Cardinality(Buriers)
  BY <1>4, <1>5, MeteredSets, GrowsBy
<1>7. CASE \E s \in Slot : slot[s].pc = "deadpub" /\ slot'[s].pc = "ack"
  <2>1. PICK s \in Slot : s \in Buriers \ Buriers'
    BY <1>7 DEF Buriers
  <2>2. Cardinality(Buriers') + 1 <= Cardinality(Buriers)
    BY <1>5, <2>1, MeteredSets, GrowsBy
  <2>3. /\ Counts({"failed"}, "submitted") = 0 /\ Counts({"failed"}, "succeeded") = 0
        /\ Counts({"failed"}, "retried") = 0 /\ Counts({"failed"}, "dead") = 0
        /\ Counts({"failed"}, "failed") = 1
    BY DEF Counts
  <2>4. Balanced({"failed"}) /\ UnbornRows'
    BY <1>1, <1>4, <1>6, <2>2, <2>3, Sizes, SizesGrow, LivesGrow DEF MeterInv, Balanced
  <2> QED BY <1>7, <2>4, BalancedSums DEF MeteredFault
<1>8. CASE ~\E s \in Slot : slot[s].pc = "deadpub" /\ slot'[s].pc = "ack"
  <2>1. \A c : Counts({}, c) = 0
    BY DEF Counts
  <2>2. Balanced({}) /\ UnbornRows'
    BY <1>1, <1>4, <1>6, <2>1, Sizes, SizesGrow, LivesGrow DEF MeterInv, Balanced
  <2> QED BY <1>8, <2>2, BalancedSums DEF MeteredFault
<1> QED BY <1>7, <1>8

(* The counters are conjoined to the steps and change none of them. *)
LEMMA MeteredIsNext == [MeteredNext]_meteredVars => [Next]_vars
<1> SUFFICES ASSUME [MeteredNext]_meteredVars PROVE [Next]_vars
  OBVIOUS
<1>1. ASSUME NEW t \in Task, MeteredSubmit(t) PROVE SubmitStep(t)
  BY <1>1 DEF MeteredSubmit, SubmitStep, Submit
<1>2. ASSUME NEW s \in Slot, MeteredHandle(s) PROVE HandleStep(s)
  BY <1>2 DEF MeteredHandle, MeteredSucceed, MeteredFinish, HandleStep, HandleMessage
<1>3. CASE MeteredStep
  BY <1>1, <1>2, <1>3 DEF MeteredStep, Step, Next
<1>4. CASE MeteredFault
  BY <1>4 DEF MeteredFault, Next
<1>5. CASE UNCHANGED meteredVars
  BY <1>5 DEF meteredVars
<1> QED BY <1>3, <1>4, <1>5 DEF MeteredNext

LEMMA MeterNext ==
  ASSUME TypeOK, TypeOK', FailureHeldOnce, RetryBudget, ExistInv, MeterInv,
         [MeteredNext]_meteredVars
  PROVE  MeterInv'
<1>1. CASE MeteredStep
  <2>1. Step
    BY <1>1 DEF MeteredStep, MeteredSubmit, MeteredHandle, MeteredSucceed, MeteredFinish,
                Step, SubmitStep, Submit, HandleStep, HandleMessage
  <2>2. Lives /\ UNCHANGED faults
    BY <2>1, StepMoves DEF Step, Quiet
  <2> QED BY <1>1, <2>2, SubmitMeter, HandleMeter, OthersMeter DEF MeteredStep
<1>2. CASE MeteredFault
  BY <1>2, FaultMoves, FaultMeter DEF MeteredFault
<1>3. CASE UNCHANGED meteredVars
  <2>1. UNCHANGED <<tasks, req, slot, faults, counters>>
    BY <1>3 DEF meteredVars, vars, workerVars
  <2>2. /\ Accepted' = Accepted /\ Having("success")' = Having("success")
        /\ Buriers' = Buriers
    BY <2>1 DEF Accepted, Having, Buriers, Exists
  <2> QED BY <2>1, <2>2, SameRows, NothingCounted
<1> QED BY <1>1, <1>2, <1>3 DEF MeteredNext

LEMMA MeterInit ==
  ASSUME MeteredInit
  PROVE  MeterInv
<1>1. /\ \A t \in Task : tasks[t].status = "absent" /\ tasks[t].retry_count = 0
      /\ \A s \in Slot : slot[s].pc = "free"
  BY DEF MeteredInit, Init, StoreInit, AbsentRow, WorkerInit, FreeSlot
<1>2. /\ Accepted = {} /\ Having("success") = {} /\ Having("dead") = {} /\ Buriers = {}
  BY <1>1 DEF Accepted, Having, Buriers, Exists
<1>3. ChargedRetries = {}
  <2>1. 1..0 = {}
    OBVIOUS
  <2> QED BY <1>1, <2>1 DEF ChargedRetries
<1>4. /\ Cardinality(Accepted) = 0 /\ Cardinality(Having("success")) = 0
      /\ Cardinality(ChargedRetries) = 0 /\ Cardinality(Having("dead")) = 0
      /\ Cardinality(Buriers) = 0
  BY <1>2, <1>3, FS_EmptySet
<1>5. counters \in [Counter -> Nat] /\ \A c \in Counter : counters[c] = 0
  BY DEF MeteredInit
<1>6. {"submitted", "succeeded", "failed", "retried", "dead"} \subseteq Counter
  BY DEF Counter
<1> QED BY <1>1, <1>4, <1>5, <1>6 DEF MeterInv, UnbornRows

(***************************************************************************)
(* However many goroutines and schedulers race for the outcome of an       *)
(* attempt, and whatever fails, the metrics registry never counts more     *)
(* than the rows have; and without faults it counts every submission and   *)
(* every success, and each failed attempt of a worker as a retry or as     *)
(* dead (worker.go handleMessage and handleExecutionFailure).              *)
(***************************************************************************)
THEOREM CountedOnceSafe == MeteredSpec => []OutcomesCountedOnce
<1>1. MeteredSpec => Spec
  <2>1. MeteredInit => Init
    BY DEF MeteredInit
  <2> QED BY <2>1, MeteredIsNext, PTL DEF MeteredSpec, Spec
<1>2. Spec => []ExistInv
  <2>1. ReachInv => ExistInv
    BY DEF ReachInv
  <2>2. Init => ReachInv
    BY ReachInit
  <2>3. TypeOK /\ TypeOK' /\ FailureHeldOnce /\ ReachInv /\ [Next]_vars => ReachInv'
    BY ReachStep
  <2> QED BY <2>1, <2>2, <2>3, TypeCorrect, FailureSafe, PTL DEF Spec
<1>3. MeteredInit => MeterInv
  BY MeterInit
<1>4. TypeOK /\ TypeOK' /\ FailureHeldOnce /\ RetryBudget /\ ExistInv /\ MeterInv
        /\ [MeteredNext]_meteredVars => MeterInv'
  BY MeterNext
<1>5. MeterInv => OutcomesCountedOnce
  <2> SUFFICES ASSUME MeterInv PROVE OutcomesCountedOnce
    OBVIOUS
  <2>1. {"submitted", "succeeded", "failed", "retried", "dead"} \subseteq Counter
    BY DEF Counter
  <2>2. \A c \in Counter : counters[c] \in Nat
    BY DEF MeterInv
  <2> DEFINE E == {t \in Task : Exists(t)}
  <2>3. IsFiniteSet(Accepted) /\ IsFiniteSet(E) /\ IsFiniteSet(Buriers)
    BY FiniteParts DEF Accepted, Buriers
  <2>4. Accepted \subseteq E
    BY DEF Accepted
  <2>5. Cardinality(Accepted) <= Cardinality(E)
    BY <2>3, <2>4, GrowsBy
  <2>6. /\ Cardinality(Accepted) \in Nat /\ Cardinality(E) \in Nat
        /\ Cardinality(Buriers) \in Nat
    BY <2>3, FS_CardinalityType
  <2> HIDE DEF E
  <2>7. counters["submitted"] <= Cardinality(E)
    BY <2>1, <2>2, <2>5, <2>6 DEF MeterInv
  <2>8. counters["failed"] <= counters["retried"] + counters["dead"]
    BY <2>1, <2>2, <2>6 DEF MeterInv
  <2> QED BY <2>7, <2>8 DEF MeterInv, OutcomesCountedOnce, E
<1> QED BY <1>1, <1>2, <1>3, <1>4, <1>5, TypeCorrect, FailureSafe, PTL DEF MeteredSpec

-----------------------------------------------------------------------------
(***************************************************************************)
(* The loss of the consumer group.  The invariants survive it: it changes  *)
(* neither a row nor a message nor what anybody is doing, and every        *)
(* message becomes one to be delivered.  Goroutines may then acknowledge a *)
(* message that was delivered again, which Fresh allows for.               *)
(***************************************************************************)

LossInv == TypeOK /\ FailureHeldOnce /\ RetryBudget /\ ReachInv /\ DeadSafe

LEMMA LossInitInv == LossInit => LossInv
BY InitTypeOK, InitSafe, ReachInit, DeadInit DEF LossInit, LossInv

LEMMA NextLossInv ==
  ASSUME LossInv, [Next]_vars
  PROVE  LossInv' /\ Lives
<1>1. TypeOK'
  BY NextTypeOK DEF LossInv
<1>2. FailureHeldOnce' /\ RetryBudget'
  BY <1>1, NextSafe DEF LossInv
<1>3. ReachInv'
  BY <1>1, ReachStep DEF LossInv
<1>4. DeadSafe'
  BY DeadStep DEF LossInv
<1> QED BY <1>1, <1>2, <1>3, <1>4, NextMoves DEF LossInv

LEMMA GroupLostInv ==
  ASSUME LossInv, GroupLost
  PROVE  LossInv' /\ Lives
<1>1. /\ UNCHANGED <<tasks, stream, zset, deadStream, loop, slot, sched, req, interrupted>>
      /\ UNCHANGED <<zdue, faults, workerVars>>
  BY DEF GroupLost, workerVars, Quiet
<1>2. delivered' = 0 /\ pel' = {} /\ idle' = {}
  BY DEF GroupLost, EnsureGroup
<1>3. TypeOK'
  <2>1. QueueTypeOK' /\ Entry \subseteq Entry'
    BY <1>1, <1>2 DEF LossInv, TypeOK, QueueTypeOK, Entry
  <2>2. WorkerTypeOK'
    BY <1>1, <2>1, WorkerKept DEF LossInv, TypeOK
  <2> QED BY <1>1, <2>1, <2>2 DEF LossInv, TypeOK, StoreTypeOK, SchedTypeOK, ReqTypeOK
<1>4. EntriesKept
  <2>1. StreamKept
    BY <1>1 DEF StreamKept
  <2>2. Entry' = Entry /\ \A e \in Entry : e > 0
    BY <1>1 DEF Entry, LossInv, TypeOK, QueueTypeOK
  <2>3. \A e \in Entry : Unacked(e)'
    BY <1>2, <2>2 DEF Unacked
  <2>4. Len(stream) <= Len(stream')
    BY <1>1 DEF LossInv, TypeOK, QueueTypeOK
  <2> QED BY <2>1, <2>3, <2>4 DEF EntriesKept
<1>5. FailureHeldOnce' /\ RetryBudget'
  <2>1. NoNewHolder /\ StreamKept
    BY <1>1 DEF NoNewHolder, StreamKept
  <2> QED BY <1>1, <1>3, <2>1, NoEffect, PlainFrame DEF BudgetKept, LossInv
<1>6. ReachInv'
  BY <1>1, <1>3, <1>4, UnchangedRow, QuietReach DEF LossInv
<1>7. DeadSafe'
  BY <1>1, DeadPlain DEF LossInv, StreamKept
<1> QED BY <1>1, <1>3, <1>5, <1>6, <1>7, SameRows DEF LossInv

LEMMA LossStepInv ==
  ASSUME LossInv, [LossNext]_lossVars
  PROVE  LossInv' /\ Lives
BY NextLossInv, GroupLostInv DEF LossNext, lossVars

(***************************************************************************)
(* However often Redis loses the consumer group, and whatever goroutines   *)
(* are in the midst of then, no task is out of reach: the group that       *)
(* EnsureGroup (redis_consumer.go) creates again starts at 0.  Failures    *)
(* are still held once, and dead letters sent once, although every message *)
(* ever published is handled again.                                        *)
(***************************************************************************)
THEOREM LossSafe ==
  LossSpec => [](NoOrphan /\ FailureHeldOnce /\ RetryBudget /\ DeadLetterOnce)
<1>1. LossInv /\ [LossNext]_lossVars => LossInv'
  BY LossStepInv
<1>2. LossInv => NoOrphan /\ FailureHeldOnce /\ RetryBudget /\ DeadLetterOnce
  BY ReachGoal, DeadGoal DEF LossInv
<1> QED BY <1>1, <1>2, LossInitInv, PTL DEF LossSpec

(***************************************************************************)
(* Messages that come again after the loss of the group give no task       *)
(* another life: the rows still follow TaskLifecycle (worker.go            *)
(* handleMessage).                                                         *)
(***************************************************************************)
THEOREM LossImplements == LossSpec => ImplementsLifecycle
<1>1. LossInit => Lifecycle!LifeInit
  BY LivesInit DEF LossInit
<1>2. LossInv /\ [LossNext]_lossVars =>
        [Lifecycle!LifeNext]_[t \in Task |-> [status |-> tasks[t].status,
                                              retries |-> tasks[t].retry_count,
                                              budget |-> tasks[t].max_retries]]
  BY LossStepInv, LivesIsStep
<1>3. LossInv /\ [LossNext]_lossVars => LossInv'
  BY LossStepInv
<1> QED BY <1>1, <1>2, <1>3, LossInitInv, PTL
        DEF LossSpec, ImplementsLifecycle, Lifecycle!LifeSpec

=============================================================================
