----------------------------- MODULE RedisQueue -----------------------------
(***************************************************************************)
(* What Redis keeps for the program, as package queue uses it: the stream  *)
(* of task messages with its one consumer group, the sorted set of delayed *)
(* tasks, and the stream of dead tasks.  Redis runs one command at a time, *)
(* so every command is one step.                                           *)
(*                                                                         *)
(* The stream is append-only, as nothing trims it: an entry is its         *)
(* position, and positions order entries as Redis ids do.  The group has   *)
(* delivered the entries up to a cursor; those delivered and not yet       *)
(* acknowledged form its pending entries list (PEL).  Which consumer owns  *)
(* a pending entry is left out: the code claims entries of any consumer.   *)
(* Idle time is abstracted to whether it has reached pendingMinIdle, the   *)
(* score of a delayed task to whether its time has come.                   *)
(***************************************************************************)
EXTENDS TaskStatus, Sequences, FiniteSets

VARIABLES stream,      \* sequence of the task ids of the messages
          delivered,   \* position of the last entry delivered to the group
          pel,         \* delivered entries that nobody acknowledged
          idle,        \* entries of pel that have been idle for minIdle
          zset,        \* delayed tasks in the sorted set
          zdue,        \* the ones whose score is not in the future
          deadStream   \* the program's publications of each task to tasks:dead

redisVars == <<stream, delivered, pel, idle, zset, zdue, deadStream>>

Entry == 1..Len(stream)

QueueTypeOK ==
  /\ stream \in Seq(Task)
  /\ delivered \in 0..Len(stream)
  /\ pel \subseteq 1..delivered
  /\ idle \subseteq pel
  /\ zset \subseteq Task
  /\ zdue \subseteq zset
  /\ deadStream \in [Task -> Nat]

QueueInit ==
  /\ stream = <<>>
  /\ delivered = 0
  /\ pel = {}
  /\ idle = {}
  /\ zset = {}
  /\ zdue = {}
  /\ deadStream = [t \in Task |-> 0]

(* An entry that Redis will still hand to some worker. *)
Unacked(e) == e \in Entry /\ (e > delivered \/ e \in pel)

-----------------------------------------------------------------------------
(* The task stream. *)

PublishTask(t) ==
  /\ stream' = Append(stream, t)
  /\ UNCHANGED <<delivered, pel, idle, zset, zdue, deadStream>>

(* The last entry that XREADGROUP with ">" and this COUNT delivers next. *)
ReadUpTo(count) == IF delivered + count <= Len(stream)
                   THEN delivered + count ELSE Len(stream)

XReadGroup(count) ==
  /\ delivered' = ReadUpTo(count)
  /\ pel' = pel \cup ((delivered + 1)..ReadUpTo(count))
  /\ UNCHANGED <<stream, idle, zset, zdue, deadStream>>

(* XPENDING IDLE minIdle - + count: the first idle entries, in id order. *)
XPending(count) ==
  {e \in idle : Cardinality({f \in idle : f < e}) < count}

(* XCLAIM takes the entries that are still pending and still idle, and   *)
(* resets their idle time.                                               *)
XClaimed(ids) == ids \cap idle

XClaim(ids) ==
  /\ idle' = idle \ ids
  /\ UNCHANGED <<stream, delivered, pel, zset, zdue, deadStream>>

Ack(e) ==
  /\ pel' = pel \ {e}
  /\ idle' = idle \ {e}
  /\ UNCHANGED <<stream, delivered, zset, zdue, deadStream>>

-----------------------------------------------------------------------------
(* The sorted set of delayed tasks and the dead stream. *)

ScheduleTask(t) ==
  /\ zset' = zset \cup {t}
  /\ UNCHANGED <<stream, delivered, pel, idle, zdue, deadStream>>

Remove(t) ==
  /\ zset' = zset \ {t}
  /\ zdue' = zdue \ {t}
  /\ UNCHANGED <<stream, delivered, pel, idle, deadStream>>

PublishDead(t) ==
  /\ deadStream' = [deadStream EXCEPT ![t] = @ + 1]
  /\ UNCHANGED <<stream, delivered, pel, idle, zset, zdue>>

-----------------------------------------------------------------------------
(* Passage of time. *)

(* A pending entry has not been claimed for minIdle. *)
EntryGoesIdle(e) ==
  /\ e \in pel \ idle
  /\ idle' = idle \cup {e}
  /\ UNCHANGED <<stream, delivered, pel, zset, zdue, deadStream>>

(* The time of a delayed task has come. *)
DelayPasses(t) ==
  /\ t \in zset \ zdue
  /\ zdue' = zdue \cup {t}
  /\ UNCHANGED <<stream, delivered, pel, idle, zset, deadStream>>

=============================================================================
