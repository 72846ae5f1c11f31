---------------------------- MODULE DelayedStart ----------------------------
(***************************************************************************)
(* When delayed tasks are dispatched.  The sorted set keeps run_at cut to  *)
(* whole seconds, and the scheduler asks for the scores up to the present, *)
(* cut to whole seconds as well (redis_scheduled.go), at most Batch of     *)
(* them, the earliest first.  The clock counts parts of a second, Second   *)
(* of them.  The scheduler scans when it starts and every Interval; what a *)
(* scan returns is dispatched before the clock moves on, and Scheduler     *)
(* models how.                                                             *)
(***************************************************************************)
EXTENDS Naturals, FiniteSets

CONSTANTS Task, Second, Interval, Batch,
          MaxDelay, MaxTime    \* bounds on run_at and on the clock

ASSUME DelayAssumption ==
  /\ IsFiniteSet(Task)
  /\ {Second, Interval, Batch} \subseteq Nat \ {0}
  /\ {MaxDelay, MaxTime} \subseteq Nat

VARIABLES now, nextScan,
          state,    \* "new", "scheduled" (in the sorted set) or "dispatched"
          runAt,    \* of every task that was submitted
          at        \* the time of the dispatch, or of the submission

delayVars == <<now, nextScan, state, runAt, at>>

DelayInit ==
  /\ now = 0 /\ nextScan = 0
  /\ state = [t \in Task |-> "new"]
  /\ runAt = [t \in Task |-> 0]
  /\ at = [t \in Task |-> 0]

-----------------------------------------------------------------------------

(* time.Unix *)
Unix(time) == time \div Second

Score(t) == Unix(runAt[t])

(* A task with run_at in the future is added to the sorted set, any other  *)
(* is pending at once (Store.Create compares with the full precision).     *)
Submit(t, time) ==
  /\ state[t] = "new"
  /\ runAt' = [runAt EXCEPT ![t] = time]
  /\ at' = [at EXCEPT ![t] = now]
  /\ state' = [state EXCEPT ![t] = IF time > now THEN "scheduled" ELSE "dispatched"]
  /\ UNCHANGED <<now, nextScan>>

(* Faulty variant: the present is rounded up. *)
DueRoundedUp == {t \in Task : state[t] = "scheduled" /\ Score(t) <= Unix(now) + 1}

(* Scores up to now.Unix, and the first Batch of them; members with the    *)
(* same score come in the order of their ids, which say nothing.           *)
Due == {t \in Task : state[t] = "scheduled" /\ Score(t) <= Unix(now)}

(* Faulty variant: any Batch of the due members. *)
DueTaskIDsUnordered ==
  {S \in SUBSET Due : Cardinality(S) = IF Cardinality(Due) < Batch
                                       THEN Cardinality(Due) ELSE Batch}

DueTaskIDs ==
  {S \in SUBSET Due :
     /\ Cardinality(S) = IF Cardinality(Due) < Batch THEN Cardinality(Due) ELSE Batch
     /\ \A t \in S, u \in Due \ S : Score(t) <= Score(u)}

ScheduleDue ==
  /\ now = nextScan
  /\ nextScan' = now + Interval
  /\ \E S \in DueTaskIDs :
       /\ state' = [t \in Task |-> IF t \in S THEN "dispatched" ELSE state[t]]
       /\ at' = [t \in Task |-> IF t \in S THEN now ELSE at[t]]
  /\ UNCHANGED <<now, runAt>>

Pass ==
  /\ now < nextScan /\ now < MaxTime
  /\ now' = now + 1
  /\ UNCHANGED <<nextScan, state, runAt, at>>

DelayNext ==
  \/ \E t \in Task, time \in 0..MaxDelay : Submit(t, time)
  \/ ScheduleDue
  \/ Pass

DelaySpec == DelayInit /\ [][DelayNext]_delayVars

-----------------------------------------------------------------------------

(***************************************************************************)
(* A delayed task starts less than a second before its time, however score *)
(* and clock are cut (redis_scheduled.go ScheduleTask and DueTaskIDs).     *)
(***************************************************************************)
LessThanASecondEarly ==
  \A t \in Task : state[t] = "dispatched" => runAt[t] < at[t] + Second

(***************************************************************************)
(* And it does not wait for long: it is dispatched within as many          *)
(* intervals after run_at as the tasks with no later score fill batches;   *)
(* tasks of later seconds never push it back (the order and the Count of   *)
(* the range in DueTaskIDs).                                               *)
(***************************************************************************)
Batches(n) == (n + Batch - 1) \div Batch

AheadOf(t) == {u \in Task : state[u] # "new" /\ Score(u) <= Score(t)}

DispatchedInTime ==
  \A t \in Task : state[t] = "scheduled" =>
    now <= runAt[t] + Interval * Batches(Cardinality(AheadOf(t)))

=============================================================================
