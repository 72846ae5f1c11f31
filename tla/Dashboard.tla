----------------------------- MODULE Dashboard -----------------------------
(***************************************************************************)
(* The pages of the dashboard.  A page is put together from several        *)
(* statements, each of which sees the table as it is at that moment, while *)
(* the tasks live on: here as TaskLifecycle says, which the program is     *)
(* proved to implement (QueueProofs).  A list is the set of the tasks in   *)
(* it: who is in it depends on updated_at, which every update sets.        *)
(*                                                                         *)
(* MetricsSnapshot, whose two numbers are compared with nothing else on    *)
(* the page, is left out.                                                  *)
(***************************************************************************)
EXTENDS TaskLifecycle, Sequences, FiniteSets

CONSTANTS RecentLimit,  \* recentDashboardLimit
          ListLimit     \* recentTaskListLimit

ASSUME DashboardAssumption ==
  /\ {RecentLimit, ListLimit} \subseteq Nat \ {0}
  /\ IsFiniteSet(Task)

VARIABLES since,    \* updates of the table since the last one of each row
          step,     \* statement that comes next
          page      \* what the page shows so far

pageVars == <<life, since, step, page>>

(* The task lists, of which the last shows the statuses as well. *)
NoPage == [counts |-> [s \in Status |-> 0],
           failed |-> {}, dead |-> {}, recent |-> [t \in {} |-> "absent"]]

PageInit ==
  /\ LifeInit
  /\ since = [t \in Task |-> 0]
  /\ step = 0
  /\ page = NoPage

(* A row is inserted or updated, which makes it the most recent one. *)
Live ==
  /\ LifeNext
  /\ since' = [t \in Task |-> IF life'[t] = life[t] THEN since[t] + 1 ELSE 0]
  /\ UNCHANGED <<step, page>>

-----------------------------------------------------------------------------
(* The statements of the store. *)

Rows(statuses) == {t \in Task : life[t].status \in statuses}

CountByStatus == [s \in Status |-> Cardinality(Rows({s}))]

AtMost(limit, n) == IF n <= limit THEN n ELSE limit

(* ORDER BY updated_at DESC LIMIT limit; rows of the same time may be in   *)
(* any order.                                                              *)
Newest(S, limit) ==
  {L \in SUBSET S : /\ Cardinality(L) = AtMost(limit, Cardinality(S))
                    /\ \A t \in L, u \in S \ L : since[t] <= since[u]}

RecentByStatus(s, limit) == Newest(Rows({s}), limit)

Recent(limit) == {[t \in L |-> life[t].status] : L \in Newest(Rows(Status), limit)}

-----------------------------------------------------------------------------

(* Faulty variant: the dead tasks before the counts. *)
StepsDeadFirst == <<"dead", "counts", "failed", "recent">>

(* The order of the statements of handleDashboard. *)
StatementOrder == <<"counts", "failed", "dead", "recent">>

Request ==
  /\ step = 0
  /\ step' = 1
  /\ UNCHANGED <<life, since, page>>

Shows(field, values) ==
  /\ step \in 1..Len(StatementOrder) /\ StatementOrder[step] = field
  /\ \E v \in values : page' = [page EXCEPT ![field] = v]
  /\ step' = step + 1
  /\ UNCHANGED <<life, since>>

handleDashboard ==
  \/ Shows("counts", {CountByStatus})
  \/ Shows("failed", RecentByStatus("failed", RecentLimit))
  \/ Shows("dead", RecentByStatus("dead", RecentLimit))
  \/ Shows("recent", Recent(ListLimit))

(* The sum over dashboardStatusCounts. *)
TotalTasks ==
  page.counts["scheduled"] + page.counts["pending"] + page.counts["running"]
    + page.counts["success"] + page.counts["failed"] + page.counts["retrying"]
    + page.counts["dead"]

(* A statement fails, and the answer is an error and no page; or the page  *)
(* is rendered.                                                            *)
Answer ==
  /\ step > 0
  /\ step' = 0
  /\ page' = NoPage
  /\ UNCHANGED <<life, since>>

PageNext == Live \/ Request \/ handleDashboard \/ Answer

PageSpec == PageInit /\ [][PageNext]_pageVars

-----------------------------------------------------------------------------
(* Properties. *)

(***************************************************************************)
(* A complete page agrees with itself where the tasks allow it: the lists  *)
(* of dead and of recent tasks hold at least the tasks that the counts     *)
(* promise, up to their limits, for rows are never deleted and dead is     *)
(* final; and a task that is listed as dead is not listed as anything else *)
(* among the recent ones (handleDashboard).                                *)
(***************************************************************************)
PageAgrees ==
  step > Len(StatementOrder) =>
    /\ Cardinality(page.dead) >= AtMost(RecentLimit, page.counts["dead"])
    /\ Cardinality(DOMAIN page.recent) >= AtMost(ListLimit, TotalTasks)
    /\ \A t \in page.dead \cap DOMAIN page.recent : page.recent[t] = "dead"

=============================================================================
