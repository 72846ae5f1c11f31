-------------------------- MODULE StatementProofs ---------------------------
(***************************************************************************)
(* What several statements make of the database, when each of them is a    *)
(* transaction of its own and others come in between.                      *)
(*                                                                         *)
(* MIGRATIONS.  Concurrent, failing and killed runs of migrate-up.sh       *)
(* execute every migration at most once and in order, and a run that is    *)
(* done has left all of them recorded.  The inductive invariant says,      *)
(* besides the types, that a version is recorded exactly when it was       *)
(* executed once, that the recorded versions are an initial segment, that  *)
(* a run has found everything below its version recorded, and that between *)
(* the second question and the commit a run holds the lock, so that the    *)
(* answer is still true.                                                   *)
(*                                                                         *)
(* DASHBOARD.  A page agrees with itself although the tasks live on        *)
(* between its statements: the invariant says what remains true of a part  *)
(* of the page while the rest is read.                                     *)
(***************************************************************************)
EXTENDS Migrations, Dashboard, FiniteSetTheorems, TLAPS

Label == {"create", "ask", "lock", "check", "skip", "execute", "done", "failed"}

MigrationsTypeOK ==
  /\ pc \in [Run -> Label]
  /\ version \in [Run -> Version]
  /\ recorded \in SUBSET Version
  /\ executed \in [Version -> Nat]

(* What is recorded: the versions executed, once, and no gap below them. *)
RecordedIsExecuted ==
  \A v \in Version : executed[v] = IF v \in recorded THEN 1 ELSE 0

NoGap == \A v \in recorded : \A u \in Version : u <= v => u \in recorded

(* What a run knows. *)
BelowRecorded(r) == \A u \in Version : u < version[r] => u \in recorded

RunKnows(r) ==
  /\ pc[r] = "create" => version[r] = 1
  /\ pc[r] \in {"ask", "lock", "check", "skip", "execute"} => BelowRecorded(r)
  /\ pc[r] \in {"check", "skip", "execute"} => lock = r
  /\ pc[r] = "skip" => version[r] \in recorded
  /\ pc[r] = "execute" => version[r] \notin recorded
  /\ pc[r] = "done" => recorded = Version

(***************************************************************************)
(* The inductive invariant of the script.                                  *)
(***************************************************************************)
MigrationsInv ==
  /\ MigrationsTypeOK
  /\ RecordedIsExecuted
  /\ NoGap
  /\ \A r \in Run : RunKnows(r)

-----------------------------------------------------------------------------

LEMMA VersionsFacts ==
  /\ Version \subseteq Nat \ {0}
  /\ 1 \in Version
  /\ \A v \in Version : v <= Versions
  /\ \A v \in Version : v # Versions => v + 1 \in Version
BY MigrationsAssumption DEF Version

(* Below the next version are this one and those before it. *)
LEMMA VersionsOrder ==
  ASSUME NEW u \in Version, NEW v \in Version
  PROVE  /\ u < v + 1 => u < v \/ u = v
         /\ u <= v => u < v \/ u = v
         /\ v = Versions => u < v \/ u = v
<1>1. u \in Nat /\ v \in Nat /\ u <= Versions
  BY VersionsFacts
<1> QED BY <1>1

LEMMA InitInv == Init => MigrationsInv
BY VersionsFacts DEF Init, MigrationsInv, MigrationsTypeOK, RecordedIsExecuted, NoGap,
                     RunKnows, BelowRecorded, Label

(* A step of r that records nothing and keeps others' locks. *)
LEMMA QuietStep ==
  ASSUME MigrationsInv, NEW r \in Run, UNCHANGED <<recorded, executed>>,
         NEW l \in Label, NEW n \in Version,
         pc' = [pc EXCEPT ![r] = l],
         version' = [version EXCEPT ![r] = n],
         \A q \in Run \ {r} : lock = q => lock' = q,
         RunKnows(r)'
  PROVE  MigrationsInv'
<1>1. MigrationsTypeOK' /\ RecordedIsExecuted' /\ NoGap'
  BY DEF MigrationsInv, MigrationsTypeOK, RecordedIsExecuted, NoGap
<1>2. ASSUME NEW q \in Run, q # r PROVE RunKnows(q)'
  <2>1. pc'[q] = pc[q] /\ version'[q] = version[q] /\ RunKnows(q)
    BY <1>2 DEF MigrationsInv, MigrationsTypeOK
  <2>2. lock = q => lock' = q
    BY <1>2
  <2> QED BY <2>1, <2>2 DEF RunKnows, BelowRecorded
<1> QED BY <1>1, <1>2 DEF MigrationsInv

(* The run goes on past a version that is recorded. *)
LEMMA AdvanceKnows ==
  ASSUME MigrationsInv, NEW r \in Run, UNCHANGED <<recorded, executed>>,
         version[r] \in recorded, BelowRecorded(r), Advance(r),
         \A q \in Run \ {r} : lock = q => lock' = q
  PROVE  MigrationsInv'
<1>1. version[r] \in Version /\ version \in [Run -> Version] /\ pc \in [Run -> Label]
  BY DEF MigrationsInv, MigrationsTypeOK
<1>2. CASE version[r] = Versions
  <2>1. pc' = [pc EXCEPT ![r] = "done"] /\ version' = [version EXCEPT ![r] = version[r]]
    BY <1>1, <1>2 DEF Advance, Goto
  <2>2. recorded = Version
    BY <1>2, VersionsFacts DEF MigrationsInv, MigrationsTypeOK, NoGap
  <2>3. RunKnows(r)'
    BY <1>1, <2>1, <2>2 DEF RunKnows
  <2> QED BY <1>1, <2>1, <2>3, QuietStep DEF Label
<1>3. CASE version[r] # Versions
  <2>1. PICK n \in Version : n = version[r] + 1
    BY <1>1, <1>3, VersionsFacts
  <2>2. pc' = [pc EXCEPT ![r] = "ask"] /\ version' = [version EXCEPT ![r] = n]
    BY <1>3, <2>1 DEF Advance, Goto
  <2>3. \A u \in Version : u < n => u \in recorded
    BY <1>1, <2>1, VersionsOrder DEF BelowRecorded
  <2>4. RunKnows(r)'
    BY <1>1, <2>2, <2>3 DEF RunKnows, BelowRecorded
  <2> QED BY <2>2, <2>4, QuietStep DEF Label
<1> QED BY <1>2, <1>3

(* The commit: what r holds the lock for becomes recorded. *)
LEMMA CommitKeeps ==
  ASSUME MigrationsInv, NEW r \in Run, pc[r] = "execute",
         NEW l \in Label, NEW n \in Version,
         recorded' = recorded \cup {version[r]},
         executed' = [executed EXCEPT ![version[r]] = executed[version[r]] + 1],
         pc' = [pc EXCEPT ![r] = l],
         version' = [version EXCEPT ![r] = n],
         RunKnows(r)'
  PROVE  MigrationsInv'
<1>1. PICK v \in Version : v = version[r]
  BY DEF MigrationsInv, MigrationsTypeOK
<1>2. v \notin recorded /\ lock = r /\ \A u \in Version : u < v => u \in recorded
  BY <1>1 DEF MigrationsInv, RunKnows, BelowRecorded
<1>3. MigrationsTypeOK'
  BY <1>1 DEF MigrationsInv, MigrationsTypeOK
<1>4. RecordedIsExecuted'
  <2>1. executed[v] = 0
    BY <1>2 DEF MigrationsInv, RecordedIsExecuted
  <2>2. executed' = [executed EXCEPT ![v] = 1] /\ recorded' = recorded \cup {v}
    BY <1>1, <2>1
  <2> QED BY <2>2 DEF MigrationsInv, MigrationsTypeOK, RecordedIsExecuted
<1>5. NoGap'
  <2> SUFFICES ASSUME NEW w \in recorded \cup {v}, NEW u \in Version, u <= w
               PROVE  u \in recorded \cup {v}
    BY <1>1 DEF NoGap
  <2>1. CASE w = v
    BY <1>2, <2>1, VersionsFacts
  <2>2. CASE w \in recorded
    BY <2>2 DEF MigrationsInv, NoGap
  <2> QED BY <2>1, <2>2
<1>6. ASSUME NEW q \in Run, q # r PROVE RunKnows(q)'
  <2>1. pc'[q] = pc[q] /\ version'[q] = version[q] /\ RunKnows(q)
    BY <1>6 DEF MigrationsInv, MigrationsTypeOK
  <2>2. pc[q] \notin {"check", "skip", "execute"}
    BY <1>2, <1>6, <2>1 DEF RunKnows
  <2>3. pc[q] # "done"
    BY <1>1, <1>2, <2>1 DEF RunKnows
  <2> QED BY <1>1, <2>1, <2>2, <2>3 DEF RunKnows, BelowRecorded
<1> QED BY <1>3, <1>4, <1>5, <1>6 DEF MigrationsInv

-----------------------------------------------------------------------------
(* One lemma per action. *)

LEMMA CreateTableInv ==
  ASSUME MigrationsInv, NEW r \in Run, CreateTable(r) PROVE MigrationsInv'
<1>1. version[r] = 1 /\ 1 \in Version /\ version \in [Run -> Version]
  BY VersionsFacts DEF CreateTable, MigrationsInv, MigrationsTypeOK, RunKnows
<1>2. pc' = [pc EXCEPT ![r] = "ask"] /\ version' = [version EXCEPT ![r] = 1]
  BY <1>1 DEF CreateTable, Goto
<1>3. RunKnows(r)'
  BY <1>1, <1>2, VersionsFacts DEF MigrationsInv, MigrationsTypeOK, RunKnows, BelowRecorded
<1> QED BY <1>1, <1>2, <1>3, QuietStep DEF CreateTable, Label

LEMMA CreateFailsInv ==
  ASSUME MigrationsInv, NEW r \in Run, CreateFails(r) PROVE MigrationsInv'
<1>1. PICK q \in Run \ {r} : /\ pc[q] = "create"
                             /\ pc' = [pc EXCEPT ![r] = "failed", ![q] = "ask"]
  BY DEF CreateFails
<1>2. UNCHANGED <<version, recorded, executed, lock>>
  BY DEF CreateFails
<1>3. MigrationsTypeOK' /\ RecordedIsExecuted' /\ NoGap'
  BY <1>1, <1>2 DEF MigrationsInv, MigrationsTypeOK, RecordedIsExecuted, NoGap, Label
<1>4. version[q] = 1
  BY <1>1 DEF MigrationsInv, RunKnows
<1>5. RunKnows(q)' /\ RunKnows(r)'
  BY <1>1, <1>2, <1>4, VersionsFacts DEF MigrationsInv, MigrationsTypeOK, RunKnows,
                                         BelowRecorded
<1>6. ASSUME NEW p \in Run \ {q, r} PROVE RunKnows(p)'
  <2>1. pc'[p] = pc[p] /\ RunKnows(p)
    BY <1>1, <1>6 DEF MigrationsInv, MigrationsTypeOK
  <2> QED BY <1>2, <2>1 DEF RunKnows, BelowRecorded
<1> QED BY <1>3, <1>5, <1>6 DEF MigrationsInv

LEMMA AskInv ==
  ASSUME MigrationsInv, NEW r \in Run, Ask(r) PROVE MigrationsInv'
<1>1. BelowRecorded(r) /\ version[r] \in Version /\ UNCHANGED <<recorded, executed, lock>>
  BY DEF Ask, MigrationsInv, MigrationsTypeOK, RunKnows
<1>2. CASE version[r] \in recorded
  BY <1>1, <1>2, AdvanceKnows DEF Ask
<1>3. CASE version[r] \notin recorded
  <2>1. pc' = [pc EXCEPT ![r] = "lock"] /\ version' = [version EXCEPT ![r] = version[r]]
    BY <1>3 DEF Ask, Goto, MigrationsInv, MigrationsTypeOK
  <2>2. RunKnows(r)'
    BY <1>1, <2>1 DEF MigrationsInv, MigrationsTypeOK, RunKnows, BelowRecorded
  <2> QED BY <1>1, <2>1, <2>2, QuietStep DEF Label
<1> QED BY <1>2, <1>3

LEMMA LockInv ==
  ASSUME MigrationsInv, NEW r \in Run, Lock(r) PROVE MigrationsInv'
<1>1. BelowRecorded(r) /\ version[r] \in Version /\ UNCHANGED <<recorded, executed, version>>
  BY DEF Lock, MigrationsInv, MigrationsTypeOK, RunKnows
<1>2. pc' = [pc EXCEPT ![r] = "check"] /\ version' = [version EXCEPT ![r] = version[r]]
  BY <1>1 DEF Lock, Goto, MigrationsInv, MigrationsTypeOK
<1>3. RunKnows(r)'
  BY <1>1, <1>2 DEF Lock, MigrationsInv, MigrationsTypeOK, RunKnows, BelowRecorded
<1>4. \A q \in Run \ {r} : lock # q
  BY MigrationsAssumption DEF Lock
<1> QED BY <1>1, <1>2, <1>3, <1>4, QuietStep DEF Label

LEMMA CheckInv ==
  ASSUME MigrationsInv, NEW r \in Run, Check(r) PROVE MigrationsInv'
<1>1. /\ BelowRecorded(r) /\ lock = r /\ version[r] \in Version
      /\ UNCHANGED <<recorded, executed, version, lock>>
  BY DEF Check, MigrationsInv, MigrationsTypeOK, RunKnows
<1>2. PICK l \in Label : l = IF version[r] \in recorded THEN "skip" ELSE "execute"
  BY DEF Label
<1>3. pc' = [pc EXCEPT ![r] = l] /\ version' = [version EXCEPT ![r] = version[r]]
  BY <1>1, <1>2 DEF Check, Goto, MigrationsInv, MigrationsTypeOK
<1>4. RunKnows(r)'
  BY <1>1, <1>2, <1>3 DEF MigrationsInv, MigrationsTypeOK, RunKnows, BelowRecorded
<1> QED BY <1>1, <1>3, <1>4, QuietStep

LEMMA SkipInv ==
  ASSUME MigrationsInv, NEW r \in Run, Skip(r) PROVE MigrationsInv'
<1>1. BelowRecorded(r) /\ version[r] \in recorded /\ UNCHANGED <<recorded, executed>>
  BY DEF Skip, MigrationsInv, RunKnows
<1>2. \A q \in Run \ {r} : lock = q => lock' = q
  BY DEF Skip, Free
<1> QED BY <1>1, <1>2, AdvanceKnows DEF Skip

LEMMA ExecuteInv ==
  ASSUME MigrationsInv, NEW r \in Run, Execute(r) PROVE MigrationsInv'
<1>1. /\ pc \in [Run -> Label] /\ version \in [Run -> Version]
      /\ version[r] \in Version /\ recorded \subseteq Version /\ BelowRecorded(r)
      /\ executed \in [Version -> Nat]
  BY DEF Execute, MigrationsInv, MigrationsTypeOK, RunKnows
<1>2. recorded' = recorded \cup {version[r]} /\ pc[r] = "execute"
  BY DEF Execute
<1>3. executed' = [executed EXCEPT ![version[r]] = executed[version[r]] + 1]
  BY <1>1 DEF Execute
<1>4. CASE version[r] = Versions
  <2>1. pc' = [pc EXCEPT ![r] = "done"] /\ version' = [version EXCEPT ![r] = version[r]]
    BY <1>1, <1>4 DEF Execute, Advance, Goto
  <2>2. recorded' = Version
    BY <1>1, <1>2, <1>4, VersionsOrder DEF BelowRecorded
  <2>3. RunKnows(r)'
    BY <1>1, <2>1, <2>2 DEF RunKnows
  <2> QED BY <1>1, <1>2, <1>3, <2>1, <2>3, CommitKeeps DEF Label
<1>5. CASE version[r] # Versions
  <2>1. PICK n \in Version : n = version[r] + 1
    BY <1>1, <1>5, VersionsFacts
  <2>2. pc' = [pc EXCEPT ![r] = "ask"] /\ version' = [version EXCEPT ![r] = n]
    BY <1>5, <2>1 DEF Execute, Advance, Goto
  <2>3. \A u \in Version : u < n => u \in recorded'
    BY <1>1, <1>2, <2>1, VersionsOrder DEF BelowRecorded
  <2>4. RunKnows(r)'
    BY <1>1, <2>2, <2>3 DEF RunKnows, BelowRecorded
  <2> QED BY <1>2, <1>3, <2>2, <2>4, CommitKeeps DEF Label
<1> QED BY <1>4, <1>5

LEMMA ExecuteFailsInv ==
  ASSUME MigrationsInv, NEW r \in Run, ExecuteFails(r) PROVE MigrationsInv'
<1>1. version[r] \in Version /\ UNCHANGED <<recorded, executed, version>>
  BY DEF ExecuteFails, MigrationsInv, MigrationsTypeOK
<1>2. pc' = [pc EXCEPT ![r] = "failed"] /\ version' = [version EXCEPT ![r] = version[r]]
  BY <1>1 DEF ExecuteFails, Goto, MigrationsInv, MigrationsTypeOK
<1>3. RunKnows(r)'
  BY <1>2 DEF MigrationsInv, MigrationsTypeOK, RunKnows
<1>4. \A q \in Run \ {r} : lock = q => lock' = q
  BY DEF ExecuteFails, Free
<1> QED BY <1>1, <1>2, <1>3, <1>4, QuietStep DEF Label

LEMMA RestartInv ==
  ASSUME MigrationsInv, NEW r \in Run, Restart(r) PROVE MigrationsInv'
<1>1. pc' = [pc EXCEPT ![r] = "create"] /\ version' = [version EXCEPT ![r] = 1]
  BY DEF Restart, Goto
<1>2. RunKnows(r)'
  BY <1>1 DEF MigrationsInv, MigrationsTypeOK, RunKnows
<1>3. 1 \in Version /\ "create" \in Label
  BY VersionsFacts DEF Label
<1>4. CASE UNCHANGED <<recorded, executed>>
  <2>1. \A q \in Run \ {r} : lock = q => lock' = q
    BY DEF Restart, Free
  <2> QED BY <1>1, <1>2, <1>3, <1>4, <2>1, QuietStep
<1>5. CASE /\ pc[r] = "execute"
           /\ recorded' = recorded \cup {version[r]}
           /\ executed' = [executed EXCEPT ![version[r]] = @ + 1]
  <2>1. executed' = [executed EXCEPT ![version[r]] = executed[version[r]] + 1]
    BY <1>5
  <2> QED BY <1>1, <1>2, <1>3, <1>5, <2>1, CommitKeeps
<1> QED BY <1>4, <1>5 DEF Restart

LEMMA MigrationsInductive == Spec => []MigrationsInv
<1>1. MigrationsInv /\ [Next]_vars => MigrationsInv'
  <2> SUFFICES ASSUME MigrationsInv, [Next]_vars PROVE MigrationsInv'
    OBVIOUS
  <2>1. ASSUME NEW r \in Run, Step(r) \/ CreateFails(r) \/ ExecuteFails(r) \/ Restart(r)
        PROVE  MigrationsInv'
    BY <2>1, CreateTableInv, AskInv, LockInv, CheckInv, SkipInv, ExecuteInv, CreateFailsInv,
       ExecuteFailsInv, RestartInv DEF Step
  <2>2. CASE UNCHANGED vars
    BY <2>2 DEF vars, MigrationsInv, MigrationsTypeOK, RecordedIsExecuted, NoGap, RunKnows,
                BelowRecorded
  <2> QED BY <2>1, <2>2 DEF Next, Over
<1> QED BY <1>1, InitInv, PTL DEF Spec

(***************************************************************************)
(* Whatever the number of runs, migrations and crashes, no file is         *)
(* executed twice and none before an earlier one: the second question      *)
(* of migrate-up.sh is answered under the lock that the commit gives back. *)
(***************************************************************************)
THEOREM MigrationsSafe == Spec => []ExecutedOnceInOrder
<1>1. MigrationsInv => ExecutedOnceInOrder
  <2> SUFFICES ASSUME MigrationsInv, NEW v \in Version
               PROVE  /\ executed[v] <= 1
                      /\ executed[v] = 1 => \A u \in 1..v : executed[u] = 1
    BY DEF ExecutedOnceInOrder
  <2>1. executed[v] = IF v \in recorded THEN 1 ELSE 0
    BY DEF MigrationsInv, RecordedIsExecuted
  <2>2. ASSUME v \in recorded, NEW u \in 1..v PROVE executed[u] = 1
    <3>1. u \in Version /\ u <= v
      BY <2>2, MigrationsAssumption DEF Version
    <3>2. u \in recorded
      BY <2>2, <3>1 DEF MigrationsInv, NoGap
    <3> QED BY <3>1, <3>2 DEF MigrationsInv, RecordedIsExecuted
  <2> QED BY <2>1, <2>2
<1> QED BY <1>1, MigrationsInductive, PTL

(***************************************************************************)
(* Whatever the number of runs, migrations and crashes, a run of           *)
(* migrate-up.sh that exits without an error leaves every migration        *)
(* recorded.                                                               *)
(***************************************************************************)
THEOREM DoneSafe == Spec => []DoneIsComplete
<1>1. MigrationsInv => DoneIsComplete
  BY DEF MigrationsInv, RunKnows, DoneIsComplete
<1> QED BY <1>1, MigrationsInductive, PTL

-----------------------------------------------------------------------------
(***************************************************************************)
(* The dashboard.                                                          *)
(***************************************************************************)

LifeTyped ==
  /\ DOMAIN life = Task
  /\ \A t \in Task : life[t].status \in Status \cup {"absent"}

PageTyped ==
  /\ DOMAIN page = {"counts", "failed", "dead", "recent"}
  /\ step \in 0..5

(* The counts are still no more than there is. *)
CountsHold ==
  /\ page.counts["dead"] \in Nat /\ page.counts["dead"] <= Cardinality(Rows({"dead"}))
  /\ TotalTasks \in Nat /\ TotalTasks <= Cardinality(Rows(Status))

(* The tasks listed as dead still are. *)
DeadHold ==
  /\ page.dead \subseteq Rows({"dead"})
  /\ Cardinality(page.dead) >= AtMost(RecentLimit, page.counts["dead"])

RecentHold ==
  /\ Cardinality(DOMAIN page.recent) >= AtMost(ListLimit, TotalTasks)
  /\ \A t \in page.dead \cap DOMAIN page.recent : page.recent[t] = "dead"

PageInv ==
  /\ LifeTyped /\ PageTyped
  /\ step >= 2 => CountsHold
  /\ step >= 4 => DeadHold
  /\ step >= 5 => RecentHold

LEMMA RowsFinite ==
  \A S \in SUBSET Task : IsFiniteSet(S) /\ Cardinality(S) \in Nat
BY DashboardAssumption, FS_Subset, FS_CardinalityType

LEMMA AtMostGrows ==
  ASSUME NEW l \in Nat, NEW m \in Nat, NEW n \in Nat, m <= n
  PROVE  AtMost(l, m) <= AtMost(l, n)
BY DEF AtMost

LEMMA Limits == RecentLimit \in Nat /\ ListLimit \in Nat
BY DashboardAssumption

(* Every row has one status. *)
LEMMA RowsSplit ==
  ASSUME NEW A, NEW s, s \notin A
  PROVE  Cardinality(Rows(A \cup {s})) = Cardinality(Rows(A)) + Cardinality(Rows({s}))
<1>1. Rows(A) \in SUBSET Task /\ Rows({s}) \in SUBSET Task
  BY DEF Rows
<1>2. Rows(A \cup {s}) = Rows(A) \cup Rows({s}) /\ Rows(A) \cap Rows({s}) = {}
  BY DEF Rows
<1>3. Cardinality(Rows(A) \cup Rows({s}))
        = Cardinality(Rows(A)) + Cardinality(Rows({s})) - Cardinality(Rows(A) \cap Rows({s}))
  BY <1>1, RowsFinite, FS_Union
<1>4. Cardinality(Rows(A)) \in Nat /\ Cardinality(Rows({s})) \in Nat
  BY <1>1, RowsFinite
<1>5. Cardinality(Rows(A) \cap Rows({s})) = 0
  BY <1>2, FS_EmptySet, Zenon
<1>6. \A m, n \in Nat : m + n - 0 = m + n
  OBVIOUS
<1>7. Cardinality(Rows(A) \cup Rows({s})) = Cardinality(Rows(A)) + Cardinality(Rows({s}))
  BY <1>3, <1>4, <1>5, <1>6, Zenon
<1> QED BY <1>2, <1>7, Zenon

LEMMA RowsSum ==
  Cardinality(Rows(Status)) =
    Cardinality(Rows({"scheduled"})) + Cardinality(Rows({"pending"}))
      + Cardinality(Rows({"running"})) + Cardinality(Rows({"success"}))
      + Cardinality(Rows({"failed"})) + Cardinality(Rows({"retrying"}))
      + Cardinality(Rows({"dead"}))
<1> DEFINE S2 == {"scheduled"} \cup {"pending"}
           S3 == S2 \cup {"running"}
           S4 == S3 \cup {"success"}
           S5 == S4 \cup {"failed"}
           S6 == S5 \cup {"retrying"}
           S7 == S6 \cup {"dead"}
<1>1. Cardinality(Rows(S2)) = Cardinality(Rows({"scheduled"})) + Cardinality(Rows({"pending"}))
  BY RowsSplit
<1>2. Cardinality(Rows(S3)) = Cardinality(Rows(S2)) + Cardinality(Rows({"running"}))
  BY RowsSplit
<1>3. Cardinality(Rows(S4)) = Cardinality(Rows(S3)) + Cardinality(Rows({"success"}))
  BY RowsSplit
<1>4. Cardinality(Rows(S5)) = Cardinality(Rows(S4)) + Cardinality(Rows({"failed"}))
  BY RowsSplit
<1>5. Cardinality(Rows(S6)) = Cardinality(Rows(S5)) + Cardinality(Rows({"retrying"}))
  BY RowsSplit
<1>6. Cardinality(Rows(S7)) = Cardinality(Rows(S6)) + Cardinality(Rows({"dead"}))
  BY RowsSplit
<1>7. S7 = Status
  BY DEF Status
<1> HIDE DEF S2, S3, S4, S5, S6, S7
<1> QED BY <1>1, <1>2, <1>3, <1>4, <1>5, <1>6, <1>7

(* Rows are not deleted, and a dead one stays dead. *)
LEMMA LiveKeeps ==
  ASSUME LifeTyped, LifeNext
  PROVE  /\ LifeTyped'
         /\ Rows({"dead"}) \subseteq Rows({"dead"})'
         /\ Rows(Status) \subseteq Rows(Status)'
<1>1. ASSUME NEW t \in Task, NEW from, NEW to \in Status, NEW r, NEW b,
             from # "dead", life[t].status = from,
             life' = [life EXCEPT ![t] = [status |-> to, retries |-> r, budget |-> b]]
      PROVE  /\ LifeTyped'
             /\ Rows({"dead"}) \subseteq Rows({"dead"})'
             /\ Rows(Status) \subseteq Rows(Status)'
  <2>1. DOMAIN life' = Task /\ life'[t].status = to
        /\ \A u \in Task \ {t} : life'[u] = life[u]
    BY <1>1 DEF LifeTyped
  <2> QED BY <1>1, <2>1 DEF LifeTyped, Rows
<1>2. PICK t \in Task : \/ Submitted(t) \/ Released(t) \/ Claimed(t)
                        \/ Ended(t) \/ Charged(t) \/ Buried(t)
  BY DEF LifeNext
<1>3. {"scheduled", "pending", "running", "success", "failed", "retrying", "dead"} = Status
  BY DEF Status
<1>4. CASE Submitted(t)
  <2>1. PICK b \in Budget, s \in {"scheduled", "pending"} :
          life' = [life EXCEPT ![t] = [status |-> s, retries |-> 0, budget |-> b]]
    BY <1>4 DEF Submitted
  <2> QED BY <1>1, <1>3, <1>4, <2>1 DEF Submitted
<1>5. ASSUME NEW from, NEW to \in Status, NEW n, from # "dead", Move(t, from, to, n)
      PROVE  /\ LifeTyped'
             /\ Rows({"dead"}) \subseteq Rows({"dead"})'
             /\ Rows(Status) \subseteq Rows(Status)'
  BY <1>1, <1>5 DEF Move
<1> QED BY <1>2, <1>3, <1>4, <1>5 DEF Released, Claimed, Ended, Charged, Buried

(* What there was to count and to list is still there. *)
LEMMA LaterRows ==
  ASSUME PageInv, LifeTyped', UNCHANGED <<step, page>>,
         Rows({"dead"}) \subseteq Rows({"dead"})', Rows(Status) \subseteq Rows(Status)'
  PROVE  PageInv'
<1>1. /\ Rows({"dead"})' \in SUBSET Task
      /\ Rows(Status)' \in SUBSET Task
  BY DEF Rows
<1>2. /\ Cardinality(Rows({"dead"})) <= Cardinality(Rows({"dead"})')
      /\ Cardinality(Rows(Status)) <= Cardinality(Rows(Status)')
  BY <1>1, RowsFinite, FS_Subset
<1>3. /\ Cardinality(Rows({"dead"})) \in Nat /\ Cardinality(Rows({"dead"})') \in Nat
      /\ Cardinality(Rows(Status)) \in Nat /\ Cardinality(Rows(Status)') \in Nat
  <2>1. Rows({"dead"}) \in SUBSET Task /\ Rows(Status) \in SUBSET Task
    BY DEF Rows
  <2> QED BY <1>1, <2>1, RowsFinite
<1>4. TotalTasks' = TotalTasks
  BY DEF TotalTasks
<1>5. CountsHold => CountsHold'
  <2> SUFFICES ASSUME CountsHold PROVE CountsHold'
    OBVIOUS
  <2>1. page'.counts["dead"] \in Nat /\ page'.counts["dead"] <= Cardinality(Rows({"dead"})')
    BY <1>2, <1>3 DEF CountsHold
  <2>2. TotalTasks' \in Nat /\ TotalTasks' <= Cardinality(Rows(Status)')
    BY <1>2, <1>3, <1>4 DEF CountsHold
  <2> QED BY <2>1, <2>2 DEF CountsHold
<1>6. DeadHold => DeadHold'
  BY DEF DeadHold, AtMost
<1>7. RecentHold => RecentHold'
  BY <1>4 DEF RecentHold, AtMost
<1>8. PageTyped'
  BY DEF PageInv, PageTyped
<1> QED BY <1>5, <1>6, <1>7, <1>8 DEF PageInv

LEMMA StatementSteps ==
  /\ Len(StatementOrder) = 4
  /\ StatementOrder[1] = "counts" /\ StatementOrder[2] = "failed"
  /\ StatementOrder[3] = "dead" /\ StatementOrder[4] = "recent"
BY DEF StatementOrder

(* A statement sees the rows as they are and changes its field only. *)
LEMMA ShowsStep ==
  ASSUME PageInv, NEW field \in DOMAIN page, NEW values, Shows(field, values)
  PROVE  /\ step \in 1..4 /\ StatementOrder[step] = field /\ step' = step + 1
         /\ PageTyped' /\ LifeTyped'
         /\ page'[field] \in values
         /\ \A g \in DOMAIN page \ {field} : page'[g] = page[g]
         /\ \A A : Rows(A)' = Rows(A)
<1>1. step \in 1..4 /\ StatementOrder[step] = field /\ step' = step + 1
  BY StatementSteps DEF Shows
<1>2. PICK v \in values : page' = [page EXCEPT ![field] = v]
  BY DEF Shows
<1>3. /\ page'[field] = v /\ DOMAIN page' = DOMAIN page
      /\ \A g \in DOMAIN page \ {field} : page'[g] = page[g]
  BY <1>2
<1>4. PageTyped'
  BY <1>1, <1>3 DEF PageInv, PageTyped
<1>5. LifeTyped' /\ \A A : Rows(A)' = Rows(A)
  BY DEF Shows, PageInv, LifeTyped, Rows
<1> QED BY <1>1, <1>2, <1>3, <1>4, <1>5

LEMMA NewestSize ==
  ASSUME NEW S \in SUBSET Task, NEW limit \in Nat, NEW L \in Newest(S, limit)
  PROVE  L \subseteq S /\ Cardinality(L) = AtMost(limit, Cardinality(S))
BY DEF Newest

LEMMA CountsInv ==
  ASSUME PageInv, Shows("counts", {CountByStatus}) PROVE PageInv'
<1>1. "counts" \in DOMAIN page
  BY DEF PageInv, PageTyped
<1>2. /\ step' = step + 1 /\ step = 1 /\ PageTyped' /\ LifeTyped'
      /\ page'["counts"] = CountByStatus /\ \A A : Rows(A)' = Rows(A)
  BY <1>1, ShowsStep, StatementSteps
<1>3. \A s \in Status : page'.counts[s] = Cardinality(Rows({s}))
  BY <1>2 DEF CountByStatus
<1>4. {"scheduled", "pending", "running", "success", "failed", "retrying", "dead"} = Status
  BY DEF Status
<1>5. /\ Cardinality(Rows({"dead"})) \in Nat /\ page'.counts["dead"] = Cardinality(Rows({"dead"}))
      /\ Rows({"dead"})' = Rows({"dead"})
  <2>1. Rows({"dead"}) \in SUBSET Task
    BY DEF Rows
  <2> QED BY <1>2, <1>3, <1>4, <2>1, RowsFinite
<1>6. /\ Cardinality(Rows(Status)) \in Nat /\ TotalTasks' = Cardinality(Rows(Status))
      /\ Rows(Status)' = Rows(Status)
  <2>1. Rows(Status) \in SUBSET Task
    BY DEF Rows
  <2>2. TotalTasks' = Cardinality(Rows({"scheduled"})) + Cardinality(Rows({"pending"}))
                        + Cardinality(Rows({"running"})) + Cardinality(Rows({"success"}))
                        + Cardinality(Rows({"failed"})) + Cardinality(Rows({"retrying"}))
                        + Cardinality(Rows({"dead"}))
    BY <1>3, <1>4 DEF TotalTasks
  <2>3. TotalTasks' = Cardinality(Rows(Status))
    BY <2>2, RowsSum, Zenon
  <2> QED BY <1>2, <2>1, <2>3, RowsFinite
<1>7. CountsHold'
  BY <1>5, <1>6 DEF CountsHold
<1>8. step' = 2
  BY <1>2
<1> QED BY <1>2, <1>7, <1>8 DEF PageInv

LEMMA FailedInv ==
  ASSUME PageInv, Shows("failed", RecentByStatus("failed", RecentLimit)) PROVE PageInv'
<1>1. "failed" \in DOMAIN page /\ "counts" \in DOMAIN page
  BY DEF PageInv, PageTyped
<1>2. /\ step' = 3 /\ step = 2 /\ PageTyped' /\ LifeTyped'
      /\ page'.counts = page.counts /\ \A A : Rows(A)' = Rows(A)
  BY <1>1, ShowsStep, StatementSteps
<1>3. CountsHold'
  <2>1. TotalTasks' = TotalTasks
    BY <1>2 DEF TotalTasks
  <2>2. CountsHold
    BY <1>2 DEF PageInv
  <2> QED BY <1>2, <2>1, <2>2 DEF CountsHold
<1> QED BY <1>2, <1>3 DEF PageInv

LEMMA DeadInv ==
  ASSUME PageInv, Shows("dead", RecentByStatus("dead", RecentLimit)) PROVE PageInv'
<1>1. "dead" \in DOMAIN page /\ "counts" \in DOMAIN page
  BY DEF PageInv, PageTyped
<1>2. /\ step' = 4 /\ step = 3 /\ PageTyped' /\ LifeTyped'
      /\ page'.dead \in RecentByStatus("dead", RecentLimit)
      /\ page'.counts = page.counts /\ \A A : Rows(A)' = Rows(A)
  BY <1>1, ShowsStep, StatementSteps
<1>3. CountsHold
  BY <1>2 DEF PageInv
<1>4. CountsHold'
  <2>1. TotalTasks' = TotalTasks
    BY <1>2 DEF TotalTasks
  <2> QED BY <1>2, <1>3, <2>1 DEF CountsHold
<1>5. DeadHold'
  <2>1. Rows({"dead"}) \in SUBSET Task
    BY DEF Rows
  <2>2. /\ page'.dead \subseteq Rows({"dead"})
        /\ Cardinality(page'.dead) = AtMost(RecentLimit, Cardinality(Rows({"dead"})))
    BY <1>2, <2>1, Limits, NewestSize DEF RecentByStatus
  <2>3. /\ page'.counts["dead"] \in Nat /\ Cardinality(Rows({"dead"})) \in Nat
        /\ page'.counts["dead"] <= Cardinality(Rows({"dead"}))
    BY <1>2, <1>3, <2>1, RowsFinite DEF CountsHold
  <2>4. AtMost(RecentLimit, page'.counts["dead"])
          <= AtMost(RecentLimit, Cardinality(Rows({"dead"})))
    BY <2>3, Limits, AtMostGrows
  <2>5. Cardinality(page'.dead) >= AtMost(RecentLimit, page'.counts["dead"])
    BY <2>2, <2>3, <2>4, Limits DEF AtMost
  <2> QED BY <1>2, <2>2, <2>5 DEF DeadHold
<1> QED BY <1>2, <1>4, <1>5 DEF PageInv

LEMMA RecentInv ==
  ASSUME PageInv, Shows("recent", Recent(ListLimit)) PROVE PageInv'
<1>1. {"recent", "dead", "counts"} \subseteq DOMAIN page
  BY DEF PageInv, PageTyped
<1>2. /\ step' = 5 /\ step = 4 /\ PageTyped' /\ LifeTyped'
      /\ page'.recent \in Recent(ListLimit)
      /\ page'.counts = page.counts /\ page'.dead = page.dead /\ \A A : Rows(A)' = Rows(A)
  BY <1>1, ShowsStep, StatementSteps
<1>3. CountsHold /\ DeadHold
  BY <1>2 DEF PageInv
<1>4. TotalTasks' = TotalTasks
  BY <1>2 DEF TotalTasks
<1>5. CountsHold'
  BY <1>2, <1>3, <1>4 DEF CountsHold
<1>6. DeadHold'
  BY <1>2, <1>3 DEF DeadHold, AtMost
<1>7. RecentHold'
  <2>1. Rows(Status) \in SUBSET Task
    BY DEF Rows
  <2>2. PICK L \in Newest(Rows(Status), ListLimit) :
          page'.recent = [t \in L |-> life[t].status]
    BY <1>2 DEF Recent
  <2>3. Cardinality(L) = AtMost(ListLimit, Cardinality(Rows(Status))) /\ DOMAIN page'.recent = L
    BY <2>1, <2>2, Limits, NewestSize
  <2>4. /\ TotalTasks' \in Nat /\ Cardinality(Rows(Status)) \in Nat
        /\ TotalTasks' <= Cardinality(Rows(Status))
    BY <1>3, <1>4, <2>1, RowsFinite DEF CountsHold
  <2>5. AtMost(ListLimit, TotalTasks') <= AtMost(ListLimit, Cardinality(Rows(Status)))
    BY <2>4, Limits, AtMostGrows
  <2>6. Cardinality(DOMAIN page'.recent) >= AtMost(ListLimit, TotalTasks')
    BY <2>3, <2>4, <2>5, Limits DEF AtMost
  <2>7. ASSUME NEW t \in page'.dead \cap DOMAIN page'.recent PROVE page'.recent[t] = "dead"
    BY <1>2, <1>3, <2>2, <2>3 DEF DeadHold, Rows
  <2> QED BY <2>6, <2>7 DEF RecentHold, AtMost
<1> QED BY <1>2, <1>5, <1>6, <1>7 DEF PageInv

LEMMA PageInductive == PageSpec => []PageInv
<1>1. PageInit => PageInv
  <2> SUFFICES ASSUME PageInit PROVE PageInv
    OBVIOUS
  <2>1. LifeTyped
    BY DEF PageInit, LifeInit, Unborn, LifeTyped
  <2>2. PageTyped /\ step = 0
    BY DEF PageInit, NoPage, PageTyped
  <2> QED BY <2>1, <2>2 DEF PageInv
<1>2. PageInv /\ [PageNext]_pageVars => PageInv'
  <2> SUFFICES ASSUME PageInv, [PageNext]_pageVars PROVE PageInv'
    OBVIOUS
  <2>1. CASE Live
    BY <2>1, LiveKeeps, LaterRows DEF Live, PageInv
  <2>2. ASSUME UNCHANGED life, PageTyped', step' \in {0, 1} PROVE PageInv'
    BY <2>2 DEF PageInv, LifeTyped
  <2>3. CASE Request
    BY <2>2, <2>3 DEF Request, PageInv, PageTyped
  <2>4. CASE Answer
    BY <2>2, <2>4 DEF Answer, NoPage, PageTyped
  <2>5. CASE handleDashboard
    BY <2>5, CountsInv, FailedInv, DeadInv, RecentInv DEF handleDashboard
  <2>6. CASE UNCHANGED pageVars
    <3>1. LifeTyped' /\ \A A : Rows(A)' = Rows(A)
      BY <2>6 DEF pageVars, PageInv, LifeTyped, Rows
    <3> QED BY <2>6, <3>1, LaterRows DEF pageVars
  <2> QED BY <2>1, <2>3, <2>4, <2>5, <2>6 DEF PageNext
<1> QED BY <1>1, <1>2, PTL DEF PageSpec

(***************************************************************************)
(* Whatever the number of tasks, the limits of the lists and what happens  *)
(* to the tasks between two statements of handleDashboard, a complete page *)
(* lists no fewer dead and recent tasks than it counts, up to the limits,  *)
(* and no task as dead and as something else.                              *)
(***************************************************************************)
THEOREM PageAgreesSafe == PageSpec => []PageAgrees
<1>1. PageInv => PageAgrees
  BY StatementSteps DEF PageInv, PageTyped, DeadHold, RecentHold, PageAgrees
<1> QED BY <1>1, PageInductive, PTL

=============================================================================
