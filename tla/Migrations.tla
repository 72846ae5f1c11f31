----------------------------- MODULE Migrations -----------------------------
(***************************************************************************)
(* scripts/migrate-up.sh, run by several people or jobs at once, killed at *)
(* any moment, and run again.  For every migration a run asks whether it   *)
(* is recorded; if not, it starts a transaction that takes an advisory     *)
(* lock, asks again, executes the file and records it.  The database is    *)
(* modelled by how the script uses it: a lock held until the transaction   *)
(* ends, and changes that are seen when it commits.                        *)
(***************************************************************************)
EXTENDS Naturals, FiniteSets

CONSTANTS Run,        \* concurrent runs of the script
          Versions,   \* number of migrations, applied in the order of names
          MaxCrashes, \* bound on the runs that are killed and started anew
          NoRun

ASSUME MigrationsAssumption ==
  /\ Versions \in Nat \ {0}
  /\ MaxCrashes \in Nat
  /\ NoRun \notin Run

VARIABLES pc,        \* what each run does next
          version,   \* the migration it is at
          exists,    \* the table schema_migrations exists
          recorded,  \* versions in schema_migrations
          executed,  \* committed executions of every file
          lock,      \* holder of the advisory lock
          crashes

vars == <<pc, version, exists, recorded, executed, lock, crashes>>

Version == 1..Versions

Init ==
  /\ pc = [r \in Run |-> "create"]
  /\ version = [r \in Run |-> 1]
  /\ exists = FALSE
  /\ recorded = {}
  /\ executed = [v \in Version |-> 0]
  /\ lock = NoRun
  /\ crashes = 0

-----------------------------------------------------------------------------

Goto(r, label) == pc' = [pc EXCEPT ![r] = label]

Free(r) == IF lock = r THEN NoRun ELSE lock

(* CREATE TABLE IF NOT EXISTS schema_migrations *)
CreateTable(r) ==
  /\ pc[r] = "create"
  /\ exists' = TRUE
  /\ Goto(r, "ask")
  /\ UNCHANGED <<version, recorded, executed, lock, crashes>>

(* Two runs create it at the same moment: one of them fails. *)
CreateFails(r) ==
  /\ ~exists
  /\ exists' = TRUE
  /\ \E q \in Run \ {r} :
       /\ pc[r] = "create" /\ pc[q] = "create"
       /\ pc' = [pc EXCEPT ![r] = "failed", ![q] = "ask"]
  /\ UNCHANGED <<version, recorded, executed, lock, crashes>>

(* Faulty variant: the last migration is left out. *)
AdvanceShort(r) ==
  IF version[r] + 1 >= Versions
  THEN Goto(r, "done") /\ UNCHANGED version
  ELSE Goto(r, "ask") /\ version' = [version EXCEPT ![r] = @ + 1]

(* The run goes on to the next migration, or is done. *)
Advance(r) ==
  IF version[r] = Versions
  THEN Goto(r, "done") /\ UNCHANGED version
  ELSE Goto(r, "ask") /\ version' = [version EXCEPT ![r] = @ + 1]

(* SELECT 1 FROM schema_migrations, outside of the transaction. *)
Ask(r) ==
  /\ pc[r] = "ask"
  /\ IF version[r] \in recorded THEN Advance(r)
                                ELSE Goto(r, "lock") /\ UNCHANGED version
  /\ UNCHANGED <<exists, recorded, executed, lock, crashes>>

(* BEGIN; pg_advisory_xact_lock *)
Lock(r) ==
  /\ pc[r] = "lock"
  /\ lock = NoRun
  /\ lock' = r
  /\ Goto(r, "check")
  /\ UNCHANGED <<version, exists, recorded, executed, crashes>>

(* Faulty variant: the second question is left out. *)
CheckNothing(r) ==
  /\ pc[r] = "check"
  /\ Goto(r, "execute")
  /\ UNCHANGED <<version, exists, recorded, executed, lock, crashes>>

(* already_applied: ask again, now under the lock. *)
Check(r) ==
  /\ pc[r] = "check"
  /\ Goto(r, IF version[r] \in recorded THEN "skip" ELSE "execute")
  /\ UNCHANGED <<version, exists, recorded, executed, lock, crashes>>

(* Faulty variant: the migration is tried once more. *)
SkipRepeats(r) ==
  /\ pc[r] = "skip"
  /\ Goto(r, "lock")
  /\ lock' = Free(r)
  /\ UNCHANGED <<version, exists, recorded, executed, crashes>>

(* COMMIT of a transaction that changed nothing. *)
Skip(r) ==
  /\ pc[r] = "skip"
  /\ Advance(r)
  /\ lock' = Free(r)
  /\ UNCHANGED <<exists, recorded, executed, crashes>>

(* The file, INSERT INTO schema_migrations and COMMIT. *)
Execute(r) ==
  /\ pc[r] = "execute"
  /\ recorded' = recorded \cup {version[r]}
  /\ executed' = [executed EXCEPT ![version[r]] = @ + 1]
  /\ lock' = Free(r)
  /\ Advance(r)
  /\ UNCHANGED <<exists, crashes>>

(* A statement fails: ON_ERROR_STOP, the transaction is rolled back, and   *)
(* the script exits.                                                       *)
ExecuteFails(r) ==
  /\ pc[r] = "execute"
  /\ lock' = Free(r)
  /\ Goto(r, "failed")
  /\ UNCHANGED <<version, exists, recorded, executed, crashes>>

(* The run is killed, its transaction is rolled back, or its COMMIT was    *)
(* executed and the answer is lost; or it failed.  It is started again.    *)
Restart(r) ==
  /\ pc[r] # "done" /\ crashes < MaxCrashes
  /\ crashes' = crashes + 1
  /\ lock' = Free(r)
  /\ Goto(r, "create")
  /\ version' = [version EXCEPT ![r] = 1]
  /\ \/ UNCHANGED <<recorded, executed>>
     \/ /\ pc[r] = "execute"
        /\ recorded' = recorded \cup {version[r]}
        /\ executed' = [executed EXCEPT ![version[r]] = @ + 1]
  /\ UNCHANGED exists

Step(r) == \/ CreateTable(r) \/ Ask(r) \/ Lock(r) \/ Check(r) \/ Skip(r) \/ Execute(r)

Over == (\A r \in Run : pc[r] \in {"done", "failed"}) /\ UNCHANGED vars

Next == \/ \E r \in Run : Step(r) \/ CreateFails(r) \/ ExecuteFails(r) \/ Restart(r)
        \/ Over

Spec == Init /\ [][Next]_vars

(* A run that is not killed goes on, and gets the lock when it is free     *)
(* time and again: Postgres serves waiting transactions in order.          *)
FairSpec == Spec /\ \A r \in Run :
              WF_vars(Step(r)) /\ SF_vars(Lock(r))

-----------------------------------------------------------------------------
(* Properties. *)

(***************************************************************************)
(* No migration is executed twice, and one only after those before it:     *)
(* what concurrent runs found unrecorded before they took the lock does    *)
(* not count (migrate-up.sh, already_applied).                             *)
(***************************************************************************)
ExecutedOnceInOrder ==
  \A v \in Version : /\ executed[v] <= 1
                     /\ executed[v] = 1 => \A u \in 1..v : executed[u] = 1

(***************************************************************************)
(* A run that exits without an error leaves a complete schema, whoever     *)
(* executed the migrations (migrate-up.sh, exit 1).                        *)
(***************************************************************************)
DoneIsComplete ==
  \A r \in Run : pc[r] = "done" => recorded = Version

(***************************************************************************)
(* Every run ends: the lock is given back when a run skips a migration,    *)
(* fails or is killed, and a skipped migration is not tried again (the     *)
(* lock of migrate-up.sh is that of the transaction).                      *)
(***************************************************************************)
EveryRunEnds == \A r \in Run : <>(pc[r] \in {"done", "failed"})

=============================================================================
