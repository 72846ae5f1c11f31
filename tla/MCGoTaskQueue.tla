--------------------------- MODULE MCGoTaskQueue ---------------------------
(* GoTaskQueue for TLC: the symmetries of its constants. *)
EXTENDS GoTaskQueue, TLC

(* Only for safety runs: symmetry is unsound for liveness. *)
WorkerSymmetry == Permutations(WorkerID)
SchedulerSymmetry == Permutations(SchedulerID)
TaskSymmetry == Permutations(Task)
ActorSymmetry == WorkerSymmetry \cup SchedulerSymmetry \cup TaskSymmetry

=============================================================================
