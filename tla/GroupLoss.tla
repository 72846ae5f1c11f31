----------------------------- MODULE GroupLoss -----------------------------
(***************************************************************************)
(* GoTaskQueue where Redis loses the consumer group, at any moment: XGROUP *)
(* DESTROY, or a restart from a snapshot older than the group.  The stream *)
(* survives.  XREADGROUP and XPENDING answer NOGROUP, and the worker that  *)
(* gets the answer creates the group again, to be given every message of   *)
(* the stream from the start, as a new one; what the group knew of         *)
(* deliveries and acknowledgements is gone.  Goroutines in the midst of a  *)
(* message go on, and so do their acknowledgements.                        *)
(*                                                                         *)
(* Loss and creation are one step: between them only XADD and XACK can     *)
(* succeed, and XACK has no effect.                                        *)
(***************************************************************************)
EXTENDS GoTaskQueue

CONSTANT MaxLosses   \* bound on the losses of the group

ASSUME LossAssumption == MaxLosses \in Nat

VARIABLE losses

lossVars == <<vars, losses>>

LossInit == Init /\ losses = 0

(* Faulty variant: XGROUP CREATE at the end of the stream. *)
EnsureGroupAtEnd ==
  /\ delivered' = Len(stream)
  /\ pel' = {}
  /\ idle' = {}

(* XGROUP CREATE ... 0 MKSTREAM *)
EnsureGroup ==
  /\ delivered' = 0
  /\ pel' = {}
  /\ idle' = {}

GroupLost ==
  /\ losses < MaxLosses
  /\ losses' = losses + 1
  /\ EnsureGroup
  /\ UNCHANGED <<tasks, stream, zset, zdue, deadStream, workerVars, sched, req>>
  /\ Quiet

LossNext == (Next /\ UNCHANGED losses) \/ GroupLost

LossSpec == LossInit /\ [][LossNext]_lossVars

LossFairSpec == LossSpec /\ Fairness

-----------------------------------------------------------------------------
(***************************************************************************)
(* The properties are those of GoTaskQueue.  NoOrphan: every task that     *)
(* waits for a worker still has a message to be delivered, for EnsureGroup *)
(* starts the group at 0.  ImplementsLifecycle and QueueDrains: the        *)
(* messages of tasks that run, wait or are finished come again, as new     *)
(* ones, and do no harm; they are acknowledged in the end.                 *)
(***************************************************************************)

=============================================================================
