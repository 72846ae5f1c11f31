----------------------------- MODULE DocClaims -----------------------------
(* What docs/mvp.md says about crashes, checked against GoTaskQueue. *)
EXTENDS GoTaskQueue

(* docs/mvp.md: a task can be processed again after its worker crashed,    *)
(* here when workers are all that fails (worker.go handleExecutionFailure  *)
(* between MarkFailed and CompleteFailure).                                *)
CrashedTaskRecovered == \A t \in Task : Exists(t) ~> Done(t)

=============================================================================
