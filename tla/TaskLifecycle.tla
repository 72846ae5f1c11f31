--------------------------- MODULE TaskLifecycle ---------------------------
(***************************************************************************)
(* What the queue promises about a single task, whatever workers,          *)
(* schedulers, crashes and lost replies do: its life is a sequence of      *)
(* attempts, each claimed once, each ending in success or in one failure   *)
(* that is charged exactly once; a charged failure leads to one more       *)
(* attempt while the budget lasts; success and dead are final.             *)
(***************************************************************************)
EXTENDS TaskStatus

CONSTANT Budget    \* values max_retries may take

VARIABLE life      \* status, charged retries and budget of every task

Unborn == [status |-> "absent", retries |-> 0, budget |-> 0]

LifeInit == life = [t \in Task |-> Unborn]

(* The task moves from one status to another, charged n more retries. *)
Move(t, from, to, n) ==
  /\ life[t].status = from
  /\ life' = [life EXCEPT ![t] = [status |-> to,
                                 retries |-> life[t].retries + n,
                                 budget |-> life[t].budget]]

Submitted(t) ==
  /\ life[t].status = "absent"
  /\ \E b \in Budget, s \in {"scheduled", "pending"} :
       life' = [life EXCEPT ![t] = [status |-> s, retries |-> 0, budget |-> b]]

Released(t) == \E s \in {"scheduled", "retrying"} : Move(t, s, "pending", 0)

Claimed(t) == Move(t, "pending", "running", 0)

Ended(t) == \E s \in {"success", "failed"} : Move(t, "running", s, 0)

Charged(t) == life[t].retries < life[t].budget /\ Move(t, "failed", "retrying", 1)

Buried(t) == Move(t, "failed", "dead", 0)

LifeNext == \E t \in Task : \/ Submitted(t) \/ Released(t) \/ Claimed(t)
                            \/ Ended(t) \/ Charged(t) \/ Buried(t)

LifeSpec == LifeInit /\ [][LifeNext]_life

=============================================================================
