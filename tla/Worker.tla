------------------------------- MODULE Worker -------------------------------
(***************************************************************************)
(* worker.Worker: the consumer loop of every worker and the goroutines it  *)
(* spawns, one per message, bounded by a semaphore of Concurrency slots.   *)
(*                                                                         *)
(* The loop (Run) alternates between recovering pending messages, at most  *)
(* once per recovery tick, and reading new ones; it blocks on the          *)
(* semaphore before each spawn.  A goroutine runs handleMessage, whose     *)
(* calls to Postgres and Redis are separate steps: between any two of them *)
(* other goroutines, workers and schedulers run.                           *)
(*                                                                         *)
(* The steps here are those of calls that succeed, ErrNotFound included.   *)
(* Failing calls and crashes are in the section at the end.                *)
(***************************************************************************)
EXTENDS TaskStore, RedisQueue

CONSTANTS Concurrency,   \* slots of a worker
          BatchSize,     \* COUNT of XREADGROUP
          ClaimBatch     \* COUNT of XPENDING

ASSUME WorkerAssumption ==
  /\ Concurrency \in Nat \ {0}
  /\ BatchSize \in Nat \ {0}
  /\ ClaimBatch \in Nat \ {0}

VARIABLES loop,   \* the consumer loop of every worker
          slot    \* the goroutine in every semaphore slot

workerVars == <<loop, slot>>

Slot == WorkerID \X (1..Concurrency)

SlotsOf(w) == {s \in Slot : s[1] = w}

(***************************************************************************)
(* Where the loop stands: about to start an iteration, between XPENDING    *)
(* and XCLAIM, handing out what it claimed or read (ids), or past the      *)
(* recovery and about to read.  recoverDue says that pendingRecoveryTick   *)
(* has passed since the last recovery, or that there was none.             *)
(***************************************************************************)
LoopPhase == {"top", "claim", "spawnRecovered", "read", "spawnRead"}

LoopStart == [phase |-> "top", ids |-> {}, recoverDue |-> TRUE]

(***************************************************************************)
(* The next call of a goroutine: Get, the claiming Transition, the handler *)
(* with the update that follows its return, CompleteFailure, PublishDead,  *)
(* Ack.  What the handler does is outside the program's state, so its      *)
(* return and the update are one step.                                     *)
(***************************************************************************)
SlotPC == {"free", "get", "claim", "exec", "complete", "deadpub", "ack"}

FreeSlot == [pc |-> "free", msg |-> 0, recovered |-> FALSE,
             decision |-> NoDecision]

LoopTypeOK ==
  /\ loop \in [WorkerID -> [phase : LoopPhase,
                            ids : SUBSET Nat,
                            recoverDue : BOOLEAN]]
  /\ \A w \in WorkerID : loop[w].ids \subseteq Entry

SlotTypeOK ==
  /\ slot \in [Slot -> [pc : SlotPC,
                        msg : Nat,
                        recovered : BOOLEAN,
                        decision : FailureDecision \cup {NoDecision}]]
  /\ \A s \in Slot : /\ slot[s].pc # "free" => slot[s].msg \in Entry
                     /\ slot[s].pc = "complete" =>
                          slot[s].decision \in FailureDecision

WorkerTypeOK == LoopTypeOK /\ SlotTypeOK

WorkerInit ==
  /\ loop = [w \in WorkerID |-> LoopStart]
  /\ slot = [s \in Slot |-> FreeSlot]

-----------------------------------------------------------------------------
(* The consumer loop. *)

(* XPENDING of recoverPending, when the recovery tick has elapsed. *)
InspectPending(w) ==
  /\ loop[w].phase = "top" /\ loop[w].recoverDue
  /\ LET ids == XPending(ClaimBatch)
     IN  loop' = [loop EXCEPT ![w] =
                    [phase |-> IF ids = {} THEN "read" ELSE "claim",
                     ids |-> ids, recoverDue |-> FALSE]]
  /\ UNCHANGED <<tasks, redisVars, slot>>

(* Faulty variant: what was claimed is not handed to goroutines. *)
ClaimAndForget(w) ==
  /\ loop[w].phase = "claim"
  /\ XClaim(loop[w].ids)
  /\ loop' = [loop EXCEPT ![w].phase = "read", ![w].ids = {}]
  /\ UNCHANGED <<tasks, slot>>

(* XCLAIM of what XPENDING listed. *)
ClaimPending(w) ==
  /\ loop[w].phase = "claim"
  /\ XClaim(loop[w].ids)
  /\ LET ids == XClaimed(loop[w].ids)
     IN  loop' = [loop EXCEPT
                    ![w].phase = IF ids = {} THEN "read" ELSE "spawnRecovered",
                    ![w].ids = ids]
  /\ UNCHANGED <<tasks, slot>>

(* Past the recovery of this iteration, or not due for one. *)
AtRead(w) == \/ loop[w].phase = "read"
             \/ loop[w].phase = "top" /\ ~loop[w].recoverDue

(* XREADGROUP returns new entries. *)
ReadBatch(w) ==
  /\ AtRead(w)
  /\ delivered < Len(stream)
  /\ XReadGroup(BatchSize)
  /\ loop' = [loop EXCEPT ![w].phase = "spawnRead",
                          ![w].ids = (delivered + 1)..ReadUpTo(BatchSize)]
  /\ UNCHANGED <<tasks, slot>>

(* XREADGROUP blocks until it times out: ErrNoMessages. *)
ReadNothing(w) ==
  /\ loop[w].phase = "read"
  /\ delivered = Len(stream)
  /\ loop' = [loop EXCEPT ![w].phase = "top"]
  /\ UNCHANGED <<tasks, redisVars, slot>>

(* acquireSlot and spawnHandle for the first message not handed out yet. *)
SpawnHandle(w) ==
  /\ loop[w].phase \in {"spawnRecovered", "spawnRead"}
  /\ \E i \in 1..Concurrency, e \in loop[w].ids :
       /\ slot[<<w, i>>].pc = "free"
       /\ \A j \in 1..(i - 1) : slot[<<w, j>>].pc # "free"
       /\ \A f \in loop[w].ids : e <= f
       /\ slot' = [slot EXCEPT ![<<w, i>>] =
                     [FreeSlot EXCEPT !.pc = "get", !.msg = e,
                                      !.recovered =
                                         (loop[w].phase = "spawnRecovered")]]
       /\ LET rest == loop[w].ids \ {e}
          IN  loop' = [loop EXCEPT
                         ![w].ids = rest,
                         ![w].phase = IF rest # {} THEN @
                                      ELSE IF @ = "spawnRecovered" THEN "read"
                                      ELSE "top"]
  /\ UNCHANGED <<tasks, redisVars>>

RecoveryTickElapses(w) ==
  /\ ~loop[w].recoverDue
  /\ loop' = [loop EXCEPT ![w].recoverDue = TRUE]
  /\ UNCHANGED <<tasks, redisVars, slot>>

-----------------------------------------------------------------------------
(* handleMessage. *)

TaskOf(s) == stream[slot[s].msg]

(* The goroutine goes on to this call, or returns when pc is "free". *)
Goto(s, pc) ==
  slot' = [slot EXCEPT ![s] = IF pc = "free" THEN FreeSlot
                              ELSE [FreeSlot EXCEPT !.pc = pc,
                                                !.msg = slot[s].msg]]

(* Faulty variant: a message of a finished task is skipped, but kept. *)
GetTaskNoAck(s) ==
  /\ slot[s].pc = "get"
  /\ LET status == tasks[TaskOf(s)].status
     IN  Goto(s, CASE status = "absent" \/ IsTerminal(status) -> "free"
                   [] slot[s].recovered /\ status = "running" -> "exec"
                   [] OTHER -> "claim")
  /\ UNCHANGED <<tasks, redisVars, loop>>

(* A message of a finished task is acknowledged and skipped; a recovered   *)
(* message of a running task goes straight to the handler.                 *)
GetTask(s) ==
  /\ slot[s].pc = "get"
  /\ LET status == tasks[TaskOf(s)].status
     IN  Goto(s, CASE status = "absent" -> "free"
                   [] IsTerminal(status) -> "ack"
                   [] slot[s].recovered /\ status = "running" -> "exec"
                   [] OTHER -> "claim")
  /\ UNCHANGED <<tasks, redisVars, loop>>

ClaimTask(s) ==
  /\ slot[s].pc = "claim"
  /\ Transition(TaskOf(s), "pending", "running", s[1])
  /\ Goto(s, IF Hits(TaskOf(s), "pending") THEN "exec" ELSE "free")
  /\ UNCHANGED <<redisVars, loop>>

(* The handler returns no error before the deadline, and the task is       *)
(* marked successful if it is still running.                               *)
SucceedTask(s) ==
  /\ slot[s].pc = "exec"
  /\ Transition(TaskOf(s), "running", "success", s[1])
  /\ Goto(s, IF Hits(TaskOf(s), "running") THEN "ack" ELSE "free")
  /\ UNCHANGED <<redisVars, loop>>

(* The handler returns an error, or returns after the deadline.  Marking   *)
(* the task failed returns its row, from which the decision is taken.      *)
FailTask(s, nonRetryable) ==
  /\ slot[s].pc = "exec"
  /\ MarkFailed(TaskOf(s))
  /\ LET row == tasks[TaskOf(s)]
     IN  slot' = [slot EXCEPT ![s] =
           IF ~Hits(TaskOf(s), "running") THEN FreeSlot
           ELSE [FreeSlot EXCEPT
                   !.pc = "complete",
                   !.msg = slot[s].msg,
                   !.decision = IF nonRetryable
                                THEN NonRetryableDecision(row.retry_count)
                                ELSE DecideFailure(row.retry_count,
                                                   row.max_retries)]]
  /\ UNCHANGED <<redisVars, loop>>

(* Faulty variant: a dead task is not sent to the dead stream. *)
FinishNoDeadLetter(s) ==
  /\ slot[s].pc = "complete"
  /\ CompleteFailure(TaskOf(s), slot[s].decision)
  /\ Goto(s, IF Hits(TaskOf(s), "failed") THEN "ack" ELSE "free")
  /\ UNCHANGED <<redisVars, loop>>

FinishFailure(s) ==
  /\ slot[s].pc = "complete"
  /\ CompleteFailure(TaskOf(s), slot[s].decision)
  /\ Goto(s, CASE ~Hits(TaskOf(s), "failed") -> "free"
               [] slot[s].decision.status = "dead" -> "deadpub"
               [] OTHER -> "ack")
  /\ UNCHANGED <<redisVars, loop>>

SendDead(s) ==
  /\ slot[s].pc = "deadpub"
  /\ PublishDead(TaskOf(s))
  /\ Goto(s, "ack")
  /\ UNCHANGED <<tasks, loop>>

AckMessage(s) ==
  /\ slot[s].pc = "ack"
  /\ Ack(slot[s].msg)
  /\ Goto(s, "free")
  /\ UNCHANGED <<tasks, loop>>

HandleMessage(s) ==
  \/ GetTask(s)
  \/ ClaimTask(s)
  \/ SucceedTask(s)
  \/ \E nonRetryable \in BOOLEAN : FailTask(s, nonRetryable)
  \/ FinishFailure(s)
  \/ SendDead(s)
  \/ AckMessage(s)

-----------------------------------------------------------------------------
(* What goes wrong around a worker. *)

(* Faulty variant: the message is acknowledged whatever handleMessage says. *)
HandleErrorAcks(s) ==
  /\ slot[s].pc # "free"
  /\ Goto(s, "ack")
  /\ UNCHANGED <<tasks, redisVars, loop>>

(***************************************************************************)
(* A call of handleMessage returns an error: the goroutine returns without *)
(* acknowledging.  Taken after a step that changed Postgres or Redis, this *)
(* is also the lost reply to that step; taken at "exec", it is the lost    *)
(* reply to the claim (the handler never starts), or the failure of the    *)
(* update after the handler.                                               *)
(***************************************************************************)
HandleError(s) ==
  /\ slot[s].pc # "free"
  /\ Goto(s, "free")
  /\ UNCHANGED <<tasks, redisVars, loop>>

(* PublishDead fails: a warning, and the message is acknowledged. *)
DeadPublishError(s) ==
  /\ slot[s].pc = "deadpub"
  /\ Goto(s, "ack")
  /\ UNCHANGED <<tasks, redisVars, loop>>

(* XPENDING, XCLAIM or XREADGROUP fails without effect: the loop waits and *)
(* starts over; a failed recovery is not tried again before the next tick. *)
LoopError(w) ==
  /\ loop[w].phase \in {"top", "claim", "read"}
  /\ loop' = [loop EXCEPT ![w] =
                [phase |-> "top", ids |-> {},
                 recoverDue |-> @.recoverDue /\ @.phase # "top"]]
  /\ UNCHANGED <<tasks, redisVars, slot>>

(* The reply to XCLAIM is lost: claimed, and handed to no goroutine. *)
ClaimReplyLost(w) ==
  /\ loop[w].phase = "claim"
  /\ XClaim(loop[w].ids)
  /\ loop' = [loop EXCEPT ![w].phase = "top", ![w].ids = {}]
  /\ UNCHANGED <<tasks, slot>>

(* The reply to XREADGROUP is lost: delivered, and handed to nobody. *)
ReadReplyLost(w) ==
  /\ AtRead(w)
  /\ delivered < Len(stream)
  /\ XReadGroup(BatchSize)
  /\ loop' = [loop EXCEPT ![w].phase = "top"]
  /\ UNCHANGED <<tasks, slot>>

(* The process dies and is started again. *)
WorkerCrash(w) ==
  /\ loop' = [loop EXCEPT ![w] = LoopStart]
  /\ slot' = [s \in Slot |-> IF s[1] = w THEN FreeSlot ELSE slot[s]]
  /\ UNCHANGED <<tasks, redisVars>>

=============================================================================
