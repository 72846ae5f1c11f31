-------------------------- MODULE PendingRecovery --------------------------
(***************************************************************************)
(* Who gets a turn in the recovery of pending messages.  ClaimPending      *)
(* lists the first ClaimBatch entries that have been idle for MinIdle, in  *)
(* the order of their ids, and claims them, which sets their idle time to  *)
(* zero; the loop of a worker does this when a tick of its own has passed  *)
(* since it last did.  Time is counted in these ticks: MinIdle is          *)
(* pendingMinIdle divided by pendingRecoveryTick (30 s and 5 s by          *)
(* default).  It passes at any moment: while a loop waits for a slot for   *)
(* one of its messages, between XPENDING and XCLAIM, and while handlers    *)
(* run, so a loop may miss any number of ticks and a message may become    *)
(* idle, and be recovered by others, in the hands of who has it.           *)
(*                                                                         *)
(* What handling a message comes to depends on its task.  It is stuck if   *)
(* the task is failed and its second update never came: it is claimed and  *)
(* given up forever, and never acknowledged.  The others are acknowledged, *)
(* unless a call fails or the task is retrying until its backoff is over   *)
(* (HandlerFails).                                                         *)
(***************************************************************************)
EXTENDS Naturals, FiniteSets

CONSTANTS WorkerID,
          Concurrency,  \* slots in the semaphore of one worker
          Entries,      \* bound on the ids
          MinIdle, ClaimBatch, BatchSize,
          MaxStuck,     \* bound on the stuck messages
          MaxFaults     \* bound on the faults

ASSUME RecoveryAssumption ==
  /\ {Entries, MaxStuck, MaxFaults} \subseteq Nat
  /\ {Concurrency, MinIdle, ClaimBatch, BatchSize} \subseteq Nat \ {0}

VARIABLES stuck,  \* the messages of stuck tasks
          last,   \* id of the newest delivered message
          pel,    \* delivered, and not acknowledged
          idle,   \* ticks since each was delivered or claimed, up to MinIdle
          due,    \* a tick has passed since the worker's last recovery
          loop,   \* where the loop of each worker is, the messages it listed
                  \* or still has to start, and how long it has had those
          slot,   \* the message each handler works on, and how long the
                  \* worker has had it
          faults  \* faults so far

vars == <<stuck, last, pel, idle, due, loop, slot, faults>>

Entry == 1..Entries

Slot == 1..Concurrency

Free == [msg |-> 0, held |-> 0]

Top == [at |-> "top", ids |-> {}, held |-> 0]

TypeOK ==
  /\ stuck \subseteq 1..last /\ Cardinality(stuck) <= MaxStuck
  /\ last \in 0..Entries
  /\ pel \subseteq 1..last
  /\ idle \in [Entry -> 0..MinIdle]
  /\ due \in [WorkerID -> BOOLEAN]
  /\ loop \in [WorkerID -> [at : {"top", "claim", "start", "read", "startRead"},
                            ids : SUBSET (1..last), held : 0..MinIdle]]
  /\ slot \in [WorkerID -> [Slot -> [msg : 0..last, held : 0..MinIdle]]]
  /\ faults \in 0..MaxFaults

Init ==
  /\ stuck = {}
  /\ last = 0
  /\ pel = {}
  /\ idle = [e \in Entry |-> 0]
  /\ due = [w \in WorkerID |-> TRUE]
  /\ loop = [w \in WorkerID |-> Top]
  /\ slot = [w \in WorkerID |-> [s \in Slot |-> Free]]
  /\ faults = 0

-----------------------------------------------------------------------------
(* The loop. *)

(* What follows when no message is left to claim or to start. *)
After(at) == IF at = "startRead" THEN "top" ELSE "read"

(* The loop goes on with the messages that it has just been given. *)
Go(w, at, ids) ==
  loop' = [loop EXCEPT ![w] = IF ids = {} THEN [Top EXCEPT !.at = After(at)]
                              ELSE [at |-> at, ids |-> ids, held |-> 0]]

Idle == {e \in pel : idle[e] = MinIdle}

Reset(S) == idle' = [e \in Entry |-> IF e \in S THEN 0 ELSE idle[e]]

(* shouldRecoverPending; XPENDING IDLE MinIdle - + ClaimBatch. *)
Inspect(w) ==
  /\ loop[w].at = "top" /\ due[w]
  /\ due' = [due EXCEPT ![w] = FALSE]
  /\ LET listed == {e \in Idle : Cardinality({f \in Idle : f < e}) < ClaimBatch}
     IN  Go(w, "claim", listed)
  /\ UNCHANGED <<stuck, last, pel, idle, slot, faults>>

(* Faulty variant: XCLAIM without a minimal idle time. *)
ClaimWhatWasListed(w) ==
  /\ loop[w].at = "claim"
  /\ Go(w, "start", loop[w].ids \cap pel)
  /\ Reset(loop[w].ids)
  /\ UNCHANGED <<stuck, last, pel, due, slot, faults>>

(* XCLAIM takes what is still pending and still idle. *)
Claim(w) ==
  /\ loop[w].at = "claim"
  /\ Go(w, "start", loop[w].ids \cap Idle)
  /\ Reset(loop[w].ids \cap Idle)
  /\ UNCHANGED <<stuck, last, pel, due, slot, faults>>

(* acquireSlot and spawnHandle, for one message after another. *)
Start(w) ==
  /\ loop[w].at \in {"start", "startRead"}
  /\ \E e \in loop[w].ids, s \in Slot :
       /\ \A f \in loop[w].ids : e <= f
       /\ slot[w][s] = Free
       /\ slot' = [slot EXCEPT ![w][s] = [msg |-> e, held |-> loop[w].held]]
       /\ loop' = [loop EXCEPT ![w] = IF loop[w].ids = {e}
                                      THEN [Top EXCEPT !.at = After(loop[w].at)]
                                      ELSE [loop[w] EXCEPT !.ids = loop[w].ids \ {e}]]
  /\ UNCHANGED <<stuck, last, pel, idle, due, faults>>

Reading(w) == loop[w].at = "read" \/ (loop[w].at = "top" /\ ~due[w])

(* XREADGROUP delivers n new messages; which of them will be stuck is      *)
(* settled here.                                                           *)
Deliver(n) ==
  /\ last + n <= Entries
  /\ last' = last + n
  /\ pel' = pel \cup (last + 1)..(last + n)
  /\ \E S \in SUBSET ((last + 1)..(last + n)) :
       stuck' = stuck \cup S /\ Cardinality(stuck \cup S) <= MaxStuck

(* ReadBatch returns new messages, or none within its time. *)
Read(w) ==
  /\ Reading(w)
  /\ \E n \in 0..BatchSize :
       Deliver(n) /\ Go(w, "startRead", (last + 1)..(last + n))
  /\ UNCHANGED <<idle, due, slot, faults>>

Loop(w) == Inspect(w) \/ Claim(w) \/ Start(w) \/ Read(w)

-----------------------------------------------------------------------------
(* The handlers, and time. *)

(* XACK. *)
Ack(e) == pel' = pel \ {e} /\ Reset({e})

(* Faulty variant: the slot is given back only if all went well. *)
ReturnLeaksSlot(w, s) ==
  /\ slot[w][s] # Free
  /\ IF slot[w][s].msg \notin stuck
     THEN Ack(slot[w][s].msg) /\ slot' = [slot EXCEPT ![w][s] = Free]
     ELSE UNCHANGED <<pel, idle, slot>>
  /\ UNCHANGED <<stuck, last, due, loop, faults>>

(* handleMessage acknowledges the message, or returns an error for a stuck *)
(* task; either way the slot is given back.                                *)
Return(w, s) ==
  /\ slot[w][s] # Free
  /\ IF slot[w][s].msg \notin stuck THEN Ack(slot[w][s].msg)
                                      ELSE UNCHANGED <<pel, idle>>
  /\ slot' = [slot EXCEPT ![w][s] = Free]
  /\ UNCHANGED <<stuck, last, due, loop, faults>>

Older(n) == IF n < MinIdle THEN n + 1 ELSE n

(* A tick passes, whatever the workers are doing. *)
Tick ==
  /\ idle' = [e \in Entry |-> IF e \in pel THEN Older(idle[e]) ELSE idle[e]]
  /\ due' = [w \in WorkerID |-> TRUE]
  /\ loop' = [w \in WorkerID |-> IF loop[w].at \in {"start", "startRead"}
                                 THEN [loop[w] EXCEPT !.held = Older(@)] ELSE loop[w]]
  /\ slot' = [w \in WorkerID |-> [s \in Slot |->
                IF slot[w][s] = Free THEN Free ELSE [slot[w][s] EXCEPT !.held = Older(@)]]]
  /\ UNCHANGED <<stuck, last, pel, faults>>

-----------------------------------------------------------------------------
(* Faults. *)

(* XPENDING fails: the loop starts over, and its turn is lost. *)
InspectFails(w) ==
  /\ loop[w].at = "top" /\ due[w]
  /\ due' = [due EXCEPT ![w] = FALSE]
  /\ UNCHANGED <<stuck, last, pel, idle, loop, slot>>

(* XCLAIM fails, whether Redis claimed or not: the loop starts over,       *)
(* without the messages.                                                   *)
ClaimFails(w) ==
  /\ loop[w].at = "claim"
  /\ loop' = [loop EXCEPT ![w] = Top]
  /\ Reset(loop[w].ids \cap Idle) \/ UNCHANGED idle
  /\ UNCHANGED <<stuck, last, pel, due, slot>>

(* XREADGROUP fails, after it has delivered messages that nobody gets. *)
ReadFails(w) ==
  /\ Reading(w)
  /\ \E n \in 0..BatchSize : Deliver(n)
  /\ loop' = [loop EXCEPT ![w] = Top]
  /\ UNCHANGED <<idle, due, slot>>

(* A call of handleMessage fails, or the task cannot be claimed yet: no    *)
(* acknowledgement.                                                        *)
HandlerFails(w, s) ==
  /\ slot[w][s] # Free
  /\ slot' = [slot EXCEPT ![w][s] = Free]
  /\ UNCHANGED <<stuck, last, pel, idle, due, loop>>

(* The process dies and is started again. *)
Crash(w) ==
  /\ loop' = [loop EXCEPT ![w] = Top]
  /\ slot' = [slot EXCEPT ![w] = [s \in Slot |-> Free]]
  /\ due' = [due EXCEPT ![w] = TRUE]
  /\ UNCHANGED <<stuck, last, pel, idle>>

Fault(w) ==
  /\ faults < MaxFaults
  /\ faults' = faults + 1
  /\ \/ InspectFails(w) \/ ClaimFails(w) \/ ReadFails(w) \/ Crash(w)
     \/ \E s \in Slot : HandlerFails(w, s)

-----------------------------------------------------------------------------

Next ==
  \/ \E w \in WorkerID : Loop(w) \/ Fault(w) \/ \E s \in Slot : Return(w, s)
  \/ Tick

Spec == Init /\ [][Next]_vars

(* Loops go on, handlers return (executeWithTimeout) and time passes;      *)
(* nothing has to fail.                                                    *)
FairSpec ==
  /\ Spec
  /\ \A w \in WorkerID : WF_vars(Loop(w)) /\ \A s \in Slot : WF_vars(Return(w, s))
  /\ WF_vars(Tick)

-----------------------------------------------------------------------------
(* Properties. *)

(* The hands a message may be in: a loop that has to start its handler     *)
(* (place 0), or the handler in a slot.                                    *)
Hands == WorkerID \X (0..Concurrency)

Holds(h, e) ==
  IF h[2] = 0 THEN loop[h[1]].at # "claim" /\ e \in loop[h[1]].ids
              ELSE slot[h[1]][h[2]].msg = e

HeldFor(h) == IF h[2] = 0 THEN loop[h[1]].held ELSE slot[h[1]][h[2]].held

(***************************************************************************)
(* A message is in several hands at once, even in two of one worker, only  *)
(* because it was silent: of any two hands that hold it, one has had it    *)
(* for MinIdle.  Any number of workers may list it before the first claims *)
(* it, however long ago, and all but the first claim nothing (ClaimPending *)
(* repeats the idle time in XCLAIM).  So the hands that are on a message   *)
(* are MinIdle apart, and a message just read is nobody else's.            *)
(***************************************************************************)
TakenOverWhenIdle ==
  \A e \in Entry, g, h \in Hands :
    g # h /\ Holds(g, e) /\ Holds(h, e) => HeldFor(g) = MinIdle \/ HeldFor(h) = MinIdle

(***************************************************************************)
(* docs/mvp.md: messages beyond the idle time are handed to a worker by    *)
(* XCLAIM.  Every message that can be handled is, if fewer messages are    *)
(* stuck than one listing returns (Count of ClaimPending): then they       *)
(* cannot fill it.  ClaimBatch of them can: a loop that waits longer than  *)
(* pendingMinIdle for its slots finds them idle again every time, and they *)
(* come first.  More workers do not help: they list the same entries.      *)
(***************************************************************************)
EveryMessageRecovered ==
  \A e \in Entry : (e \in pel \ stuck) ~> (e \notin pel)

=============================================================================
