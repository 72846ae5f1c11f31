----------------------------- MODULE Submission -----------------------------
(***************************************************************************)
(* POST /tasks, from the request body to the answer: validation and        *)
(* defaults (httpserver/tasks.go), the one statement of Store.Create,      *)
(* which inserts the row or selects the one that has the idempotency key,  *)
(* and the second call of Service.Create, which publishes the task or puts *)
(* it into the sorted set.  Any number of requests run concurrently.       *)
(*                                                                         *)
(* The statement runs under READ COMMITTED.  Its SELECT sees the rows that *)
(* were committed when it began; its INSERT meets the rows of the unique   *)
(* index as they are now: it waits for one that is not committed yet, and  *)
(* does nothing when one is.  newID is unique, so the id of a task is the  *)
(* request that created it.                                                *)
(*                                                                         *)
(* PublishTask is one call of the program, but the Redis client sends its  *)
(* XADD again when the reply does not come, at most Resends times: a call  *)
(* may leave more than one message.  To send ZADD again changes nothing.   *)
(*                                                                         *)
(* A spelling of a key is its text and whether blanks surround it.  A body *)
(* is wellFormed when it is JSON with known fields only, names a task type *)
(* and has no blank trace id; delayed when run_at lies in the future.      *)
(***************************************************************************)
EXTENDS Integers, FiniteSets

CONSTANTS Request,   \* the requests of all clients
          Key,       \* the texts of idempotency keys
          Blank,     \* the text of a key of blanks only
          NoKey,     \* no idempotency key
          NoTask,    \* the task of an answer that has none
          Body,      \* the bodies that clients send
          Resends,   \* how often the Redis client repeats a command
          MaxInt4    \* largest value of the INTEGER columns

Spelling == [text : Key \cup {Blank}, padded : BOOLEAN]

ASSUME SubmissionAssumption ==
  /\ Blank \notin Key /\ NoKey \notin Key \cup Spelling
  /\ NoTask \notin Request
  /\ MaxInt4 \in Nat /\ MaxInt4 >= 300
  /\ Resends \in Nat
  /\ Body \subseteq [wellFormed : BOOLEAN, key : Spelling \cup {NoKey},
                     timeout : Int, retries : Int, delayed : BOOLEAN]

VARIABLES pc,      \* the next step of every request
          params,  \* what validation made of its body
          snap,    \* the committed rows when its statement began
          rows,    \* "none", "open" (not committed) or "committed", by id
          calls,   \* calls of PublishTask and ScheduleTask for each id (history)
          stream,  \* messages for each id
          zset,    \* ids in the sorted set
          ans,     \* the answer
          seen     \* the requests accepted before it was posted (history)

vars == <<pc, params, snap, rows, calls, stream, zset, ans, seen>>

-----------------------------------------------------------------------------
(* Validation. *)

TrimSpace(spelling) == spelling.text

(* validateCreateTaskRequest returns an error. *)
Refused(b) == \/ ~b.wellFormed
              \/ b.key # NoKey /\ TrimSpace(b.key) = Blank
              \/ b.timeout < 0
              \/ b.retries < 0

(* Faulty variant: the key is stored as it was spelt. *)
ValidateUntrimmed(b) ==
  [key |-> b.key,
   timeout |-> IF b.timeout = 0 THEN 300 ELSE b.timeout,
   retries |-> IF b.retries = 0 THEN 3 ELSE b.retries,
   delayed |-> b.delayed]

(* The parameters it returns otherwise. *)
Validate(b) ==
  [key |-> IF b.key = NoKey THEN NoKey ELSE TrimSpace(b.key),
   timeout |-> IF b.timeout = 0 THEN 300 ELSE b.timeout,
   retries |-> IF b.retries = 0 THEN 3 ELSE b.retries,
   delayed |-> b.delayed]

Params == [key : Key \cup {NoKey}, timeout : Nat \ {0}, retries : Nat \ {0},
           delayed : BOOLEAN]

NoParams == [key |-> NoKey, timeout |-> 300, retries |-> 3, delayed |-> FALSE]

(* The driver encodes the numbers as 32-bit integers or returns an error. *)
Encodable(p) == p.timeout <= MaxInt4 /\ p.retries <= MaxInt4

-----------------------------------------------------------------------------

Code == {0, 201, 400, 500}

Answer == [code : Code, task : Request \cup {NoTask}]

NoAnswer == [code |-> 0, task |-> NoTask]

TypeOK ==
  /\ pc \in [Request -> {"new", "begin", "insert", "commit", "queue", "done"}]
  /\ params \in [Request -> Params]
  /\ snap \in [Request -> SUBSET Request]
  /\ rows \in [Request -> {"none", "open", "committed"}]
  /\ calls \in [Request -> Nat]
  /\ stream \in [Request -> Nat]
  /\ zset \subseteq Request
  /\ ans \in [Request -> Answer]
  /\ seen \in [Request -> SUBSET Request]

Init ==
  /\ pc = [r \in Request |-> "new"]
  /\ params = [r \in Request |-> NoParams]
  /\ snap = [r \in Request |-> {}]
  /\ rows = [r \in Request |-> "none"]
  /\ calls = [r \in Request |-> 0]
  /\ stream = [r \in Request |-> 0]
  /\ zset = {}
  /\ ans = [r \in Request |-> NoAnswer]
  /\ seen = [r \in Request |-> {}]

Go(r, step) == pc' = [pc EXCEPT ![r] = step]

Answered(r) == ans[r].code # 0

(* The request ends; who has been answered already is not answered again.  *)
Reply(r, code, task) ==
  /\ Go(r, "done")
  /\ ans' = IF Answered(r) THEN ans
            ELSE [ans EXCEPT ![r] = [code |-> code, task |-> task]]

SetRow(r, state) == rows' = [rows EXCEPT ![r] = state]

SameKey(r, s) == params[r].key # NoKey /\ params[r].key = params[s].key

Committed == {r \in Request : rows[r] = "committed"}

-----------------------------------------------------------------------------
(* The request. *)

Post(r) ==
  /\ pc[r] = "new"
  /\ \E b \in Body :
       IF Refused(b)
       THEN Reply(r, 400, NoTask) /\ UNCHANGED params
       ELSE /\ Go(r, "begin")
            /\ params' = [params EXCEPT ![r] = Validate(b)]
            /\ UNCHANGED ans
  /\ seen' = [seen EXCEPT ![r] = {s \in Request : ans[s].code = 201}]
  /\ UNCHANGED <<snap, rows, calls, stream, zset>>

(* Faulty variant: a statement without the SELECT of the existing row. *)
BeginInsertOnly(r) ==
  /\ pc[r] = "begin"
  /\ IF Encodable(params[r])
     THEN Go(r, "insert") /\ UNCHANGED <<snap, ans>>
     ELSE Reply(r, 500, NoTask) /\ UNCHANGED snap
  /\ UNCHANGED <<params, rows, calls, stream, zset, seen>>

(* Store.Create sends the statement, which takes its snapshot. *)
Begin(r) ==
  /\ pc[r] = "begin"
  /\ IF Encodable(params[r])
     THEN /\ snap' = [snap EXCEPT ![r] = Committed]
          /\ Go(r, "insert")
          /\ UNCHANGED ans
     ELSE Reply(r, 500, NoTask) /\ UNCHANGED snap
  /\ UNCHANGED <<params, rows, calls, stream, zset, seen>>

(* Faulty variant: look the key up first, then insert without the index. *)
InsertIfUnseen(r) ==
  /\ pc[r] = "insert"
  /\ \A s \in snap[r] : ~SameKey(r, s)
  /\ SetRow(r, "open")
  /\ Go(r, "commit")
  /\ UNCHANGED <<params, snap, calls, stream, zset, ans, seen>>

(* No row has the key, or there is no key: the row is inserted. *)
Insert(r) ==
  /\ pc[r] = "insert"
  /\ \A s \in Request : rows[s] # "none" => ~SameKey(r, s)
  /\ SetRow(r, "open")
  /\ Go(r, "commit")
  /\ UNCHANGED <<params, snap, calls, stream, zset, ans, seen>>

(* Faulty variant: an existing task is published again. *)
ConflictPublishes(r) ==
  /\ pc[r] = "insert"
  /\ \E s \in Committed :
       /\ SameKey(r, s)
       /\ IF s \in snap[r]
          THEN /\ Reply(r, 201, s)
               /\ calls' = [calls EXCEPT ![s] = @ + 1]
               /\ stream' = [stream EXCEPT ![s] = @ + 1]
          ELSE Reply(r, 500, NoTask) /\ UNCHANGED <<calls, stream>>
  /\ UNCHANGED <<params, snap, rows, zset, seen>>

(* Faulty variant: who lost the race waits until the SELECT finds the row. *)
ConflictWaits(r) ==
  /\ pc[r] = "insert"
  /\ \E s \in Committed : SameKey(r, s) /\ s \in snap[r] /\ Reply(r, 201, s)
  /\ UNCHANGED <<params, snap, rows, calls, stream, zset, seen>>

(***************************************************************************)
(* A committed row has the key: DO NOTHING.  The SELECT returns that row   *)
(* if the snapshot has it, and Service.Create returns it without           *)
(* publishing; otherwise the statement returns no row, which is an error.  *)
(***************************************************************************)
Conflict(r) ==
  /\ pc[r] = "insert"
  /\ \E s \in Committed :
       /\ SameKey(r, s)
       /\ IF s \in snap[r] THEN Reply(r, 201, s) ELSE Reply(r, 500, NoTask)
  /\ UNCHANGED <<params, snap, rows, calls, stream, zset, seen>>

(* The end of the statement, and of the request if nobody waits for it. *)
Commit(r) ==
  /\ pc[r] = "commit"
  /\ SetRow(r, "committed")
  /\ Go(r, IF Answered(r) THEN "done" ELSE "queue")
  /\ UNCHANGED <<params, snap, calls, stream, zset, ans, seen>>

(* The second call of Service.Create, by the status of the new row; sent   *)
(* is how many of the commands that the client sends reach Redis.          *)
Enqueue(r, sent) ==
  /\ pc[r] = "queue"
  /\ calls' = [calls EXCEPT ![r] = @ + 1]
  /\ \/ /\ params[r].delayed
        /\ zset' = IF sent > 0 THEN zset \cup {r} ELSE zset
        /\ UNCHANGED stream
     \/ /\ ~params[r].delayed
        /\ stream' = [stream EXCEPT ![r] = @ + sent]
        /\ UNCHANGED zset

(* A reply came, perhaps only to a repeated command. *)
Queue(r) ==
  /\ \E sent \in 1..(1 + Resends) : Enqueue(r, sent)
  /\ Reply(r, 201, r)
  /\ UNCHANGED <<params, snap, rows, seen>>

Step(r) == Begin(r) \/ Insert(r) \/ Conflict(r) \/ Commit(r) \/ Queue(r)

-----------------------------------------------------------------------------
(* A call fails, or its context is cancelled as the client has gone: the   *)
(* answer is 500, whether anybody reads it or not.                         *)

(* Before the commit: no row stays. *)
StatementFails(r) ==
  /\ pc[r] \in {"begin", "insert", "commit"}
  /\ SetRow(r, "none")
  /\ Reply(r, 500, NoTask)
  /\ UNCHANGED <<params, snap, calls, stream, zset, seen>>

(* The connection breaks, and the statement goes on in the server. *)
ConnectionLost(r) ==
  /\ pc[r] \in {"insert", "commit"}
  /\ ~Answered(r)
  /\ ans' = [ans EXCEPT ![r] = [code |-> 500, task |-> NoTask]]
  /\ UNCHANGED <<pc, params, snap, rows, calls, stream, zset, seen>>

(* Faulty variant: the client is told that all is well. *)
EnqueueErrorIgnored(r) ==
  /\ pc[r] = "queue"
  /\ Reply(r, 201, r)
  /\ UNCHANGED <<params, snap, rows, calls, stream, zset, seen>>

(* No reply came to XADD or ZADD, with or without effect: the row stays.   *)
EnqueueFails(r) ==
  /\ \E sent \in 0..(1 + Resends) : Enqueue(r, sent)
  /\ Reply(r, 500, NoTask)
  /\ UNCHANGED <<params, snap, rows, seen>>

Fault(r) == StatementFails(r) \/ ConnectionLost(r) \/ EnqueueFails(r)

-----------------------------------------------------------------------------

Next == \E r \in Request : Post(r) \/ Step(r) \/ Fault(r)

Spec == Init /\ [][Next]_vars

(* Postgres and Redis answer; nobody has to post, and nothing has to fail. *)
FairSpec == Spec /\ \A r \in Request : WF_vars(Step(r))

-----------------------------------------------------------------------------
(* Properties. *)

Accepted(r) == ans[r].code = 201

(* GET /tasks/{id}. *)
GetCode(id) == IF id \in Committed THEN 200 ELSE 404

(***************************************************************************)
(* One key, one task: requests that carry the same key, however it was     *)
(* spelt, and are answered 201 are given the same task, and that is a task *)
(* GET finds (Store.Create races with itself).                             *)
(***************************************************************************)
SameAnswer ==
  \A r, s \in Request :
    /\ Accepted(r) => GetCode(ans[r].task) = 200
    /\ Accepted(r) /\ Accepted(s) /\ SameKey(r, s) => ans[r].task = ans[s].task

(***************************************************************************)
(* A key is published once: among all tasks of one key at most one enters  *)
(* a queue, by one call of PublishTask or ScheduleTask (Service.Create     *)
(* publishes only what NewlyCreated says it created).  The messages that   *)
(* it finds in the stream are those of that call, which the client may     *)
(* have sent again: no more than 1 + Resends, however often the request is *)
(* repeated.                                                               *)
(***************************************************************************)
Enqueued(r) == stream[r] > 0 \/ r \in zset

PublishedOnce ==
  /\ \A r \in Request : /\ calls[r] <= 1 /\ stream[r] <= 1 + Resends
                        /\ ~(stream[r] > 0 /\ r \in zset)
  /\ \A r, s \in Request : calls[r] > 0 /\ calls[s] > 0 /\ SameKey(r, s) => r = s

(***************************************************************************)
(* No silent loss: a row that is in neither queue is still on its way      *)
(* there, or the client that created it was told 500.                      *)
(***************************************************************************)
LossIsReported ==
  \A r \in Committed : Enqueued(r) \/ pc[r] = "queue" \/ ans[r].code = 500

(***************************************************************************)
(* A key that was accepted stays usable: a request posted after a client   *)
(* was told 201 for its key never loses the race for the key.  A duplicate *)
(* fails for want of a row (store.go Create) only while the insertion it   *)
(* lost to has not been answered.                                          *)
(***************************************************************************)
Lost(r) == pc[r] = "insert" /\ \E s \in Committed : SameKey(r, s) /\ s \notin snap[r]

RetryIsServed ==
  \A r \in Request : Lost(r) => \A s \in seen[r] : ~SameKey(r, s)

(* Every request is answered: nobody waits forever for an insertion that   *)
(* is in progress (the INSERT of store.go Create waits for the index).     *)
EveryRequestAnswered ==
  \A r \in Request : pc[r] # "new" ~> Answered(r)

=============================================================================
