-------------------------- MODULE SubmissionProofs --------------------------
(***************************************************************************)
(* The promises of POST /tasks to its clients, for any number of requests, *)
(* keys and bodies.                                                        *)
(*                                                                         *)
(* They rest on one invariant.  Its parts say what each step of a request  *)
(* has done so far (Shape), that what is queued was committed and was      *)
(* published by one call (Queues), that an accepted request has the committed row of its    *)
(* key (Answers), that the unique index admits one row per key             *)
(* (UniqueKeys), and that a snapshot holds what had been accepted when the *)
(* request was posted (Snapshots).                                         *)
(***************************************************************************)
EXTENDS Submission, TLAPS

Shape(r) ==
  /\ pc[r] \in {"new", "begin", "insert"} => rows[r] = "none"
  /\ pc[r] = "commit" => rows[r] = "open"
  /\ pc[r] = "queue" => rows[r] = "committed"
  /\ pc[r] = "done" => rows[r] # "open"
  /\ pc[r] \in {"new", "begin", "queue"} => ~Answered(r)
  /\ pc[r] \in {"insert", "commit"} /\ Answered(r) => ans[r].code = 500

Queues(r) ==
  /\ calls[r] > 0 => pc[r] = "done" /\ rows[r] = "committed"
  /\ calls[r] = 0 => ~Enqueued(r)
  /\ calls[r] <= 1 /\ stream[r] <= 1 + Resends /\ ~(stream[r] > 0 /\ r \in zset)
  /\ rows[r] = "committed" => Enqueued(r) \/ pc[r] = "queue" \/ ans[r].code = 500

Answers(r) ==
  Accepted(r) => /\ pc[r] = "done" /\ ans[r].task \in Committed
                 /\ ans[r].task = r \/ SameKey(r, ans[r].task)

Snapshots(r) ==
  /\ snap[r] \subseteq Committed
  /\ \A s \in seen[r] : Accepted(s)
  /\ pc[r] = "insert" => \A s \in seen[r] : ans[s].task \in snap[r]

UniqueKeys ==
  \A r, s \in Request : rows[r] # "none" /\ rows[s] # "none" /\ SameKey(r, s) => r = s

RequestInv(r) == Shape(r) /\ Queues(r) /\ Answers(r) /\ Snapshots(r)

SubmissionInv == TypeOK /\ UniqueKeys /\ \A r \in Request : RequestInv(r)

-----------------------------------------------------------------------------
(* What a step of one request leaves to the others. *)

(* Nothing of the others changes. *)
OthersKept(r) ==
  \A q \in Request \ {r} :
    /\ pc'[q] = pc[q] /\ params'[q] = params[q] /\ snap'[q] = snap[q]
    /\ rows'[q] = rows[q] /\ calls'[q] = calls[q] /\ stream'[q] = stream[q]
    /\ q \in zset' <=> q \in zset
    /\ ans'[q] = ans[q] /\ seen'[q] = seen[q]

(* Neither does what they build on: a committed row stays, a row keeps its *)
(* key, an accepted request its answer.                                    *)
BasisKept(r) ==
  /\ rows[r] = "committed" => rows'[r] = "committed"
  /\ rows[r] # "none" \/ Accepted(r) => params'[r] = params[r]
  /\ Accepted(r) => ans'[r] = ans[r]

LEMMA OthersFrame ==
  ASSUME SubmissionInv, NEW r \in Request, OthersKept(r), BasisKept(r)
  PROVE  /\ Committed \subseteq Committed'
         /\ \A s \in Request : Accepted(s) => Accepted(s)' /\ ans'[s].task = ans[s].task
         /\ \A q \in Request \ {r} : RequestInv(q)'
<1>1. Committed \subseteq Committed'
  BY DEF OthersKept, BasisKept, Committed
<1>2. \A s \in Request : Accepted(s) => Accepted(s)' /\ ans'[s].task = ans[s].task
  BY DEF OthersKept, BasisKept, Accepted
<1>3. ASSUME NEW q \in Request \ {r} PROVE RequestInv(q)'
  <2>0. RequestInv(q) /\ snap[q] \subseteq Request /\ seen[q] \subseteq Request
    BY DEF SubmissionInv, TypeOK
  <2>1. Shape(q)' /\ Queues(q)'
    BY <2>0 DEF OthersKept, RequestInv, Shape, Queues, Answered, Enqueued
  <2>2. Answers(q)'
    <3> SUFFICES ASSUME Accepted(q)' PROVE Answers(q)'
      BY DEF Answers
    <3>1. PICK t \in Request : /\ t \in Committed /\ t = ans[q].task /\ pc[q] = "done"
                               /\ t = q \/ SameKey(q, t)
      BY <2>0 DEF Committed, OthersKept, Accepted, RequestInv, Answers
    <3>2. params'[q] = params[q] /\ pc'[q] = pc[q] /\ ans'[q] = ans[q]
      BY DEF OthersKept
    <3>3. params'[t] = params[t]
      BY <3>1 DEF OthersKept, BasisKept, Committed
    <3>4. t = q \/ SameKey(q, t)'
      BY <3>1, <3>2, <3>3 DEF SameKey
    <3>5. t \in Committed' /\ pc'[q] = "done" /\ ans'[q].task = t
      BY <1>1, <3>1, <3>2
    <3> QED BY <3>4, <3>5 DEF Answers
  <2>3. Snapshots(q)'
    BY <1>1, <1>2, <2>0 DEF OthersKept, RequestInv, Snapshots
  <2> QED BY <2>1, <2>2, <2>3 DEF RequestInv
<1> QED BY <1>1, <1>2, <1>3

(* A step that inserts no row. *)
LEMMA KeysKept ==
  ASSUME SubmissionInv, NEW r \in Request, OthersKept(r), BasisKept(r),
         rows'[r] # "none" => rows[r] # "none"
  PROVE  UniqueKeys'
<1> SUFFICES ASSUME NEW q \in Request, NEW s \in Request, rows'[q] # "none",
                    rows'[s] # "none", SameKey(q, s)'
             PROVE  q = s
  BY DEF UniqueKeys
<1>1. /\ rows[q] # "none" /\ params'[q] = params[q]
      /\ rows[s] # "none" /\ params'[s] = params[s]
  BY DEF OthersKept, BasisKept
<1> QED BY <1>1 DEF SubmissionInv, UniqueKeys, SameKey

(* Go, Reply and SetRow at every request. *)
LEMMA ReplyEffect ==
  ASSUME TypeOK, NEW r \in Request, NEW code \in Code \ {0}, NEW task, Reply(r, code, task)
  PROVE  /\ pc'[r] = "done"
         /\ \A q \in Request \ {r} : pc'[q] = pc[q] /\ ans'[q] = ans[q]
         /\ Answered(r) => ans'[r] = ans[r]
         /\ ~Answered(r) => ans'[r].code = code /\ ans'[r].task = task
BY DEF TypeOK, Reply, Go

LEMMA GoEffect ==
  ASSUME TypeOK, NEW r \in Request, NEW step, Go(r, step)
  PROVE  pc'[r] = step /\ \A q \in Request \ {r} : pc'[q] = pc[q]
BY DEF TypeOK, Go

LEMMA SetRowEffect ==
  ASSUME TypeOK, NEW r \in Request, NEW state, SetRow(r, state)
  PROVE  rows'[r] = state /\ \A q \in Request \ {r} : rows'[q] = rows[q]
BY DEF TypeOK, SetRow

-----------------------------------------------------------------------------
(* The types, validation first. *)

LEMMA ValidateType ==
  ASSUME NEW b \in Body, ~Refused(b)
  PROVE  Validate(b) \in Params
<1>1. b \in [wellFormed : BOOLEAN, key : Spelling \cup {NoKey},
             timeout : Int, retries : Int, delayed : BOOLEAN]
  BY SubmissionAssumption
<1>2. b.key # NoKey => TrimSpace(b.key) \in Key
  BY <1>1, SubmissionAssumption DEF Refused, TrimSpace, Spelling
<1> QED BY <1>1, <1>2 DEF Validate, Params, Refused

LEMMA TypeStep ==
  ASSUME TypeOK, NEW r \in Request, Post(r) \/ Step(r) \/ Fault(r)
  PROVE  TypeOK'
<1> USE DEF Code, Answer
<1>1. ASSUME NEW code \in Code, NEW task \in Request \cup {NoTask}, Reply(r, code, task)
      PROVE  /\ pc' \in [Request -> {"new", "begin", "insert", "commit", "queue", "done"}]
             /\ ans' \in [Request -> Answer]
  BY <1>1 DEF Reply, Go, TypeOK
<1>2. CASE Post(r)
  <2>1. PICK b \in Body :
          IF Refused(b)
          THEN Reply(r, 400, NoTask) /\ UNCHANGED params
          ELSE /\ Go(r, "begin")
               /\ params' = [params EXCEPT ![r] = Validate(b)]
               /\ UNCHANGED ans
    BY <1>2 DEF Post
  <2>2. seen' \in [Request -> SUBSET Request] /\ UNCHANGED <<snap, rows, calls, stream, zset>>
    BY <1>2 DEF Post, TypeOK
  <2>3. CASE Refused(b)
    BY <1>1, <2>1, <2>2, <2>3 DEF TypeOK
  <2>4. CASE ~Refused(b)
    <3>1. params' \in [Request -> Params]
      BY <2>1, <2>4, ValidateType DEF TypeOK
    <3> QED BY <2>1, <2>2, <2>4, <3>1 DEF TypeOK, Go
  <2> QED BY <2>3, <2>4
<1>3. CASE Begin(r)
  BY <1>1, <1>3 DEF Begin, Committed, Go, TypeOK
<1>4. CASE Insert(r)
  BY <1>4 DEF Insert, SetRow, Go, TypeOK
<1>5. CASE Conflict(r)
  BY <1>1, <1>5 DEF Conflict, Committed, TypeOK
<1>6. CASE Commit(r)
  BY <1>6 DEF Commit, SetRow, Go, TypeOK
<1>7. CASE Queue(r) \/ EnqueueFails(r)
  <2>1. PICK sent \in 0..(1 + Resends) : Enqueue(r, sent)
    BY <1>7, SubmissionAssumption DEF Queue, EnqueueFails
  <2>2. sent \in Nat
    BY SubmissionAssumption
  <2>3. /\ calls' \in [Request -> Nat] /\ stream' \in [Request -> Nat]
        /\ zset' \subseteq Request
    BY <2>1, <2>2 DEF Enqueue, TypeOK
  <2> QED BY <1>1, <1>7, <2>3 DEF Queue, EnqueueFails, TypeOK
<1>8. CASE StatementFails(r)
  BY <1>1, <1>8 DEF StatementFails, SetRow, TypeOK
<1>9. CASE ConnectionLost(r)
  BY <1>9 DEF ConnectionLost, TypeOK
<1> QED BY <1>2, <1>3, <1>4, <1>5, <1>6, <1>7, <1>8, <1>9 DEF Step, Fault

-----------------------------------------------------------------------------
(* Every step keeps the invariant. *)

(* A request that ends with an error; if before its commit, without a row. *)
LEMMA FailedReply ==
  ASSUME SubmissionInv, NEW r \in Request, NEW code \in {400, 500}, Reply(r, code, NoTask),
         UNCHANGED <<snap, calls, stream, zset>>, OthersKept(r), BasisKept(r),
         pc[r] # "done", rows[r] # "committed", rows'[r] = "none",
         \A s \in seen'[r] : s \in Request /\ Accepted(s)
  PROVE  UniqueKeys' /\ \A q \in Request : RequestInv(q)'
<1>1. /\ Committed \subseteq Committed'
      /\ \A s \in Request : Accepted(s) => Accepted(s)' /\ ans'[s].task = ans[s].task
      /\ \A q \in Request \ {r} : RequestInv(q)'
  BY OthersFrame
<1>2. TypeOK /\ RequestInv(r)
  BY DEF SubmissionInv
<1>3. ~Accepted(r) /\ ~Enqueued(r) /\ calls[r] = 0
  BY <1>2 DEF RequestInv, Answers, Queues, TypeOK
<1>4. pc'[r] = "done" /\ ans'[r].code # 201
  BY <1>2, <1>3, ReplyEffect DEF Accepted, Code
<1>5. Shape(r)' /\ Answers(r)'
  BY <1>4 DEF Shape, Answers, Accepted
<1>6. Queues(r)'
  BY <1>2, <1>3 DEF RequestInv, Queues, Enqueued
<1>7. Snapshots(r)'
  BY <1>1, <1>2, <1>4 DEF RequestInv, Snapshots
<1>8. UniqueKeys'
  BY KeysKept
<1> QED BY <1>1, <1>5, <1>6, <1>7, <1>8 DEF RequestInv

LEMMA PostKeeps ==
  ASSUME SubmissionInv, NEW r \in Request, Post(r)
  PROVE  UniqueKeys' /\ \A q \in Request : RequestInv(q)'
<1>1. /\ TypeOK /\ pc[r] = "new" /\ rows[r] = "none" /\ ~Answered(r) /\ ~Accepted(r)
      /\ UNCHANGED <<snap, rows, calls, stream, zset>>
  BY DEF SubmissionInv, RequestInv, Shape, Answered, Accepted, Post
<1>2. /\ seen'[r] = {s \in Request : Accepted(s)}
      /\ \A q \in Request \ {r} : seen'[q] = seen[q]
  BY <1>1 DEF Post, Accepted, TypeOK
<1>3. PICK b \in Body :
        IF Refused(b)
        THEN Reply(r, 400, NoTask) /\ UNCHANGED params
        ELSE /\ Go(r, "begin")
             /\ params' = [params EXCEPT ![r] = Validate(b)]
             /\ UNCHANGED ans
  BY DEF Post
<1>4. BasisKept(r)
  BY <1>1 DEF BasisKept
<1>5. CASE Refused(b)
  <2>1. OthersKept(r)
    BY <1>1, <1>2, <1>3, <1>5, ReplyEffect DEF OthersKept, Code
  <2> QED BY <1>1, <1>2, <1>3, <1>4, <1>5, <2>1, FailedReply
<1>6. CASE ~Refused(b)
  <2>1. /\ pc'[r] = "begin" /\ UNCHANGED ans
        /\ \A q \in Request \ {r} : pc'[q] = pc[q] /\ params'[q] = params[q]
    BY <1>1, <1>3, <1>6, GoEffect DEF TypeOK
  <2>2. OthersKept(r)
    BY <1>1, <1>2, <2>1 DEF OthersKept
  <2>3. /\ Committed \subseteq Committed'
        /\ \A s \in Request : Accepted(s) => Accepted(s)' /\ ans'[s].task = ans[s].task
        /\ \A q \in Request \ {r} : RequestInv(q)'
    BY <1>4, <2>2, OthersFrame
  <2>4. RequestInv(r)
    BY DEF SubmissionInv
  <2>5. Shape(r)' /\ Answers(r)'
    BY <1>1, <2>1 DEF Shape, Answers, Answered, Accepted
  <2>6. Queues(r)'
    BY <1>1, <2>1, <2>4 DEF RequestInv, Queues, Enqueued
  <2>7. Snapshots(r)'
    BY <1>1, <1>2, <2>1, <2>3, <2>4 DEF RequestInv, Snapshots
  <2>8. UniqueKeys'
    BY <1>1, <1>4, <2>2, KeysKept
  <2> QED BY <2>3, <2>5, <2>6, <2>7, <2>8 DEF RequestInv
<1> QED BY <1>5, <1>6

LEMMA BeginKeeps ==
  ASSUME SubmissionInv, NEW r \in Request, Begin(r)
  PROVE  UniqueKeys' /\ \A q \in Request : RequestInv(q)'
<1>1. /\ TypeOK /\ RequestInv(r)
      /\ pc[r] = "begin" /\ rows[r] = "none" /\ ~Answered(r) /\ ~Accepted(r)
      /\ UNCHANGED <<params, rows, calls, stream, zset, seen>>
  BY DEF SubmissionInv, RequestInv, Shape, Answered, Accepted, Begin
<1>2. BasisKept(r)
  BY <1>1 DEF BasisKept
<1>3. seen[r] \subseteq Request /\ \A s \in seen[r] : Accepted(s)
  BY <1>1 DEF TypeOK, RequestInv, Snapshots
<1>4. CASE Encodable(params[r])
  <2>1. /\ pc'[r] = "insert" /\ UNCHANGED ans /\ snap'[r] = Committed
        /\ \A q \in Request \ {r} : pc'[q] = pc[q] /\ snap'[q] = snap[q]
    BY <1>1, <1>4, GoEffect DEF Begin, TypeOK
  <2>2. OthersKept(r)
    BY <1>1, <2>1 DEF OthersKept
  <2>3. /\ Committed \subseteq Committed'
        /\ \A s \in Request : Accepted(s) => Accepted(s)' /\ ans'[s].task = ans[s].task
        /\ \A q \in Request \ {r} : RequestInv(q)'
    BY <1>2, <2>2, OthersFrame
  <2>4. Shape(r)' /\ Answers(r)'
    BY <1>1, <2>1 DEF Shape, Answers, Answered, Accepted
  <2>5. Queues(r)'
    BY <1>1, <2>1 DEF RequestInv, Queues, Enqueued
  <2>6. \A s \in seen[r] : ans[s].task \in Committed
    BY <1>3 DEF SubmissionInv, RequestInv, Answers
  <2>7. Snapshots(r)'
    BY <1>1, <1>3, <2>1, <2>3, <2>6 DEF Snapshots
  <2>8. UniqueKeys'
    BY <1>1, <1>2, <2>2, KeysKept
  <2> QED BY <2>3, <2>4, <2>5, <2>7, <2>8 DEF RequestInv
<1>5. CASE ~Encodable(params[r])
  <2>1. Reply(r, 500, NoTask) /\ UNCHANGED snap
    BY <1>5 DEF Begin
  <2>2. OthersKept(r)
    BY <1>1, <2>1, ReplyEffect DEF OthersKept, Code
  <2> QED BY <1>1, <1>2, <1>3, <2>1, <2>2, FailedReply
<1> QED BY <1>4, <1>5

(* The unique index admits the row. *)
LEMMA InsertKeeps ==
  ASSUME SubmissionInv, NEW r \in Request, Insert(r)
  PROVE  UniqueKeys' /\ \A q \in Request : RequestInv(q)'
<1>1. /\ TypeOK /\ RequestInv(r)
      /\ pc[r] = "insert" /\ rows[r] = "none" /\ ~Accepted(r)
      /\ UNCHANGED <<params, snap, calls, stream, zset, ans, seen>>
  BY DEF SubmissionInv, RequestInv, Shape, Answers, Insert
<1>2. /\ pc'[r] = "commit" /\ rows'[r] = "open"
      /\ \A q \in Request \ {r} : pc'[q] = pc[q] /\ rows'[q] = rows[q]
  BY <1>1, GoEffect, SetRowEffect DEF Insert
<1>3. BasisKept(r) /\ OthersKept(r)
  BY <1>1, <1>2 DEF BasisKept, OthersKept
<1>4. /\ Committed \subseteq Committed'
      /\ \A s \in Request : Accepted(s) => Accepted(s)' /\ ans'[s].task = ans[s].task
      /\ \A q \in Request \ {r} : RequestInv(q)'
  BY <1>3, OthersFrame
<1>5. Shape(r)' /\ Answers(r)'
  BY <1>1, <1>2 DEF RequestInv, Shape, Answers, Answered, Accepted
<1>6. Queues(r)'
  BY <1>1, <1>2 DEF RequestInv, Queues, Enqueued
<1>7. Snapshots(r)'
  BY <1>1, <1>2, <1>4 DEF RequestInv, Snapshots, Accepted
<1>8. UniqueKeys'
  <2> SUFFICES ASSUME NEW q \in Request, NEW s \in Request, rows'[q] # "none",
                      rows'[s] # "none", SameKey(q, s)'
               PROVE  q = s
    BY DEF UniqueKeys
  <2>1. SameKey(q, s) /\ SameKey(s, q)
    BY <1>1 DEF SameKey
  <2>2. q # r => rows[q] # "none"
    BY <1>2
  <2>3. s # r => rows[s] # "none"
    BY <1>2
  <2> QED BY <2>1, <2>2, <2>3 DEF Insert, SubmissionInv, UniqueKeys
<1> QED BY <1>4, <1>5, <1>6, <1>7, <1>8 DEF RequestInv

LEMMA ConflictKeeps ==
  ASSUME SubmissionInv, NEW r \in Request, Conflict(r)
  PROVE  UniqueKeys' /\ \A q \in Request : RequestInv(q)'
<1>1. /\ TypeOK /\ RequestInv(r)
      /\ pc[r] = "insert" /\ rows[r] = "none" /\ ~Accepted(r)
      /\ UNCHANGED <<params, snap, rows, calls, stream, zset, seen>>
  BY DEF SubmissionInv, RequestInv, Shape, Answers, Conflict
<1>2. PICK s \in Committed :
        SameKey(r, s) /\ IF s \in snap[r] THEN Reply(r, 201, s) ELSE Reply(r, 500, NoTask)
  BY DEF Conflict
<1>3. BasisKept(r)
  BY <1>1 DEF BasisKept
<1>4. seen[r] \subseteq Request /\ \A q \in seen[r] : Accepted(q)
  BY <1>1 DEF TypeOK, RequestInv, Snapshots
<1>5. CASE s \in snap[r]
  <2>1. /\ pc'[r] = "done"
        /\ \A q \in Request \ {r} : pc'[q] = pc[q] /\ ans'[q] = ans[q]
        /\ Answered(r) => ans'[r] = ans[r]
        /\ ~Answered(r) => ans'[r].task = s
    BY <1>1, <1>2, <1>5, ReplyEffect DEF Code
  <2>2. OthersKept(r)
    BY <1>1, <2>1 DEF OthersKept
  <2>3. /\ Committed \subseteq Committed'
        /\ \A q \in Request : Accepted(q) => Accepted(q)' /\ ans'[q].task = ans[q].task
        /\ \A q \in Request \ {r} : RequestInv(q)'
    BY <1>3, <2>2, OthersFrame
  <2>4. Shape(r)'
    BY <1>1, <2>1 DEF Shape
  <2>5. Answers(r)'
    <3> SUFFICES ASSUME Accepted(r)' PROVE Answers(r)'
      BY DEF Answers
    <3>1. ans'[r].task = s
      BY <1>1, <2>1 DEF Accepted
    <3>2. s \in Committed' /\ SameKey(r, s)'
      BY <1>1, <1>2, <2>3 DEF SameKey
    <3> QED BY <2>1, <3>1, <3>2 DEF Answers
  <2>6. Queues(r)'
    BY <1>1 DEF RequestInv, Queues, Enqueued
  <2>7. Snapshots(r)'
    BY <1>1, <1>4, <2>1, <2>3 DEF RequestInv, Snapshots
  <2>8. UniqueKeys'
    BY <1>1, <1>3, <2>2, KeysKept
  <2> QED BY <2>3, <2>4, <2>5, <2>6, <2>7, <2>8 DEF RequestInv
<1>6. CASE s \notin snap[r]
  <2>1. Reply(r, 500, NoTask)
    BY <1>2, <1>6
  <2>2. OthersKept(r)
    BY <1>1, <2>1, ReplyEffect DEF OthersKept, Code
  <2> QED BY <1>1, <1>3, <1>4, <2>1, <2>2, FailedReply
<1> QED BY <1>5, <1>6

LEMMA CommitKeeps ==
  ASSUME SubmissionInv, NEW r \in Request, Commit(r)
  PROVE  UniqueKeys' /\ \A q \in Request : RequestInv(q)'
<1>1. /\ TypeOK /\ RequestInv(r)
      /\ pc[r] = "commit" /\ rows[r] = "open" /\ ~Accepted(r)
      /\ Answered(r) => ans[r].code = 500
      /\ UNCHANGED <<params, snap, calls, stream, zset, ans, seen>>
  BY DEF SubmissionInv, RequestInv, Shape, Answers, Commit
<1>2. /\ pc'[r] = IF Answered(r) THEN "done" ELSE "queue"
      /\ rows'[r] = "committed"
      /\ \A q \in Request \ {r} : pc'[q] = pc[q] /\ rows'[q] = rows[q]
  BY <1>1, GoEffect, SetRowEffect DEF Commit
<1>3. BasisKept(r) /\ OthersKept(r)
  BY <1>1, <1>2 DEF BasisKept, OthersKept
<1>4. /\ Committed \subseteq Committed'
      /\ \A s \in Request : Accepted(s) => Accepted(s)' /\ ans'[s].task = ans[s].task
      /\ \A q \in Request \ {r} : RequestInv(q)'
  BY <1>3, OthersFrame
<1>5. Shape(r)' /\ Answers(r)'
  BY <1>1, <1>2 DEF RequestInv, Shape, Answers, Answered, Accepted
<1>6. Queues(r)'
  BY <1>1, <1>2 DEF RequestInv, Queues, Enqueued
<1>7. Snapshots(r)'
  BY <1>1, <1>2, <1>4 DEF RequestInv, Snapshots, Accepted
<1>8. UniqueKeys'
  BY <1>1, <1>3, KeysKept
<1> QED BY <1>4, <1>5, <1>6, <1>7, <1>8 DEF RequestInv

LEMMA EnqueueEffect ==
  ASSUME SubmissionInv, NEW r \in Request, NEW sent \in 0..(1 + Resends), Enqueue(r, sent)
  PROVE  /\ sent > 0 => Enqueued(r)'
         /\ calls'[r] = 1 /\ stream'[r] <= 1 + Resends
         /\ ~(stream'[r] > 0 /\ r \in zset')
         /\ \A q \in Request \ {r} : /\ calls'[q] = calls[q] /\ stream'[q] = stream[q]
                                     /\ q \in zset' <=> q \in zset
<1>1. /\ sent \in Nat /\ sent <= 1 + Resends
      /\ calls \in [Request -> Nat] /\ stream \in [Request -> Nat]
  BY SubmissionAssumption DEF SubmissionInv, TypeOK
<1>2. calls[r] = 0 /\ stream[r] = 0 /\ r \notin zset
  BY <1>1 DEF SubmissionInv, RequestInv, Queues, Enqueued, Enqueue
<1> QED BY <1>1, <1>2, SubmissionAssumption DEF Enqueue, Enqueued

(* The second call of Service.Create, whether it succeeds or not. *)
LEMMA QueueKeeps ==
  ASSUME SubmissionInv, NEW r \in Request, Queue(r) \/ EnqueueFails(r)
  PROVE  UniqueKeys' /\ \A q \in Request : RequestInv(q)'
<1>1. /\ TypeOK /\ RequestInv(r)
      /\ pc[r] = "queue" /\ rows[r] = "committed" /\ ~Accepted(r) /\ ~Answered(r)
      /\ UNCHANGED <<params, snap, rows, seen>>
  BY DEF SubmissionInv, RequestInv, Shape, Answers, Queue, EnqueueFails, Enqueue
<1>2. /\ pc'[r] = "done"
      /\ \A q \in Request \ {r} : pc'[q] = pc[q] /\ ans'[q] = ans[q]
      /\ \/ Queue(r) /\ ans'[r].task = r
         \/ EnqueueFails(r) /\ ans'[r].code = 500
  BY <1>1, ReplyEffect DEF Queue, EnqueueFails, Code
<1>3. /\ Enqueued(r)' \/ ans'[r].code = 500
      /\ calls'[r] = 1 /\ stream'[r] <= 1 + Resends /\ ~(stream'[r] > 0 /\ r \in zset')
      /\ \A q \in Request \ {r} : /\ calls'[q] = calls[q] /\ stream'[q] = stream[q]
                                  /\ q \in zset' <=> q \in zset
  <2>1. PICK sent \in 0..(1 + Resends) : Enqueue(r, sent) /\ (Queue(r) => sent > 0)
    BY SubmissionAssumption DEF Queue, EnqueueFails
  <2> QED BY <1>2, <2>1, EnqueueEffect
<1>4. BasisKept(r) /\ OthersKept(r)
  BY <1>1, <1>2, <1>3 DEF BasisKept, OthersKept
<1>5. /\ Committed \subseteq Committed'
      /\ \A s \in Request : Accepted(s) => Accepted(s)' /\ ans'[s].task = ans[s].task
      /\ \A q \in Request \ {r} : RequestInv(q)'
  BY <1>4, OthersFrame
<1>6. Shape(r)'
  BY <1>1, <1>2 DEF Shape
<1>7. Answers(r)'
  BY <1>1, <1>2 DEF Answers, Accepted, Committed
<1>8. Queues(r)'
  BY <1>1, <1>2, <1>3 DEF Queues
<1>9. Snapshots(r)'
  <2>1. seen[r] \subseteq Request
    BY <1>1 DEF TypeOK
  <2> QED BY <1>1, <1>2, <1>5, <2>1 DEF RequestInv, Snapshots
<1>10. UniqueKeys'
  BY <1>1, <1>4, KeysKept
<1> QED BY <1>5, <1>6, <1>7, <1>8, <1>9, <1>10 DEF RequestInv

LEMMA StatementFaultKeeps ==
  ASSUME SubmissionInv, NEW r \in Request, StatementFails(r) \/ ConnectionLost(r)
  PROVE  UniqueKeys' /\ \A q \in Request : RequestInv(q)'
<1>1. /\ TypeOK /\ RequestInv(r)
      /\ pc[r] \in {"begin", "insert", "commit"}
      /\ rows[r] # "committed" /\ ~Accepted(r)
      /\ UNCHANGED <<params, snap, calls, stream, zset, seen>>
  BY DEF SubmissionInv, RequestInv, Shape, Answers, StatementFails, ConnectionLost
<1>2. seen[r] \subseteq Request /\ \A q \in seen[r] : Accepted(q)
  BY <1>1 DEF TypeOK, RequestInv, Snapshots
<1>3. CASE StatementFails(r)
  <2>1. /\ Reply(r, 500, NoTask) /\ rows'[r] = "none"
        /\ \A q \in Request \ {r} : rows'[q] = rows[q]
    BY <1>1, <1>3, SetRowEffect DEF StatementFails
  <2>2. BasisKept(r) /\ OthersKept(r)
    BY <1>1, <2>1, ReplyEffect DEF BasisKept, OthersKept, Code
  <2> QED BY <1>1, <1>2, <2>1, <2>2, FailedReply
<1>4. CASE ConnectionLost(r)
  <2>1. /\ UNCHANGED <<pc, rows>> /\ pc[r] # "begin" /\ ans'[r].code = 500
        /\ \A q \in Request \ {r} : ans'[q] = ans[q]
    BY <1>1, <1>4 DEF ConnectionLost, TypeOK
  <2>2. BasisKept(r) /\ OthersKept(r)
    BY <1>1, <2>1 DEF BasisKept, OthersKept
  <2>3. /\ Committed \subseteq Committed'
        /\ \A s \in Request : Accepted(s) => Accepted(s)' /\ ans'[s].task = ans[s].task
        /\ \A q \in Request \ {r} : RequestInv(q)'
    BY <2>2, OthersFrame
  <2>4. Shape(r)' /\ Answers(r)'
    BY <1>1, <2>1 DEF RequestInv, Shape, Answers, Accepted
  <2>5. Queues(r)'
    BY <1>1, <2>1 DEF RequestInv, Queues, Enqueued
  <2>6. Snapshots(r)'
    BY <1>1, <1>2, <2>1, <2>3 DEF RequestInv, Snapshots
  <2>7. UniqueKeys'
    BY <2>1, <2>2, KeysKept
  <2> QED BY <2>3, <2>4, <2>5, <2>6, <2>7 DEF RequestInv
<1> QED BY <1>3, <1>4

-----------------------------------------------------------------------------
(* The invariant, and what it promises. *)

LEMMA InitInv == Init => SubmissionInv
<1> SUFFICES ASSUME Init PROVE SubmissionInv
  OBVIOUS
<1>1. TypeOK
  BY DEF Init, TypeOK, NoParams, Params, NoAnswer, Answer, Code
<1>2. \A r \in Request : /\ pc[r] = "new" /\ rows[r] = "none" /\ ans[r].code = 0
                         /\ calls[r] = 0 /\ stream[r] = 0
                         /\ snap[r] = {} /\ seen[r] = {}
  BY DEF Init, NoAnswer
<1>3. \A r \in Request : ~Accepted(r) /\ ~Answered(r) /\ ~Enqueued(r)
  BY <1>2 DEF Accepted, Answered, Enqueued, Init
<1>4. ASSUME NEW r \in Request PROVE RequestInv(r)
  <2>1. Shape(r) /\ Answers(r) /\ Snapshots(r)
    BY <1>2, <1>3 DEF Shape, Answers, Snapshots
  <2>2. Queues(r)
    BY <1>2, <1>3, SubmissionAssumption DEF Queues
  <2> QED BY <2>1, <2>2 DEF RequestInv
<1>5. UniqueKeys
  BY <1>2 DEF UniqueKeys
<1> QED BY <1>1, <1>4, <1>5 DEF SubmissionInv

LEMMA NextInv == SubmissionInv /\ [Next]_vars => SubmissionInv'
<1> SUFFICES ASSUME SubmissionInv, [Next]_vars PROVE SubmissionInv'
  OBVIOUS
<1>1. ASSUME NEW r \in Request, Post(r) \/ Step(r) \/ Fault(r) PROVE SubmissionInv'
  <2>1. UniqueKeys' /\ \A q \in Request : RequestInv(q)'
    BY <1>1, PostKeeps, BeginKeeps, InsertKeeps, ConflictKeeps, CommitKeeps, QueueKeeps,
       StatementFaultKeeps DEF Step, Fault
  <2>2. TypeOK'
    BY <1>1, TypeStep DEF SubmissionInv
  <2> QED BY <2>1, <2>2 DEF SubmissionInv
<1>2. CASE UNCHANGED vars
  BY <1>2 DEF vars, SubmissionInv, TypeOK, UniqueKeys, RequestInv, Shape, Queues, Answers,
              Snapshots, Committed, Accepted, Answered, Enqueued, SameKey
<1> QED BY <1>1, <1>2 DEF Next

LEMMA SubmissionInvariant == Spec => []SubmissionInv
BY InitInv, NextInv, PTL DEF Spec

(***************************************************************************)
(* Every answer is well-formed, and so are the parameters that validation  *)
(* (tasks.go validateCreateTaskRequest) hands to the store: a trimmed key  *)
(* or none, and positive numbers.                                          *)
(***************************************************************************)
THEOREM SubmissionTypeCorrect == Spec => []TypeOK
<1>1. SubmissionInv => TypeOK
  BY DEF SubmissionInv
<1> QED BY <1>1, SubmissionInvariant, PTL

(***************************************************************************)
(* However many requests with one idempotency key race in Store.Create,    *)
(* those that are answered 201 name the same task, and it is committed.    *)
(***************************************************************************)
THEOREM SameAnswerSafe == Spec => []SameAnswer
<1>1. ASSUME SubmissionInv, NEW r \in Request, Accepted(r) PROVE GetCode(ans[r].task) = 200
  BY <1>1 DEF SubmissionInv, RequestInv, Answers, GetCode
<1>2. ASSUME SubmissionInv, NEW r \in Request, NEW s \in Request,
             Accepted(r), Accepted(s), SameKey(r, s)
      PROVE  ans[r].task = ans[s].task
  <2>1. PICK t \in Request : /\ t = ans[r].task /\ rows[t] = "committed"
                             /\ t = r \/ SameKey(r, t)
    BY <1>2 DEF SubmissionInv, RequestInv, Answers, Committed
  <2>2. PICK u \in Request : /\ u = ans[s].task /\ rows[u] = "committed"
                             /\ u = s \/ SameKey(s, u)
    BY <1>2 DEF SubmissionInv, RequestInv, Answers, Committed
  <2>3. SameKey(t, u)
    BY <1>2, <2>1, <2>2 DEF SameKey
  <2>4. t = u
    BY <1>2, <2>1, <2>2, <2>3 DEF SubmissionInv, UniqueKeys
  <2> QED BY <2>1, <2>2, <2>4
<1>3. SubmissionInv => SameAnswer
  BY <1>1, <1>2 DEF SameAnswer
<1> QED BY <1>3, SubmissionInvariant, PTL

(***************************************************************************)
(* For any number of requests with one key, however they race and fail:    *)
(* one task of the key enters a queue, by one call, and the stream holds   *)
(* no more messages for it than the client sends for one call.  A repeated *)
(* submission that finds its row (service.go Create, NewlyCreated) is not  *)
(* published again.                                                        *)
(***************************************************************************)
THEOREM PublishedOnceSafe == Spec => []PublishedOnce
<1>1. ASSUME SubmissionInv, NEW r \in Request
      PROVE  calls[r] <= 1 /\ stream[r] <= 1 + Resends /\ ~(stream[r] > 0 /\ r \in zset)
  BY <1>1 DEF SubmissionInv, RequestInv, Queues
<1>2. ASSUME SubmissionInv, NEW r \in Request, NEW s \in Request,
             calls[r] > 0, calls[s] > 0, SameKey(r, s)
      PROVE  r = s
  <2>1. rows[r] = "committed" /\ rows[s] = "committed"
    BY <1>2 DEF SubmissionInv, RequestInv, Queues
  <2> QED BY <1>2, <2>1 DEF SubmissionInv, UniqueKeys
<1>3. SubmissionInv => PublishedOnce
  BY <1>1, <1>2 DEF PublishedOnce
<1> QED BY <1>3, SubmissionInvariant, PTL

(***************************************************************************)
(* A committed task that no queue has is on its way to one, or its client  *)
(* was told 500 (service.go Create returns the error of PublishTask or     *)
(* ScheduleTask): no task is lost in silence.                              *)
(***************************************************************************)
THEOREM LossIsReportedSafe == Spec => []LossIsReported
<1>1. ASSUME SubmissionInv, NEW r \in Committed
      PROVE  Enqueued(r) \/ pc[r] = "queue" \/ ans[r].code = 500
  BY <1>1 DEF SubmissionInv, RequestInv, Queues, Committed
<1>2. SubmissionInv => LossIsReported
  BY <1>1 DEF LossIsReported
<1> QED BY <1>2, SubmissionInvariant, PTL

(***************************************************************************)
(* A request posted after its key was accepted finds the row: the error of *)
(* Store.Create for a conflict without a row is met only by a request that *)
(* overlaps the insertion it lost to.                                      *)
(***************************************************************************)
THEOREM RetryIsServedSafe == Spec => []RetryIsServed
<1>1. ASSUME SubmissionInv, NEW r \in Request, Lost(r), NEW s \in seen[r], SameKey(r, s)
      PROVE  FALSE
  <2>1. PICK c \in Committed : pc[r] = "insert" /\ SameKey(r, c) /\ c \notin snap[r]
    BY <1>1 DEF Lost
  <2>2. s \in Request /\ Accepted(s) /\ ans[s].task \in snap[r]
    BY <1>1, <2>1 DEF SubmissionInv, TypeOK, RequestInv, Snapshots
  <2>3. PICK t \in Request : /\ t = ans[s].task /\ rows[t] = "committed"
                             /\ t = s \/ SameKey(s, t)
    BY <1>1, <2>2 DEF SubmissionInv, RequestInv, Answers, Committed
  <2>4. SameKey(t, c) /\ c \in Request /\ rows[c] = "committed"
    BY <1>1, <2>1, <2>3 DEF SameKey, Committed
  <2>5. t = c
    BY <1>1, <2>3, <2>4 DEF SubmissionInv, UniqueKeys
  <2> QED BY <2>1, <2>2, <2>3, <2>5
<1>2. SubmissionInv => RetryIsServed
  BY <1>1 DEF RetryIsServed
<1> QED BY <1>2, SubmissionInvariant, PTL

=============================================================================
