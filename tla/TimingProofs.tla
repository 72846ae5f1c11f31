---------------------------- MODULE TimingProofs ----------------------------
(***************************************************************************)
(* The two modules that have a clock, for all durations: the attempts of   *)
(* one task (Attempts) and the start of delayed tasks (DelayedStart).      *)
(*                                                                         *)
(* ATTEMPTS.  How often a slow task is executed at once is a count, and no *)
(* step counts.  What the steps keep is the distance between the moments   *)
(* at which one message was given to workers (Apart), wherever each of     *)
(* them is with it by now, and they keep it because everyone who has a     *)
(* message that is idle for MinIdle has had it that long (Timed).  The     *)
(* count follows at the end: those moments fall into different stretches   *)
(* of MinIdle seconds, of which Longest has only so many.                  *)
(*                                                                         *)
(* DELAYED TASKS.  How long a due task waits depends on the scans that     *)
(* passed it over, which nobody remembers; but each of them dispatched a   *)
(* full batch of tasks that are ahead of it, and those remain (PassedOver).*)
(***************************************************************************)
EXTENDS Attempts, DelayedStart, FiniteSetTheorems, TLAPS

(* One claim, one message and one charge per attempt. *)
Counted ==
  /\ attempt = IF status \in {"pending", "retrying"} THEN retries ELSE retries + 1
  /\ msgs = IF status = "retrying" THEN retries ELSE retries + 1

(* The loops and the handlers that have a message. *)
Hands == waiting \cup execs

(* The part of TypeOK that speaks of the messages and the hands they are in. *)
HandsType ==
  /\ DOMAIN idle \subseteq 1..read /\ \A m \in DOMAIN idle : idle[m] \in 0..MinIdle
  /\ waiting \subseteq Waiting
  /\ execs \subseteq Exec

(* Nobody has had a message for less than its idle time. *)
Timed ==
  \A x \in Hands : x.msg <= read /\ (Delivered(x.msg) => idle[x.msg] <= x.held)

(* A handler ends before its message was in its worker's hands for too long. *)
Spent == \A x \in execs : x.held + x.left <= Longest

(* Those who have the same message were given it MinIdle apart. *)
Apart ==
  \A x, y \in Hands : x # y /\ x.msg = y.msg =>
    x.held + MinIdle <= y.held \/ y.held + MinIdle <= x.held

HandsInv == HandsType /\ Timed /\ Spent /\ Apart

AttemptsInv == TypeOK /\ Counted /\ HandsInv

-----------------------------------------------------------------------------
(* The operators. *)

LEMMA BackoffBound ==
  ASSUME NEW n \in Nat
  PROVE  BackoffDelay(n) \in 0..32
<1>1. PICK k \in 0..5 : BackoffDelay(n) = 2^k
  <2> DEFINE k == (IF n < 1 THEN 1 ELSE IF n > 6 THEN 6 ELSE n) - 1
  <2>1. k \in 0..5
    OBVIOUS
  <2> QED BY <2>1 DEF BackoffDelay
<1>2. 2^0 \in 0..32 /\ 2^1 \in 0..32 /\ 2^2 \in 0..32 /\ 2^3 \in 0..32
  OBVIOUS
<1>3. 2^4 \in 0..32 /\ 2^5 \in 0..32
  OBVIOUS
<1>4. k = 0 \/ k = 1 \/ k = 2 \/ k = 3 \/ k = 4 \/ k = 5
  OBVIOUS
<1> QED BY <1>1, <1>2, <1>3, <1>4

(* TotalBackoff is what it is called: each retry adds its delay. *)
LEMMA TotalBackoffSums ==
  /\ TotalBackoff(0) = 0
  /\ \A n \in Nat : /\ TotalBackoff(n) \in Nat
                    /\ TotalBackoff(n + 1) = TotalBackoff(n) + BackoffDelay(n + 1)
<1>1. 2^0 = 1 /\ 2^1 = 2 /\ 2^2 = 4 /\ 2^3 = 8 /\ 2^4 = 16 /\ 2^5 = 32 /\ 2^6 = 64
  OBVIOUS
<1>2. TotalBackoff(0) = 0
  BY <1>1 DEF TotalBackoff
<1>3. ASSUME NEW n \in Nat
      PROVE  TotalBackoff(n) \in Nat /\ TotalBackoff(n + 1) = TotalBackoff(n) + BackoffDelay(n + 1)
  <2>1. CASE n <= 6
    <3>1. n = 0 \/ n = 1 \/ n = 2 \/ n = 3 \/ n = 4 \/ n = 5 \/ n = 6
      BY <2>1
    <3> USE <1>1 DEF TotalBackoff, BackoffDelay
    <3>2. CASE n = 0
      BY <3>2
    <3>3. CASE n = 1
      BY <3>3
    <3>4. CASE n = 2
      BY <3>4
    <3>5. CASE n = 3
      BY <3>5
    <3>6. CASE n = 4
      BY <3>6
    <3>7. CASE n = 5
      BY <3>7
    <3>8. CASE n = 6
      BY <3>8
    <3> QED BY <3>1, <3>2, <3>3, <3>4, <3>5, <3>6, <3>7, <3>8
  <2>2. CASE ~(n <= 6)
    <3>1. BackoffDelay(n + 1) = 32
      BY <1>1, <2>2 DEF BackoffDelay
    <3>2. TotalBackoff(n) = 63 + 32 * (n - 6) /\ TotalBackoff(n + 1) = 63 + 32 * (n + 1 - 6)
      BY <2>2 DEF TotalBackoff
    <3> QED BY <2>2, <3>1, <3>2
  <2> QED BY <2>1, <2>2
<1> QED BY <1>2, <1>3

(* Values that are s apart fall into different stretches of s. *)
LEMMA DivApart ==
  ASSUME NEW s \in Nat \ {0}, NEW a \in Nat, NEW b \in Nat, a + s <= b
  PROVE  a \div s # b \div s
OBVIOUS

LEMMA DivBound ==
  ASSUME NEW s \in Nat \ {0}, NEW a \in Nat, NEW b \in Nat, a <= b
  PROVE  a \div s \in 0..(b \div s)
OBVIOUS

(* A set of records whose times are s apart holds no more of them than the *)
(* stretches of s that the largest time has.                               *)
LEMMA ApartIsFew ==
  ASSUME NEW s \in Nat \ {0}, NEW b \in Nat, NEW S,
         \A x \in S : x.held \in 0..b,
         \A x, y \in S : x # y => x.held + s <= y.held \/ y.held + s <= x.held
  PROVE  Cardinality(S) <= 1 + b \div s
<1>1. PICK n \in Nat : n = b \div s
  BY DivBound
<1> DEFINE T == 0..n
           f == [x \in S |-> x.held \div s]
<1>2. f \in [S -> T]
  BY <1>1, DivBound
<1>3. ASSUME NEW x \in S, NEW y \in S, f[x] = f[y] PROVE x = y
  <2>1. x.held \in Nat /\ y.held \in Nat /\ x.held \div s = y.held \div s
    BY <1>3
  <2>2. ~(x.held + s <= y.held) /\ ~(y.held + s <= x.held)
    BY <2>1, DivApart
  <2> QED BY <2>2
<1>4. f \in Injection(S, T)
  BY <1>2, <1>3 DEF Injection, IsInjective
<1>5. IsFiniteSet(T) /\ Cardinality(T) = n + 1
  <2>1. 0 \in Int /\ n \in Int /\ ~(0 > n) /\ n - 0 + 1 = n + 1
    OBVIOUS
  <2> QED BY <2>1, FS_Interval
<1>6. IsFiniteSet(S) /\ Cardinality(S) <= Cardinality(T)
  BY <1>4, <1>5, FS_Injection
<1>7. Cardinality(S) \in Nat
  BY <1>6, FS_CardinalityType
<1> QED BY <1>1, <1>5, <1>6, <1>7

-----------------------------------------------------------------------------
(* The messages in the hands of workers. *)

LEMMA Durations ==
  /\ Timeout \in Nat \ {0} /\ MinIdle \in Nat \ {0}
  /\ Slack \in Nat /\ MaxRetries \in Nat /\ Timeout + Slack \in Nat
  /\ MaxWait \in Nat /\ Longest \in Nat /\ Longest = MaxWait + (Timeout + Slack)
BY AttemptsAssumption DEF Longest

LEMMA HandNumbers ==
  ASSUME HandsType
  PROVE  /\ \A x \in Hands : x.msg \in Attempt /\ x.msg \in Nat /\ x.held \in 0..Longest
         /\ \A h \in waiting : h.held \in 0..MaxWait
         /\ \A x \in execs : x.left \in 0..(Timeout + Slack)
         /\ \A m \in DOMAIN idle : idle[m] \in 0..MinIdle
<1>1. \A h \in waiting : h.msg \in Attempt /\ h.msg \in Nat /\ h.held \in 0..MaxWait
  BY Durations DEF HandsType, Waiting, Attempt
<1>2. \A x \in execs : /\ x.msg \in Attempt /\ x.msg \in Nat /\ x.held \in 0..Longest
                       /\ x.left \in 0..(Timeout + Slack)
  BY Durations DEF HandsType, Exec, Attempt
<1>3. 0..MaxWait \subseteq 0..Longest
  BY Durations
<1> QED BY <1>1, <1>2, <1>3 DEF Hands, HandsType

(* The message given to a worker is silent in all other hands. *)
LEMMA GivenKeeps ==
  ASSUME HandsInv, read \in Nat, read' \in Nat, read <= read',
         NEW m \in 1..read', m \in Attempt, NEW b \in BOOLEAN, Given(m, b),
         m > read \/ (Delivered(m) /\ idle[m] >= MinIdle)
  PROVE  HandsInv'
<1> DEFINE g == [msg |-> m, recovered |-> b, held |-> 0]
<1>1. g \in Waiting /\ g.msg = m /\ g.held = 0
  BY Durations DEF Waiting
<1>2. waiting' = waiting \cup {g} /\ execs' = execs /\ idle' = Touch(m)
  BY DEF Given
<1> HIDE DEF g
<1>3. Hands' = Hands \cup {g}
  BY <1>2 DEF Hands
<1>4. HandsType /\ Timed /\ Spent /\ Apart
  BY DEF HandsInv
<1>5. /\ DOMAIN idle' \subseteq 1..read' /\ idle'[m] = 0
      /\ \A n \in DOMAIN idle' : /\ idle'[n] \in 0..MinIdle
                                 /\ n # m => n \in DOMAIN idle /\ idle'[n] = idle[n]
  BY <1>2, <1>4, Durations DEF HandsType, Touch
<1>6. HandsType'
  BY <1>1, <1>2, <1>4, <1>5 DEF HandsType
<1>7. Timed'
  <2> SUFFICES ASSUME NEW x \in Hands'
               PROVE  /\ x.msg <= read'
                      /\ x.msg \in DOMAIN idle' => idle'[x.msg] <= x.held
    BY DEF Timed, Delivered
  <2>1. CASE x = g
    BY <1>1, <1>5, <2>1
  <2>2. CASE x \in Hands
    <3>1. x.msg \in Nat /\ x.held \in 0..Longest /\ x.msg <= read
      BY <1>4, <2>2, HandNumbers DEF Timed
    <3>2. x.msg \in DOMAIN idle => idle[x.msg] <= x.held
      BY <1>4, <2>2 DEF Timed, Delivered
    <3>3. CASE x.msg = m
      BY <1>5, <3>1, <3>3, Durations
    <3>4. CASE x.msg # m
      BY <1>5, <3>1, <3>2, <3>4
    <3> QED BY <3>3, <3>4
  <2> QED BY <1>3, <2>1, <2>2
<1>8. \A x \in Hands : x.msg = m => 0 + MinIdle <= x.held
  <2> SUFFICES ASSUME NEW x \in Hands, x.msg = m PROVE 0 + MinIdle <= x.held
    OBVIOUS
  <2>1. x.msg \in Nat /\ x.held \in 0..Longest /\ x.msg <= read
    BY <1>4, HandNumbers DEF Timed
  <2>2. Delivered(m) /\ idle[m] \in 0..MinIdle /\ idle[m] >= MinIdle
    BY <1>4, <2>1 DEF HandsType, Delivered
  <2>3. idle[m] <= x.held
    BY <1>4, <2>2 DEF Timed
  <2> QED BY <2>1, <2>2, <2>3, Durations
<1>9. Apart'
  BY <1>1, <1>3, <1>4, <1>8 DEF Apart
<1>10. Spent'
  BY <1>2, <1>4 DEF Spent
<1> QED BY <1>6, <1>7, <1>9, <1>10 DEF HandsInv

(* A handler takes over the message from the loop of its worker. *)
LEMMA StartKeeps ==
  ASSUME HandsInv, NEW h \in waiting, NEW a \in Attempt,
         waiting' = waiting \ {h}, execs' = execs \cup {Started(h, a)},
         UNCHANGED <<read, idle>>
  PROVE  HandsInv'
<1>1. HandsType /\ Timed /\ Spent /\ Apart
  BY DEF HandsInv
<1>2. h \in Hands /\ h.msg \in Attempt /\ h.held \in 0..MaxWait /\ h.held \in 0..Longest
  BY <1>1, HandNumbers DEF Hands
<1>3. /\ Started(h, a).msg = h.msg /\ Started(h, a).held = h.held
      /\ Started(h, a).left = Timeout + Slack
  BY DEF Started
<1>4. Started(h, a) \in Exec
  BY <1>2, Durations DEF Started, Exec
<1>5. HandsType'
  BY <1>1, <1>4 DEF HandsType
<1>6. Spent'
  <2>1. h.held + (Timeout + Slack) <= Longest
    BY <1>2, Durations
  <2> QED BY <1>1, <1>3, <2>1 DEF Spent
<1>7. Hands' \subseteq Hands \cup {Started(h, a)}
  BY DEF Hands
<1>8. Timed'
  BY <1>1, <1>2, <1>3, <1>7 DEF Timed, Delivered
<1>9. ASSUME NEW x \in Hands', x # Started(h, a)
      PROVE  x \in Hands /\ x # h
  <2>1. x \in execs => x # h
    BY <1>1 DEF HandsType, Exec, Waiting
  <2> QED BY <1>9, <2>1 DEF Hands
<1>10. Apart'
  <2> SUFFICES ASSUME NEW x \in Hands', NEW y \in Hands', x # y, x.msg = y.msg
               PROVE  x.held + MinIdle <= y.held \/ y.held + MinIdle <= x.held
    BY DEF Apart
  <2>1. CASE x # Started(h, a) /\ y # Started(h, a)
    BY <1>1, <1>9, <2>1 DEF Apart
  <2>2. CASE x = Started(h, a)
    BY <1>1, <1>2, <1>3, <1>9, <2>2 DEF Apart
  <2>3. CASE y = Started(h, a)
    BY <1>1, <1>2, <1>3, <1>9, <2>3 DEF Apart
  <2> QED BY <2>1, <2>2, <2>3
<1> QED BY <1>5, <1>6, <1>8, <1>10 DEF HandsInv

(* Hands let go of messages, and a message is acknowledged or not. *)
LEMMA FewerKeeps ==
  ASSUME HandsInv, NEW m, waiting' \subseteq waiting, execs' \subseteq execs,
         idle' \in {idle, Without(m)}, UNCHANGED read
  PROVE  HandsInv'
<1>1. HandsType /\ Timed /\ Spent /\ Apart
  BY DEF HandsInv
<1>2. /\ DOMAIN idle' \subseteq DOMAIN idle
      /\ \A n \in DOMAIN idle' : idle'[n] = idle[n]
  BY DEF Without
<1>3. HandsType'
  BY <1>1, <1>2 DEF HandsType
<1>4. Hands' \subseteq Hands
  BY DEF Hands
<1>5. Timed'
  BY <1>1, <1>2, <1>4 DEF Timed, Delivered
<1>6. Apart' /\ Spent'
  BY <1>1, <1>4 DEF Apart, Spent
<1> QED BY <1>3, <1>5, <1>6 DEF HandsInv

(* A second is the same for the messages and for the hands they are in. *)
LEMMA TickKeeps ==
  ASSUME HandsInv, Tick
  PROVE  HandsInv'
<1>1. HandsType /\ Timed /\ Spent /\ Apart /\ UNCHANGED read
  BY DEF HandsInv, Tick
<1>2. ASSUME NEW y \in waiting'
      PROVE  y \in Waiting /\ \E x \in waiting : /\ y = [x EXCEPT !.held = x.held + 1]
                                               /\ y.msg = x.msg /\ y.held = x.held + 1
  <2>1. PICK x \in waiting : y = [x EXCEPT !.held = x.held + 1]
    BY <1>2 DEF Tick
  <2>2. x \in Waiting /\ x.held \in 0..MaxWait /\ x.held < MaxWait
    BY <1>1, HandNumbers DEF HandsType, Tick
  <2>3. x.held + 1 \in 0..MaxWait
    BY <2>2, Durations
  <2>4. y \in Waiting /\ y.msg = x.msg /\ y.held = x.held + 1
    BY <2>1, <2>2, <2>3 DEF Waiting
  <2> QED BY <2>1, <2>4
<1>3. ASSUME NEW y \in execs'
      PROVE  y \in Exec /\ \E x \in execs :
                            /\ y = [x EXCEPT !.left = x.left - 1, !.held = x.held + 1]
                            /\ y.msg = x.msg /\ y.held = x.held + 1 /\ y.left = x.left - 1
                            /\ y.held + y.left <= Longest
  <2>1. PICK x \in execs : y = [x EXCEPT !.left = x.left - 1, !.held = x.held + 1]
    BY <1>3 DEF Tick
  <2>2. /\ x \in Exec /\ x.left \in 0..(Timeout + Slack) /\ x.left > 0
        /\ x.held \in 0..Longest /\ x.held + x.left <= Longest
    BY <1>1, HandNumbers DEF HandsType, Hands, Spent, Tick
  <2>3. /\ x.left - 1 \in 0..(Timeout + Slack) /\ x.held + 1 \in 0..Longest
        /\ x.held + 1 + (x.left - 1) <= Longest
    BY <2>2, Durations
  <2>4. y \in Exec /\ y.msg = x.msg /\ y.held = x.held + 1 /\ y.left = x.left - 1
    BY <2>1, <2>2, <2>3 DEF Exec
  <2> QED BY <2>1, <2>3, <2>4
<1>4. /\ DOMAIN idle' = DOMAIN idle
      /\ \A m \in DOMAIN idle : /\ idle[m] \in 0..MinIdle /\ idle'[m] \in 0..MinIdle
                                /\ idle'[m] <= idle[m] + 1
  <2>1. idle' = [m \in DOMAIN idle |-> IF idle[m] < MinIdle THEN idle[m] + 1 ELSE MinIdle]
    BY DEF Tick
  <2>2. \A m \in DOMAIN idle : idle[m] \in 0..MinIdle
    BY <1>1 DEF HandsType
  <2> QED BY <2>1, <2>2, Durations
<1>5. HandsType'
  BY <1>1, <1>2, <1>3, <1>4 DEF HandsType
<1>6. Spent'
  BY <1>3 DEF Spent
<1>7. ASSUME NEW y \in Hands'
      PROVE  \E x \in Hands : /\ y.msg = x.msg /\ y.held = x.held + 1
                              /\ \/ y = [x EXCEPT !.held = x.held + 1] /\ x \in waiting
                                 \/ /\ y = [x EXCEPT !.left = x.left - 1, !.held = x.held + 1]
                                    /\ x \in execs
  BY <1>2, <1>3, <1>7 DEF Hands
<1>8. Timed'
  <2> SUFFICES ASSUME NEW y \in Hands'
               PROVE  /\ y.msg <= read'
                      /\ y.msg \in DOMAIN idle' => idle'[y.msg] <= y.held
    BY DEF Timed, Delivered
  <2>1. PICK x \in Hands : y.msg = x.msg /\ y.held = x.held + 1
    BY <1>7
  <2>2. /\ x.msg <= read /\ x.held \in 0..Longest
        /\ x.msg \in DOMAIN idle => idle[x.msg] <= x.held
    BY <1>1, HandNumbers DEF Timed, Delivered
  <2> QED BY <1>1, <1>4, <2>1, <2>2, Durations
<1>9. Apart'
  <2> SUFFICES ASSUME NEW y \in Hands', NEW v \in Hands', y # v, y.msg = v.msg
               PROVE  y.held + MinIdle <= v.held \/ v.held + MinIdle <= y.held
    BY DEF Apart
  <2>1. PICK x \in Hands : /\ y.msg = x.msg /\ y.held = x.held + 1
                           /\ \/ y = [x EXCEPT !.held = x.held + 1] /\ x \in waiting
                              \/ /\ y = [x EXCEPT !.left = x.left - 1, !.held = x.held + 1]
                                 /\ x \in execs
    BY <1>7
  <2>2. PICK u \in Hands : /\ v.msg = u.msg /\ v.held = u.held + 1
                           /\ \/ v = [u EXCEPT !.held = u.held + 1] /\ u \in waiting
                              \/ /\ v = [u EXCEPT !.left = u.left - 1, !.held = u.held + 1]
                                 /\ u \in execs
    BY <1>7
  <2>3. waiting \cap execs = {}
    BY <1>1 DEF HandsType, Waiting, Exec
  <2>4. x # u
    BY <2>1, <2>2, <2>3
  <2>5. x.held + MinIdle <= u.held \/ u.held + MinIdle <= x.held
    BY <1>1, <2>1, <2>2, <2>4 DEF Apart
  <2>6. x.held \in 0..Longest /\ u.held \in 0..Longest
    BY <1>1, HandNumbers
  <2> QED BY <2>1, <2>2, <2>5, <2>6, Durations
<1> QED BY <1>5, <1>6, <1>8, <1>9 DEF HandsInv

-----------------------------------------------------------------------------
(* The row. *)

(* The part of TypeOK that speaks of the row and of the counters. *)
RowType ==
  /\ status \in {"pending", "running", "retrying", "success", "dead"}
  /\ attempt \in 0..(MaxRetries + 1)
  /\ age \in 0..Timeout
  /\ retries \in 0..MaxRetries
  /\ wait \in 0..32
  /\ msgs \in Attempt

LEMMA Parts ==
  AttemptsInv <=> /\ RowType /\ read \in 0..msgs /\ scanned \in BOOLEAN
                  /\ HandsInv /\ Counted
BY DEF AttemptsInv, TypeOK, RowType, HandsInv, HandsType

LEMMA PartsNext ==
  AttemptsInv' <=> /\ RowType' /\ read' \in 0..msgs' /\ scanned' \in BOOLEAN
                   /\ HandsInv' /\ Counted'
BY DEF AttemptsInv, TypeOK, RowType, HandsInv, HandsType

(* A pending row is claimed within the budget of attempts. *)
LEMMA ClaimRow ==
  ASSUME RowType, Counted, NEW m, Claim(m), UNCHANGED msgs
  PROVE  RowType' /\ Counted' /\ attempt + 1 \in Attempt
BY Durations DEF RowType, Counted, Claim, Attempt

(* A running row is decided: done, charged once, or buried. *)
LEMMA DecideRow ==
  ASSUME RowType, Counted, status = "running",
         (status' = "success" /\ UNCHANGED <<retries, wait>>) \/ Charge \/ Bury,
         UNCHANGED <<attempt, age, msgs>>
  PROVE  RowType' /\ Counted'
<1>1. CASE status' = "success" /\ UNCHANGED <<retries, wait>>
  BY <1>1 DEF RowType, Counted
<1>2. CASE Bury
  BY <1>2 DEF RowType, Counted, Bury
<1>3. CASE Charge
  <2>1. retries + 1 \in Nat
    BY Durations DEF RowType
  <2>2. CASE retries + 1 > MaxRetries
    BY <1>3, <2>2, Durations DEF RowType, Counted, Charge
  <2>3. CASE ~(retries + 1 > MaxRetries)
    <3>1. wait' \in 0..32
      BY <1>3, <2>1, <2>3, BackoffBound DEF Charge
    <3> QED BY <1>3, <2>3, <3>1, Durations DEF RowType, Counted, Charge
  <2> QED BY <2>2, <2>3
<1> QED BY <1>1, <1>2, <1>3

LEMMA SameRow ==
  ASSUME RowType, Counted, UNCHANGED <<status, attempt, age, retries, wait, msgs>>
  PROVE  RowType' /\ Counted'
BY DEF RowType, Counted

-----------------------------------------------------------------------------
(* The steps. *)

LEMMA AttemptsInit == Init => AttemptsInv
<1> SUFFICES ASSUME Init PROVE AttemptsInv
  OBVIOUS
<1>1. DOMAIN idle = {}
  BY DEF Init
<1>2. RowType /\ Counted
  BY Durations DEF Init, RowType, Counted, Attempt
<1>3. HandsInv
  BY <1>1 DEF Init, HandsInv, HandsType, Timed, Spent, Apart, Hands
<1>4. read \in 0..msgs
  BY DEF Init
<1>5. scanned \in BOOLEAN
  BY DEF Init
<1> QED BY <1>2, <1>3, <1>4, <1>5, Parts

LEMMA GivenStep ==
  ASSUME AttemptsInv, NEW m \in 1..msgs, Recover(m) \/ (Read /\ m = read + 1)
  PROVE  AttemptsInv'
<1>0. /\ RowType /\ read \in 0..msgs /\ scanned \in BOOLEAN
      /\ HandsInv /\ Counted
  BY Parts
<1>1. PICK b \in BOOLEAN : Given(m, b)
  BY DEF Recover, Read
<1>2. UNCHANGED <<status, attempt, age, retries, wait, msgs, scanned>>
  BY <1>1 DEF Given, row
<1>3. RowType' /\ Counted'
  BY <1>0, <1>2, SameRow
<1>4. msgs \in Nat /\ read \in Nat /\ m \in Attempt
  BY <1>0, Durations DEF RowType, Attempt
<1>5. CASE Recover(m)
  <2>1. Delivered(m) /\ idle[m] >= MinIdle /\ read' = read /\ m \in 1..read'
    BY <1>0, <1>5 DEF Recover, Delivered, HandsInv, HandsType
  <2>2. HandsInv'
    BY <1>0, <1>1, <1>4, <2>1, GivenKeeps
  <2> QED BY <1>0, <1>2, <1>3, <2>1, <2>2, PartsNext
<1>6. CASE Read /\ m = read + 1
  <2>1. read' = m /\ m > read /\ m \in 1..read' /\ read <= read' /\ read' \in 0..msgs
    BY <1>0, <1>4, <1>6 DEF Read
  <2>2. HandsInv'
    BY <1>0, <1>1, <1>4, <2>1, GivenKeeps
  <2> QED BY <1>0, <1>2, <1>3, <2>1, <2>2, PartsNext
<1> QED BY <1>5, <1>6

LEMMA StartStep ==
  ASSUME AttemptsInv, NEW h \in waiting, Start(h)
  PROVE  AttemptsInv'
<1>0. /\ RowType /\ read \in 0..msgs /\ scanned \in BOOLEAN
      /\ HandsInv /\ Counted
  BY Parts
<1>1. waiting' = waiting \ {h} /\ UNCHANGED <<msgs, read>>
  BY DEF Start
<1>2. CASE Claim(h)
  <2>1. RowType' /\ Counted' /\ attempt + 1 \in Attempt
    BY <1>0, <1>1, <1>2, ClaimRow
  <2>2. execs' = execs \cup {Started(h, attempt + 1)} /\ UNCHANGED <<idle, scanned>>
    BY <1>2 DEF Claim
  <2>3. HandsInv'
    BY <1>0, <1>1, <2>1, <2>2, StartKeeps
  <2> QED BY <1>0, <1>1, <2>1, <2>2, <2>3, PartsNext
<1>3. CASE Repeat(h)
  <2>1. /\ status = "running" /\ execs' = execs \cup {Started(h, attempt)}
        /\ UNCHANGED <<status, attempt, age, retries, wait, scanned, idle>>
    BY <1>3 DEF Repeat, row
  <2>2. RowType' /\ Counted'
    BY <1>0, <1>1, <2>1, SameRow
  <2>3. attempt \in Attempt
    BY <1>0, <2>1, Durations DEF RowType, Counted, Attempt
  <2>4. HandsInv'
    BY <1>0, <1>1, <2>1, <2>3, StartKeeps
  <2> QED BY <1>0, <1>1, <2>1, <2>2, <2>4, PartsNext
<1>4. CASE Skip(h)
  <2>1. /\ idle' \in {idle, Without(h.msg)}
        /\ UNCHANGED <<status, attempt, age, retries, wait, scanned, execs>>
    BY <1>4 DEF Skip, row
  <2>2. RowType' /\ Counted'
    BY <1>0, <1>1, <2>1, SameRow
  <2>3. HandsInv'
    BY <1>0, <1>1, <2>1, FewerKeeps
  <2> QED BY <1>0, <1>1, <2>1, <2>2, <2>3, PartsNext
<1> QED BY <1>2, <1>3, <1>4 DEF Start

LEMMA ReturnStep ==
  ASSUME AttemptsInv, NEW x \in Hands, (x \in execs /\ Return(x)) \/ Vanish(x)
  PROVE  AttemptsInv'
<1>0. /\ RowType /\ read \in 0..msgs /\ scanned \in BOOLEAN
      /\ HandsInv /\ Counted
  BY Parts
<1>1. /\ read' = read /\ scanned' = scanned /\ waiting' \subseteq waiting
      /\ execs' \subseteq execs /\ UNCHANGED <<attempt, age, msgs>>
  BY DEF Return, Vanish, row
<1>2. idle' \in {idle, Without(x.msg)}
  BY DEF Return, Vanish
<1>3. HandsInv'
  BY <1>0, <1>1, <1>2, FewerKeeps
<1>4. RowType' /\ Counted'
  <2>1. \/ UNCHANGED <<status, retries, wait>>
        \/ /\ status = "running"
           /\ (status' = "success" /\ UNCHANGED <<retries, wait>>) \/ Charge \/ Bury
    BY DEF Return, Vanish, row
  <2> QED BY <1>0, <1>1, <2>1, SameRow, DecideRow
<1> QED BY <1>0, <1>1, <1>3, <1>4, PartsNext

LEMMA SchedulerStep ==
  ASSUME AttemptsInv, Scan \/ RecoverRunning \/ Dispatch
  PROVE  AttemptsInv'
<1>0. /\ RowType /\ read \in 0..msgs /\ scanned \in BOOLEAN
      /\ HandsInv /\ Counted
  BY Parts
<1>1. UNCHANGED <<attempt, age, read, idle, waiting, execs>>
  BY DEF Scan, RecoverRunning, Dispatch
<1>2. HandsInv'
  BY <1>0, <1>1 DEF HandsInv, HandsType, Timed, Spent, Apart, Hands, Delivered
<1>3. scanned' \in BOOLEAN
  BY <1>0 DEF Scan, RecoverRunning, Dispatch
<1>4. CASE Scan \/ RecoverRunning
  <2>1. UNCHANGED msgs
    BY <1>4 DEF Scan, RecoverRunning
  <2>2. UNCHANGED <<status, retries, wait>> \/ (status = "running" /\ Charge)
    BY <1>4 DEF Scan, RecoverRunning
  <2>3. RowType' /\ Counted'
    BY <1>0, <1>1, <2>1, <2>2, SameRow, DecideRow
  <2> QED BY <1>0, <1>1, <1>2, <1>3, <2>1, <2>3, PartsNext
<1>5. CASE Dispatch
  <2>1. msgs' = msgs + 1 /\ read' \in 0..msgs'
    BY <1>0, <1>5, Durations DEF Dispatch, RowType, Attempt
  <2>2. RowType' /\ Counted'
    BY <1>0, <1>5, Durations DEF Dispatch, RowType, Counted, Attempt
  <2> QED BY <1>2, <1>3, <2>1, <2>2, PartsNext
<1> QED BY <1>4, <1>5

LEMMA TickStep ==
  ASSUME AttemptsInv, Tick
  PROVE  AttemptsInv'
<1>0. /\ RowType /\ read \in 0..msgs /\ scanned \in BOOLEAN
      /\ HandsInv /\ Counted
  BY Parts
<1>1. HandsInv'
  BY <1>0, TickKeeps
<1>2. age' \in 0..Timeout /\ wait' \in 0..32
  <2>1. /\ age' = IF age < Timeout THEN age + 1 ELSE age
        /\ wait' = IF wait > 0 THEN wait - 1 ELSE 0
    BY DEF Tick
  <2>2. age \in 0..Timeout /\ wait \in 0..32
    BY <1>0 DEF RowType
  <2> QED BY <2>1, <2>2, Durations
<1>3. RowType' /\ Counted' /\ read' \in 0..msgs'
  BY <1>0, <1>2 DEF Tick, RowType, Counted
<1>4. scanned' \in BOOLEAN
  BY <1>0 DEF Tick
<1> QED BY <1>1, <1>3, <1>4, PartsNext

LEMMA AttemptsNext == AttemptsInv /\ [Next]_vars => AttemptsInv'
<1> SUFFICES ASSUME AttemptsInv, [Next]_vars PROVE AttemptsInv'
  OBVIOUS
<1>1. CASE Next
  <2>1. CASE Read
    <3>1. read + 1 \in 1..msgs
      BY <2>1, Durations DEF AttemptsInv, TypeOK, Read, Attempt
    <3> QED BY <2>1, <3>1, GivenStep
  <2>2. CASE \E h \in waiting : Start(h) \/ Vanish(h)
    BY <2>2, StartStep, ReturnStep DEF Hands
  <2>3. CASE \E x \in execs : Return(x) \/ Vanish(x)
    BY <2>3, ReturnStep DEF Hands
  <2> QED BY <1>1, <2>1, <2>2, <2>3, GivenStep, SchedulerStep, TickStep DEF Next
<1>2. CASE UNCHANGED vars
  <2>0. /\ RowType /\ read \in 0..msgs /\ scanned \in BOOLEAN
        /\ HandsInv /\ Counted
    BY Parts
  <2>1. RowType' /\ Counted'
    BY <1>2, <2>0, SameRow DEF vars
  <2>2. HandsInv'
    BY <1>2, <2>0 DEF vars, HandsInv, HandsType, Timed, Spent, Apart, Hands, Delivered
  <2>3. read' = read /\ msgs' = msgs /\ scanned' = scanned
    BY <1>2 DEF vars
  <2> QED BY <2>0, <2>1, <2>2, <2>3, PartsNext
<1> QED BY <1>1, <1>2

LEMMA AttemptsSafe == Spec => []AttemptsInv
BY AttemptsInit, AttemptsNext, PTL DEF Spec

-----------------------------------------------------------------------------

(***************************************************************************)
(* A task is claimed at most max_retries + 1 times and has at most as many *)
(* messages, although every failure is charged to the row whichever        *)
(* attempt it was (ClaimTask, handleExecutionFailure, recoverRunning).     *)
(***************************************************************************)
THEOREM AttemptsTypeCorrect == Spec => []TypeOK
<1>1. AttemptsInv => TypeOK
  BY DEF AttemptsInv
<1> QED BY <1>1, AttemptsSafe, PTL

(***************************************************************************)
(* However short the idle time of a message is against the timeout of its  *)
(* task and the waits for a slot, the message is in at most                *)
(* 1 + Longest \div MinIdle hands at once, running handlers and those that *)
(* wait to be started together (executeWithTimeout, acquireSlot, and       *)
(* XCLAIM in ClaimPending).                                                *)
(***************************************************************************)
THEOREM ExecutionsBoundedSafe == Spec => []ExecutionsBounded
<1>1. AttemptsInv => ExecutionsBounded
  <2> SUFFICES ASSUME AttemptsInv, NEW m \in Attempt
               PROVE  Cardinality({x \in waiting \cup execs : x.msg = m})
                        <= 1 + Longest \div MinIdle
    BY DEF ExecutionsBounded
  <2> DEFINE S == {x \in waiting \cup execs : x.msg = m}
  <2>1. \A x \in S : x.held \in 0..Longest
    BY HandNumbers DEF AttemptsInv, HandsInv, Hands
  <2>2. \A x, y \in S : x # y => x.held + MinIdle <= y.held \/ y.held + MinIdle <= x.held
    BY DEF AttemptsInv, HandsInv, Apart, Hands
  <2> HIDE DEF S
  <2>3. Cardinality(S) <= 1 + Longest \div MinIdle
    BY <2>1, <2>2, Durations, ApartIsFew
  <2> QED BY <2>3 DEF S
<1> QED BY <1>1, AttemptsSafe, PTL

(* A handler has no more of its time left than the delays since leave it; *)
(* of the last delay, only what has passed of it counts.                   *)
Recent ==
  \A x \in execs : status \in {"pending", "running", "retrying"} =>
    x.left + TotalBackoff(retries)
      <= Timeout + Slack + TotalBackoff(x.attempt - 1)
         + (IF status = "retrying" THEN wait ELSE 0)

LEMMA ExecNumbers ==
  ASSUME AttemptsInv, NEW x \in execs
  PROVE  x.left \in Nat /\ x.attempt - 1 \in Nat /\ TotalBackoff(x.attempt - 1) \in Nat
<1>1. x.left \in Nat /\ x.attempt - 1 \in Nat
  BY Durations DEF AttemptsInv, TypeOK, Exec, Attempt
<1> QED BY <1>1, TotalBackoffSums

(* A handler that starts belongs to the attempt that runs. *)
LEMMA StartRecent ==
  ASSUME AttemptsInv, Recent, NEW h, NEW a,
         status \in {"pending", "running"}, status' = "running",
         a = retries + 1, retries' = retries,
         execs' = execs \cup {Started(h, a)}
  PROVE  Recent'
<1>1. retries \in Nat /\ a - 1 = retries /\ TotalBackoff(retries) \in Nat
  BY Durations, TotalBackoffSums DEF AttemptsInv, TypeOK
<1> SUFFICES ASSUME NEW x \in execs'
             PROVE  x.left + TotalBackoff(retries)
                      <= Timeout + Slack + TotalBackoff(x.attempt - 1) + 0
  BY DEF Recent
<1>2. CASE x \in execs
  BY <1>2 DEF Recent
<1>3. CASE x = Started(h, a)
  <2>1. x.left = Timeout + Slack /\ x.attempt = a
    BY <1>3 DEF Started
  <2> QED BY <1>1, <2>1, Durations
<1> QED BY <1>2, <1>3

(* A charge adds the delay to both sides; nothing else is asked of a row   *)
(* that is done.                                                           *)
LEMMA DecideRecent ==
  ASSUME AttemptsInv, Recent, execs' \subseteq execs,
         \/ UNCHANGED <<status, retries, wait>>
         \/ status = "running" /\ (status' = "success" \/ Charge \/ Bury)
  PROVE  Recent'
<1> SUFFICES ASSUME NEW x \in execs', status' \in {"pending", "running", "retrying"}
             PROVE  x.left + TotalBackoff(retries')
                      <= Timeout + Slack + TotalBackoff(x.attempt - 1)
                         + (IF status' = "retrying" THEN wait' ELSE 0)
  BY DEF Recent
<1>1. x \in execs
  OBVIOUS
<1>2. CASE UNCHANGED <<status, retries, wait>>
  BY <1>1, <1>2 DEF Recent
<1>3. CASE status = "running" /\ Charge
  <2>1. /\ status' = "retrying" /\ retries' = retries + 1
        /\ wait' = BackoffDelay(retries + 1)
    BY <1>3 DEF Charge
  <2>2. retries \in Nat /\ retries + 1 \in Nat
    BY Durations DEF AttemptsInv, TypeOK
  <2>3. /\ TotalBackoff(retries) \in Nat /\ BackoffDelay(retries + 1) \in Nat
        /\ TotalBackoff(retries + 1) = TotalBackoff(retries) + BackoffDelay(retries + 1)
    BY <2>2, TotalBackoffSums, BackoffBound
  <2>4. x.left + TotalBackoff(retries) <= Timeout + Slack + TotalBackoff(x.attempt - 1) + 0
    BY <1>1, <1>3 DEF Recent
  <2> QED BY <1>1, <2>1, <2>3, <2>4, ExecNumbers, Durations
<1> QED BY <1>2, <1>3 DEF Bury

LEMMA OneLess ==
  \A l, t, s, a, w, v \in Nat :
    l + t <= s + a + w /\ w <= v + 1 => (l - 1) + t <= s + a + v
OBVIOUS

LEMMA TickRecent ==
  ASSUME AttemptsInv, Recent, Tick
  PROVE  Recent'
<1>1. status' = status /\ retries' = retries
  BY DEF Tick
<1> SUFFICES ASSUME NEW y \in execs', status \in {"pending", "running", "retrying"}
             PROVE  y.left + TotalBackoff(retries)
                      <= Timeout + Slack + TotalBackoff(y.attempt - 1)
                         + (IF status = "retrying" THEN wait' ELSE 0)
  BY <1>1 DEF Recent
<1>2. PICK x \in execs : y = [x EXCEPT !.left = x.left - 1, !.held = x.held + 1]
  BY DEF Tick
<1>3. x \in Exec /\ y.left = x.left - 1 /\ y.attempt = x.attempt
  BY <1>2 DEF AttemptsInv, TypeOK, Exec
<1>4. /\ wait \in Nat /\ wait' \in Nat /\ wait <= wait' + 1
      /\ TotalBackoff(retries) \in Nat
  <2>1. wait' = IF wait > 0 THEN wait - 1 ELSE 0
    BY DEF Tick
  <2>2. wait \in 0..32 /\ retries \in Nat
    BY Durations DEF AttemptsInv, TypeOK
  <2> QED BY <2>1, <2>2, TotalBackoffSums
<1>5. x.left + TotalBackoff(retries) <= Timeout + Slack + TotalBackoff(x.attempt - 1)
                                        + (IF status = "retrying" THEN wait ELSE 0)
  BY DEF Recent
<1>6. x.left - 1 \in Int /\ x.left \in Nat /\ TotalBackoff(x.attempt - 1) \in Nat
  BY ExecNumbers
<1>7. CASE status = "retrying"
  <2>1. x.left + TotalBackoff(retries)
          <= Timeout + Slack + TotalBackoff(x.attempt - 1) + wait
    BY <1>5, <1>7
  <2>2. (x.left - 1) + TotalBackoff(retries)
          <= Timeout + Slack + TotalBackoff(x.attempt - 1) + wait'
    BY <1>4, <1>6, <2>1, Durations, OneLess
  <2> QED BY <1>3, <1>7, <2>2
<1>8. CASE status # "retrying"
  BY <1>3, <1>4, <1>5, <1>6, <1>8, Durations
<1> QED BY <1>7, <1>8

LEMMA RecentNext == AttemptsInv /\ Recent /\ [Next]_vars => Recent'
<1> SUFFICES ASSUME AttemptsInv, Recent, [Next]_vars PROVE Recent'
  OBVIOUS
<1>1. ASSUME NEW h, Claim(h) PROVE Recent'
  <2>1. attempt + 1 = retries + 1 /\ retries' = retries
    BY <1>1 DEF AttemptsInv, Counted, Claim
  <2> QED BY <1>1, <2>1, StartRecent DEF Claim
<1>2. ASSUME NEW h, Skip(h) PROVE Recent'
  BY <1>2, DecideRecent DEF Skip, row
<1>3. ASSUME NEW h, Repeat(h) PROVE Recent'
  <2>1. /\ status = "running" /\ execs' = execs \cup {Started(h, attempt)}
        /\ attempt = retries + 1 /\ retries' = retries /\ status' = "running"
    BY <1>3 DEF AttemptsInv, Counted, Repeat, row
  <2> QED BY <2>1, StartRecent
<1>8. ASSUME NEW m, NEW b, Given(m, b) PROVE Recent'
  BY <1>8, DecideRecent DEF Given, row
<1>4. ASSUME NEW x, Return(x) \/ Vanish(x) PROVE Recent'
  <2>1. execs' \subseteq execs
    BY <1>4 DEF Return, Vanish
  <2>2. \/ UNCHANGED <<status, retries, wait>>
        \/ status = "running" /\ (status' = "success" \/ Charge \/ Bury)
    BY <1>4 DEF Return, Vanish, row
  <2> QED BY <2>1, <2>2, DecideRecent
<1>5. ASSUME Scan \/ RecoverRunning PROVE Recent'
  BY <1>5, DecideRecent DEF Scan, RecoverRunning
<1>6. ASSUME Dispatch PROVE Recent'
  <2>1. /\ status = "retrying" /\ wait = 0 /\ status' = "pending"
        /\ retries' = retries /\ execs' = execs
    BY <1>6 DEF Dispatch
  <2> QED BY <2>1 DEF Recent
<1>7. CASE UNCHANGED vars
  BY <1>7, DecideRecent DEF vars
<1> QED BY <1>1, <1>2, <1>3, <1>4, <1>5, <1>6, <1>7, <1>8, TickRecent
    DEF Next, Read, Recover, Start

(***************************************************************************)
(* A handler that outlived its attempt decides a later one only while its  *)
(* own time lasts, from which every backoff in between is taken: for all   *)
(* durations and any number of retries, what it has left and those delays  *)
(* fit into Timeout + Slack (handleExecutionFailure, BackoffDelay).        *)
(***************************************************************************)
THEOREM StaleIsShortSafe == Spec => []StaleIsShort
<1>1. Init => Recent
  BY DEF Init, Recent
<1>2. AttemptsInv /\ Recent => StaleIsShort
  <2> SUFFICES ASSUME AttemptsInv, Recent, NEW x \in execs, status = "running"
               PROVE  x.left + TotalBackoff(attempt - 1)
                        <= Timeout + Slack + TotalBackoff(x.attempt - 1)
    BY DEF StaleIsShort
  <2>1. attempt - 1 = retries
    BY Durations DEF AttemptsInv, TypeOK, Counted
  <2> QED BY <2>1, ExecNumbers, Durations DEF Recent
<1> QED BY <1>1, <1>2, AttemptsSafe, RecentNext, PTL DEF Spec

-----------------------------------------------------------------------------
(***************************************************************************)
(* Delayed tasks.                                                          *)
(***************************************************************************)

DelayType ==
  /\ now \in Nat /\ nextScan \in Nat
  /\ state \in [Task -> {"new", "scheduled", "dispatched"}]
  /\ runAt \in [Task -> Nat]
  /\ at \in [Task -> Nat]

(* The next scan is at most an interval away. *)
ScanAhead == now <= nextScan /\ nextScan <= now + Interval

(* The dispatched tasks with no later score. *)
Gone(t) == {u \in Task : state[u] = "dispatched" /\ Score(u) <= Score(t)}

(* So many scans have passed t over since it was due. *)
PassedOver(t, m) ==
  /\ m * Batch <= Cardinality(Gone(t))
  /\ nextScan < runAt[t] + Interval * (m + 1)

DelayInv ==
  /\ DelayType /\ ScanAhead /\ LessThanASecondEarly
  /\ \A t \in Task : state[t] = "scheduled" => \E m \in Nat : PassedOver(t, m)

LEMMA Sizes ==
  /\ Second \in Nat \ {0} /\ Interval \in Nat \ {0} /\ Batch \in Nat \ {0}
  /\ IsFiniteSet(Task)
BY DelayAssumption

(* Cut to whole seconds, a time is not past another unless it is at most   *)
(* part of a second before it.                                             *)
LEMMA UnixOrder ==
  ASSUME NEW a \in Nat, NEW b \in Nat
  PROVE  /\ Unix(a) \in Nat
         /\ Unix(a) <= Unix(b) => a < b + Second
         /\ ~(Unix(a) <= Unix(b)) => b < a
<1> USE Sizes DEF Unix
<1>1. Unix(a) \in Nat
  OBVIOUS
<1>2. ASSUME Unix(a) <= Unix(b) PROVE a < b + Second
  BY <1>2
<1>3. ASSUME ~(Unix(a) <= Unix(b)) PROVE b < a
  <2>1. ~(a <= b)
    BY <1>3, DivBound
  <2> QED BY <2>1
<1> QED BY <1>1, <1>2, <1>3

LEMMA GoneFinite ==
  ASSUME NEW t
  PROVE  IsFiniteSet(Gone(t)) /\ Cardinality(Gone(t)) \in Nat
<1>1. Gone(t) \in SUBSET Task
  BY DEF Gone
<1> QED BY <1>1, Sizes, FS_Subset, FS_CardinalityType

LEMMA DelayStart == DelayInit => DelayInv
<1> SUFFICES ASSUME DelayInit PROVE DelayInv
  OBVIOUS
<1>1. DelayType /\ ScanAhead
  BY Sizes DEF DelayInit, DelayType, ScanAhead
<1>2. LessThanASecondEarly /\ \A t \in Task : state[t] # "scheduled"
  BY DEF DelayInit, LessThanASecondEarly
<1> QED BY <1>1, <1>2 DEF DelayInv

(* More that is gone and the same scan ahead is as good. *)
LEMMA PassedOverKept ==
  ASSUME NEW t \in Task, NEW m \in Nat, PassedOver(t, m),
         Gone(t) \subseteq Gone(t)', nextScan' = nextScan, runAt'[t] = runAt[t]
  PROVE  PassedOver(t, m)'
<1>1. IsFiniteSet(Gone(t)') /\ Cardinality(Gone(t)') \in Nat
  <2>1. Gone(t)' \in SUBSET Task
    BY DEF Gone
  <2> QED BY <2>1, Sizes, FS_Subset, FS_CardinalityType
<1>2. Cardinality(Gone(t)) <= Cardinality(Gone(t)')
  BY <1>1, FS_Subset
<1>3. m * Batch \in Nat /\ Cardinality(Gone(t)) \in Nat
  BY Sizes, GoneFinite
<1>4. m * Batch <= Cardinality(Gone(t)')
  BY <1>1, <1>2, <1>3 DEF PassedOver
<1> QED BY <1>4 DEF PassedOver

LEMMA SubmitStep ==
  ASSUME DelayInv, NEW t \in Task, NEW time \in 0..MaxDelay, Submit(t, time)
  PROVE  DelayInv'
<1> USE Sizes
<1>1. DelayType /\ ScanAhead /\ time \in Nat
  BY DelayAssumption DEF DelayInv
<1>2. /\ state[t] = "new" /\ runAt'[t] = time /\ at'[t] = now
      /\ state'[t] = IF time > now THEN "scheduled" ELSE "dispatched"
      /\ \A u \in Task \ {t} : /\ state'[u] = state[u] /\ runAt'[u] = runAt[u]
                               /\ at'[u] = at[u]
      /\ now' = now /\ nextScan' = nextScan
  BY <1>1 DEF Submit, DelayType
<1>3. DelayType' /\ ScanAhead'
  BY <1>1 DEF Submit, DelayType, ScanAhead
<1>4. LessThanASecondEarly'
  BY <1>1, <1>2 DEF DelayInv, LessThanASecondEarly, DelayType
<1>5. ASSUME NEW u \in Task, state'[u] = "scheduled"
      PROVE  \E m \in Nat : PassedOver(u, m)'
  <2>1. CASE u = t
    <3>1. nextScan' < runAt'[u] + Interval * (0 + 1) /\ 0 * Batch = 0
      BY <1>1, <1>2, <1>5, <2>1 DEF ScanAhead, DelayType
    <3>2. Gone(u)' \in SUBSET Task
      BY DEF Gone
    <3>3. Cardinality(Gone(u)') \in Nat
      BY <3>2, FS_Subset, FS_CardinalityType
    <3>4. PassedOver(u, 0)'
      BY <3>1, <3>3 DEF PassedOver
    <3> QED BY <3>4
  <2>2. CASE u # t
    <3>1. PICK m \in Nat : PassedOver(u, m)
      BY <1>2, <1>5, <2>2 DEF DelayInv
    <3>2. Gone(u) \subseteq Gone(u)'
      BY <1>2, <2>2 DEF Gone, Score
    <3>3. PassedOver(u, m)'
      BY <1>2, <2>2, <3>1, <3>2, PassedOverKept
    <3> QED BY <3>3
  <2> QED BY <2>1, <2>2
<1> QED BY <1>3, <1>4, <1>5 DEF DelayInv

(* A batch that leaves a due task out is full. *)
LEMMA FullBatch ==
  ASSUME DelayType, NEW S \in DueTaskIDs, NEW u \in Due \ S
  PROVE  IsFiniteSet(S) /\ Cardinality(S) = Batch
<1>1. S \in SUBSET Due /\ Due \in SUBSET Task
  BY DEF DueTaskIDs, Due
<1>2. IsFiniteSet(Due) /\ IsFiniteSet(S)
  BY <1>1, Sizes, FS_Subset
<1>3. Cardinality(S) # Cardinality(Due)
  BY <1>1, <1>2, FS_Subset
<1> QED BY <1>2, <1>3 DEF DueTaskIDs

LEMMA ScheduleDueStep ==
  ASSUME DelayInv, ScheduleDue
  PROVE  DelayInv'
<1> USE Sizes
<1>1. DelayType /\ now = nextScan /\ now' = now /\ nextScan' = now + Interval
      /\ runAt' = runAt
  BY DEF DelayInv, ScheduleDue
<1>2. PICK S \in DueTaskIDs :
        /\ state' = [t \in Task |-> IF t \in S THEN "dispatched" ELSE state[t]]
        /\ at' = [t \in Task |-> IF t \in S THEN now ELSE at[t]]
  BY DEF ScheduleDue
<1>3. S \subseteq Due /\ Due \subseteq Task
  BY DEF DueTaskIDs, Due
<1>4. DelayType' /\ ScanAhead'
  BY <1>1, <1>2, <1>3 DEF DelayType, ScanAhead
<1>5. LessThanASecondEarly'
  <2> SUFFICES ASSUME NEW t \in Task, state'[t] = "dispatched"
               PROVE  runAt'[t] < at'[t] + Second
    BY DEF LessThanASecondEarly
  <2>1. CASE t \in S
    <3>1. Unix(runAt[t]) <= Unix(now) /\ runAt[t] \in Nat /\ now \in Nat
      BY <1>1, <1>3, <2>1 DEF Due, Score, DelayType
    <3> QED BY <1>1, <1>2, <2>1, <3>1, UnixOrder
  <2>2. CASE t \notin S
    BY <1>1, <1>2, <2>2 DEF DelayInv, LessThanASecondEarly
  <2> QED BY <2>1, <2>2
<1>6. ASSUME NEW u \in Task, state'[u] = "scheduled"
      PROVE  \E m \in Nat : PassedOver(u, m)'
  <2>1. state[u] = "scheduled" /\ u \notin S
    BY <1>2, <1>6
  <2>2. runAt[u] \in Nat /\ now \in Nat
    BY <1>1 DEF DelayType
  <2>3. IsFiniteSet(Gone(u)') /\ Cardinality(Gone(u)') \in Nat
    <3>1. Gone(u)' \in SUBSET Task
      BY DEF Gone
    <3> QED BY <3>1, FS_Subset, FS_CardinalityType
  <2>4. CASE Score(u) <= Unix(now)
    <3>1. u \in Due \ S
      BY <2>1, <2>4 DEF Due
    <3>2. IsFiniteSet(S) /\ Cardinality(S) = Batch
      BY <1>1, <3>1, FullBatch
    <3>3. PICK m \in Nat : PassedOver(u, m)
      BY <2>1 DEF DelayInv
    <3>4. \A v \in S : state[v] = "scheduled" /\ Score(v) <= Score(u)
      BY <1>3, <3>1 DEF DueTaskIDs, Due
    <3>5. S \cap Gone(u) = {} /\ Gone(u) \cup S \subseteq Gone(u)'
      BY <1>1, <1>2, <1>3, <3>4 DEF Gone, Score
    <3>6. IsFiniteSet(Gone(u)) /\ Cardinality(Gone(u)) \in Nat
      BY GoneFinite
    <3>7. /\ IsFiniteSet(Gone(u) \cup S)
          /\ Cardinality(Gone(u) \cup S) = Cardinality(Gone(u)) + Batch
      <4>1. Gone(u) \cap S = {} /\ Cardinality({}) = 0
        BY <3>5, FS_EmptySet
      <4>2. /\ IsFiniteSet(Gone(u) \cup S)
            /\ Cardinality(Gone(u) \cup S)
                 = Cardinality(Gone(u)) + Cardinality(S) - Cardinality(Gone(u) \cap S)
        BY <3>2, <3>6, FS_Union, Zenon
      <4> HIDE DEF Gone
      <4>3. Cardinality(Gone(u) \cup S) = Cardinality(Gone(u)) + Batch - 0
        BY <3>2, <4>1, <4>2, Zenon
      <4> QED BY <3>6, <4>2, <4>3
    <3>8. Cardinality(Gone(u)) + Batch <= Cardinality(Gone(u)')
      BY <2>3, <3>5, <3>7, FS_Subset
    <3>9. (m + 1) * Batch <= Cardinality(Gone(u)')
      BY <2>3, <3>3, <3>6, <3>8 DEF PassedOver
    <3>10. nextScan' < runAt'[u] + Interval * ((m + 1) + 1)
      BY <1>1, <2>2, <3>3 DEF PassedOver
    <3>11. PassedOver(u, m + 1)'
      BY <3>9, <3>10 DEF PassedOver
    <3> QED BY <3>11
  <2>5. CASE ~(Score(u) <= Unix(now))
    <3>1. now < runAt[u]
      BY <2>2, <2>5, UnixOrder DEF Score
    <3>2. nextScan' < runAt'[u] + Interval * (0 + 1) /\ 0 * Batch = 0
      BY <1>1, <2>2, <3>1
    <3>3. PassedOver(u, 0)'
      BY <2>3, <3>2 DEF PassedOver
    <3> QED BY <3>3
  <2> QED BY <2>4, <2>5
<1> QED BY <1>4, <1>5, <1>6 DEF DelayInv

LEMMA PassStep ==
  ASSUME DelayInv, Pass
  PROVE  DelayInv'
<1>1. DelayType' /\ ScanAhead'
  BY Sizes DEF DelayInv, Pass, DelayType, ScanAhead
<1>2. LessThanASecondEarly'
  BY DEF DelayInv, Pass, LessThanASecondEarly
<1>3. ASSUME NEW u \in Task, state'[u] = "scheduled"
      PROVE  \E m \in Nat : PassedOver(u, m)'
  <2>1. PICK m \in Nat : PassedOver(u, m)
    BY <1>3 DEF DelayInv, Pass
  <2>2. PassedOver(u, m)'
    BY <2>1 DEF PassedOver, Gone, Score, Pass
  <2> QED BY <2>2
<1> QED BY <1>1, <1>2, <1>3 DEF DelayInv

LEMMA DelayStep == DelayInv /\ [DelayNext]_delayVars => DelayInv'
<1> SUFFICES ASSUME DelayInv, [DelayNext]_delayVars PROVE DelayInv'
  OBVIOUS
<1>1. CASE DelayNext
  BY <1>1, SubmitStep, ScheduleDueStep, PassStep DEF DelayNext
<1>2. CASE UNCHANGED delayVars
  <2>1. DelayType' /\ ScanAhead' /\ LessThanASecondEarly'
    BY <1>2 DEF DelayInv, delayVars, DelayType, ScanAhead, LessThanASecondEarly
  <2>2. ASSUME NEW u \in Task, state'[u] = "scheduled"
        PROVE  \E m \in Nat : PassedOver(u, m)'
    <3>1. PICK m \in Nat : PassedOver(u, m)
      BY <1>2, <2>2 DEF DelayInv, delayVars
    <3>2. PassedOver(u, m)'
      BY <1>2, <3>1 DEF PassedOver, Gone, Score, delayVars
    <3> QED BY <3>2
  <2> QED BY <2>1, <2>2 DEF DelayInv
<1> QED BY <1>1, <1>2

LEMMA DelaySafe == DelaySpec => []DelayInv
BY DelayStart, DelayStep, PTL DEF DelaySpec

(* Who was passed over m times has m full batches ahead of it, and itself. *)
LEMMA BatchesAhead ==
  ASSUME NEW m \in Nat, NEW n \in Nat, m * Batch < n
  PROVE  Batches(n) \in Nat /\ m + 1 <= Batches(n)
<1> USE Sizes
<1>1. (m + 1) * Batch <= n + Batch - 1 /\ (m + 1) * Batch \in Nat /\ n + Batch - 1 \in Nat
  OBVIOUS
<1>2. ((m + 1) * Batch) \div Batch = m + 1
  OBVIOUS
<1>3. ((m + 1) * Batch) \div Batch <= (n + Batch - 1) \div Batch
  BY <1>1, DivBound
<1>4. (n + Batch - 1) \div Batch \in Nat
  BY <1>1, DivBound
<1> QED BY <1>2, <1>3, <1>4 DEF Batches

(***************************************************************************)
(* For every unit of the clock, interval and number of tasks: a delayed    *)
(* task starts less than a second before run_at (ScheduleTask and          *)
(* DueTaskIDs cut score and present to whole seconds).                     *)
(***************************************************************************)
THEOREM NotEarlySafe == DelaySpec => []LessThanASecondEarly
<1>1. DelayInv => LessThanASecondEarly
  BY DEF DelayInv
<1> QED BY <1>1, DelaySafe, PTL

(***************************************************************************)
(* And it is dispatched within as many intervals as the tasks with no      *)
(* later score fill batches, whatever is submitted meanwhile (the order    *)
(* and the Count of the range in DueTaskIDs).                              *)
(***************************************************************************)
THEOREM DispatchedInTimeSafe == DelaySpec => []DispatchedInTime
<1>1. DelayInv => DispatchedInTime
  <2> SUFFICES ASSUME DelayInv, NEW t \in Task, state[t] = "scheduled"
               PROVE  now <= runAt[t] + Interval * Batches(Cardinality(AheadOf(t)))
    BY DEF DispatchedInTime
  <2> USE Sizes
  <2>1. DelayType /\ ScanAhead
    BY DEF DelayInv
  <2>2. PICK m \in Nat : PassedOver(t, m)
    BY DEF DelayInv
  <2>3. AheadOf(t) \in SUBSET Task /\ t \notin Gone(t) /\ Gone(t) \cup {t} \subseteq AheadOf(t)
    <3>1. Score(t) \in Nat
      BY <2>1, UnixOrder DEF Score, DelayType
    <3> QED BY <3>1 DEF AheadOf, Gone
  <2>4. IsFiniteSet(AheadOf(t)) /\ Cardinality(AheadOf(t)) \in Nat
    BY <2>3, FS_Subset, FS_CardinalityType
  <2>5. IsFiniteSet(Gone(t)) /\ Cardinality(Gone(t)) \in Nat
    BY GoneFinite
  <2>6. /\ IsFiniteSet(Gone(t) \cup {t})
        /\ Cardinality(Gone(t) \cup {t}) = Cardinality(Gone(t)) + 1
    BY <2>3, <2>5, FS_AddElement
  <2>7. Cardinality(Gone(t)) + 1 <= Cardinality(AheadOf(t))
    BY <2>3, <2>4, <2>6, FS_Subset
  <2>8. m * Batch \in Nat /\ m * Batch < Cardinality(AheadOf(t))
    BY <2>2, <2>4, <2>5, <2>7 DEF PassedOver
  <2>9. PICK b \in Nat : b = Batches(Cardinality(AheadOf(t))) /\ m + 1 <= b
    BY <2>4, <2>8, BatchesAhead
  <2>10. Interval * (m + 1) <= Interval * b
    BY <2>9
  <2>11. now <= runAt[t] + Interval * b
    BY <2>1, <2>2, <2>9, <2>10 DEF PassedOver, ScanAhead, DelayType
  <2> QED BY <2>9, <2>11
<1> QED BY <1>1, DelaySafe, PTL

=============================================================================
