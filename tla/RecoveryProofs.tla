--------------------------- MODULE RecoveryProofs ---------------------------
(***************************************************************************)
(* The recovery of pending messages, for any number of workers, slots,     *)
(* messages and ticks: a message passes from hand to hand only after it    *)
(* has been silent.                                                        *)
(*                                                                         *)
(* TakenOverWhenIdle is not inductive.  A worker claims from what it       *)
(* listed earlier, so nothing it remembers keeps it from a message that    *)
(* another one has just been given.  What does is the idle time of the     *)
(* message in Redis: no hand has had it for less (HeldAtLeast), because    *)
(* whoever is given it sets that time to zero, and both then grow alike.   *)
(***************************************************************************)
EXTENDS PendingRecovery, TLAPS

HandsType ==
  /\ last \in 0..Entries /\ pel \subseteq 1..last
  /\ idle \in [Entry -> 0..MinIdle]
  /\ loop \in [WorkerID -> [at : {"top", "claim", "start", "read", "startRead"},
                            ids : SUBSET (1..last), held : 0..MinIdle]]
  /\ slot \in [WorkerID -> [Slot -> [msg : 0..last, held : 0..MinIdle]]]
  /\ \A w \in WorkerID : loop[w].at \in {"top", "read"} => loop[w].ids = {}

(* Nobody has had a message for less than its idle time. *)
HeldAtLeast ==
  /\ \A e \in Entry : e \notin pel => idle[e] = 0
  /\ \A e \in Entry, h \in Hands : Holds(h, e) => idle[e] <= HeldFor(h)

RecoveryInv == HandsType /\ HeldAtLeast /\ TakenOverWhenIdle

LEMMA Sizes ==
  /\ MinIdle \in Nat /\ MinIdle # 0 /\ Entries \in Nat /\ BatchSize \in Nat
  /\ Concurrency \in Nat
BY RecoveryAssumption

LEMMA HandType ==
  ASSUME HandsType, NEW h \in Hands
  PROVE  /\ h[1] \in WorkerID /\ (h[2] = 0 \/ h[2] \in Slot)
         /\ HeldFor(h) \in 0..MinIdle
         /\ \A e \in Entry : Holds(h, e) => e <= last
<1>1. h[1] \in WorkerID /\ (h[2] = 0 \/ h[2] \in Slot)
  BY Sizes DEF Hands, Slot
<1>2. loop[h[1]].held \in 0..MinIdle /\ loop[h[1]].ids \subseteq 1..last
  BY <1>1 DEF HandsType
<1>3. h[2] \in Slot => slot[h[1]][h[2]].held \in 0..MinIdle /\ slot[h[1]][h[2]].msg \in 0..last
  BY <1>1 DEF HandsType
<1>4. last \in Nat
  BY Sizes DEF HandsType
<1> QED BY <1>1, <1>2, <1>3, <1>4 DEF HeldFor, Holds, Slot

(* A step that gives nobody anything. *)
LEMMA NothingGiven ==
  ASSUME RecoveryInv, HandsType',
         \A e \in Entry : idle'[e] \in {0, idle[e]} /\ (e \notin pel' => idle'[e] = 0),
         \A e \in Entry, h \in Hands :
           Holds(h, e)' => Holds(h, e) /\ HeldFor(h)' = HeldFor(h)
  PROVE  RecoveryInv'
<1>1. HeldAtLeast'
  <2> SUFFICES ASSUME NEW e \in Entry, NEW h \in Hands, Holds(h, e)'
               PROVE  idle'[e] <= HeldFor(h)'
    BY DEF HeldAtLeast, Hands
  <2>1. idle[e] <= HeldFor(h) /\ HeldFor(h) \in 0..MinIdle /\ idle[e] \in 0..MinIdle
    BY HandType DEF RecoveryInv, HeldAtLeast, HandsType
  <2> QED BY <2>1, Sizes
<1>2. TakenOverWhenIdle'
  BY DEF RecoveryInv, TakenOverWhenIdle, Hands
<1> QED BY <1>1, <1>2 DEF RecoveryInv

LEMMA RecoveryInit == Init => RecoveryInv
<1> SUFFICES ASSUME Init PROVE RecoveryInv
  OBVIOUS
<1>1. HandsType
  BY Sizes DEF Init, HandsType, Top, Free, Entry
<1>2. \A e \in Entry, h \in Hands : ~Holds(h, e)
  <2> SUFFICES ASSUME NEW e \in Entry, NEW h \in Hands PROVE ~Holds(h, e)
    OBVIOUS
  <2>1. h[1] \in WorkerID /\ (h[2] = 0 \/ h[2] \in Slot) /\ e # 0
    BY <1>1, HandType, Sizes DEF Entry
  <2> QED BY <2>1 DEF Init, Holds, Top, Free, Slot
<1>3. HeldAtLeast /\ TakenOverWhenIdle
  BY <1>2 DEF Init, HeldAtLeast, TakenOverWhenIdle
<1> QED BY <1>1, <1>3 DEF RecoveryInv

-----------------------------------------------------------------------------
(* What the steps do to the hands. *)

(* One loop changes. *)
LEMMA LoopChanges ==
  ASSUME HandsType, NEW w \in WorkerID, NEW r, loop' = [loop EXCEPT ![w] = r],
         slot' = slot, NEW h \in Hands
  PROVE  /\ h # <<w, 0>> => HeldFor(h)' = HeldFor(h) /\ \A e \in Entry : Holds(h, e)' <=> Holds(h, e)
         /\ h = <<w, 0>> => /\ HeldFor(h)' = r.held
                            /\ \A e \in Entry : Holds(h, e)' <=> r.at # "claim" /\ e \in r.ids
<1>1. h[1] \in WorkerID /\ h = <<h[1], h[2]>>
  BY DEF Hands
<1>2. loop'[w] = r /\ \A v \in WorkerID : v # w => loop'[v] = loop[v]
  BY DEF HandsType
<1>3. CASE h = <<w, 0>>
  BY <1>2, <1>3 DEF HeldFor, Holds
<1>4. CASE h # <<w, 0>>
  <2>1. h[1] # w \/ h[2] # 0
    BY <1>1, <1>4
  <2> QED BY <1>1, <1>2, <2>1 DEF HeldFor, Holds
<1> QED BY <1>3, <1>4

(* One slot changes. *)
LEMMA SlotChanges ==
  ASSUME HandsType, NEW w \in WorkerID, NEW s \in Slot, NEW r,
         slot' = [slot EXCEPT ![w][s] = r], NEW h \in Hands
  PROVE  /\ h[2] # 0 /\ h # <<w, s>> =>
              HeldFor(h)' = HeldFor(h) /\ \A e \in Entry : Holds(h, e)' <=> Holds(h, e)
         /\ h = <<w, s>> => /\ HeldFor(h)' = r.held
                            /\ \A e \in Entry : Holds(h, e)' <=> r.msg = e
<1>1. /\ h[1] \in WorkerID /\ h = <<h[1], h[2]>> /\ s # 0
      /\ h[2] # 0 => h[2] \in Slot
  BY Sizes DEF Hands, Slot
<1>2. /\ slot'[w][s] = r
      /\ \A v \in WorkerID, t \in Slot : v # w \/ t # s => slot'[v][t] = slot[v][t]
  BY DEF HandsType
<1>3. CASE h = <<w, s>>
  BY <1>1, <1>2, <1>3 DEF HeldFor, Holds
<1>4. CASE h[2] # 0 /\ h # <<w, s>>
  <2>1. h[1] # w \/ h[2] # s
    BY <1>1, <1>4
  <2>2. slot'[h[1]][h[2]] = slot[h[1]][h[2]]
    BY <1>1, <1>2, <1>4, <2>1
  <2> QED BY <1>4, <2>2 DEF HeldFor, Holds
<1> QED BY <1>3, <1>4

(* What Go makes of the loop. *)
LEMMA GoRecord ==
  ASSUME HandsType, NEW w \in WorkerID, NEW at \in {"claim", "start", "startRead"},
         NEW S, Go(w, at, S)
  PROVE  \E r : /\ loop' = [loop EXCEPT ![w] = r]
                /\ r.ids = S /\ r.held = 0
                /\ r = [at |-> r.at, ids |-> S, held |-> 0]
                /\ IF S = {} THEN r.at = After(at) ELSE r.at = at
<1>1. CASE S = {}
  <2> DEFINE r == [Top EXCEPT !.at = After(at)]
  <2>1. r = [at |-> After(at), ids |-> {}, held |-> 0]
    BY DEF Top
  <2> QED BY <1>1, <2>1 DEF Go
<1>2. CASE S # {}
  <2> DEFINE r == [at |-> at, ids |-> S, held |-> 0]
  <2>1. loop' = [loop EXCEPT ![w] = r]
    BY <1>2 DEF Go
  <2>2. r.ids = S /\ r.held = 0 /\ r.at = at
    OBVIOUS
  <2> QED BY <1>2, <2>1, <2>2
<1> QED BY <1>1, <1>2

(* The loop of one worker changes to a well-formed record. *)
LEMMA LoopType ==
  ASSUME HandsType, NEW w \in WorkerID, NEW r, loop' = [loop EXCEPT ![w] = r],
         last' \in 0..Entries, last <= last', pel' \subseteq 1..last',
         idle' \in [Entry -> 0..MinIdle],
         r \in [at : {"top", "claim", "start", "read", "startRead"},
                ids : SUBSET (1..last'), held : 0..MinIdle],
         r.at \in {"top", "read"} => r.ids = {},
         slot' = slot \/ slot' \in [WorkerID -> [Slot -> [msg : 0..last', held : 0..MinIdle]]]
  PROVE  HandsType'
<1>1. 1..last \subseteq 1..last' /\ 0..last \subseteq 0..last'
  BY Sizes DEF HandsType
<1>2. /\ loop'[w] = r /\ \A v \in WorkerID : v # w => loop'[v] = loop[v]
      /\ loop' \in [WorkerID -> [at : {"top", "claim", "start", "read", "startRead"},
                                 ids : SUBSET (1..last'), held : 0..MinIdle]]
  BY <1>1 DEF HandsType
<1>3. slot' \in [WorkerID -> [Slot -> [msg : 0..last', held : 0..MinIdle]]]
  BY <1>1 DEF HandsType
<1>4. \A v \in WorkerID : loop'[v].at \in {"top", "read"} => loop'[v].ids = {}
  BY <1>2 DEF HandsType
<1> QED BY <1>2, <1>3, <1>4 DEF HandsType

LEMMA ResetType ==
  ASSUME HandsType, NEW S, Reset(S) \/ UNCHANGED idle
  PROVE  /\ idle' \in [Entry -> 0..MinIdle]
         /\ \A e \in Entry : idle'[e] \in {0, idle[e]}
         /\ Reset(S) => \A e \in Entry : idle'[e] = IF e \in S THEN 0 ELSE idle[e]
BY Sizes DEF HandsType, Reset

-----------------------------------------------------------------------------
(* The steps. *)

LEMMA InspectStep ==
  ASSUME RecoveryInv, NEW w \in WorkerID, Inspect(w)
  PROVE  RecoveryInv'
<1>1. HandsType /\ UNCHANGED <<last, pel, idle, slot>>
  BY DEF RecoveryInv, Inspect
<1>2. PICK S \in SUBSET Idle : Go(w, "claim", S)
  BY DEF Inspect
<1>3. PICK r : /\ loop' = [loop EXCEPT ![w] = r]
               /\ r = [at |-> r.at, ids |-> S, held |-> 0]
               /\ IF S = {} THEN r.at = After("claim") ELSE r.at = "claim"
  BY <1>1, <1>2, GoRecord
<1>4. r.ids = S /\ r.held = 0 /\ (r.at = "claim" \/ (S = {} /\ r.at = "read"))
  BY <1>3 DEF After
<1>5. HandsType'
  <2>1. S \subseteq 1..last /\ last <= last
    BY <1>1, Sizes DEF Idle, HandsType
  <2>2. r \in [at : {"top", "claim", "start", "read", "startRead"},
               ids : SUBSET (1..last'), held : 0..MinIdle]
    BY <1>1, <1>3, <1>4, <2>1, Sizes
  <2> QED BY <1>1, <1>3, <1>4, <2>1, <2>2, LoopType DEF HandsType
<1>6. \A e \in Entry, h \in Hands : Holds(h, e)' => Holds(h, e) /\ HeldFor(h)' = HeldFor(h)
  BY <1>1, <1>3, <1>4, LoopChanges
<1> QED BY <1>1, <1>5, <1>6, NothingGiven DEF RecoveryInv, HeldAtLeast

(* The loop starts over: a call has failed, perhaps after new messages     *)
(* were delivered or listed ones claimed.                                  *)
LEMMA StartOver ==
  ASSUME RecoveryInv, NEW w \in WorkerID, loop' = [loop EXCEPT ![w] = Top],
         slot' = slot, last' \in 0..Entries, last <= last', pel' \subseteq 1..last',
         pel \subseteq pel', idle' \in [Entry -> 0..MinIdle],
         \A e \in Entry : idle'[e] \in {0, idle[e]}
  PROVE  RecoveryInv'
<1>1. HandsType
  BY DEF RecoveryInv
<1>2. Top.at = "top" /\ Top.ids = {} /\ Top.held = 0
      /\ Top \in [at : {"top", "claim", "start", "read", "startRead"},
                  ids : SUBSET (1..last'), held : 0..MinIdle]
  BY Sizes DEF Top
<1>3. HandsType'
  BY <1>1, <1>2, LoopType
<1>4. \A e \in Entry, h \in Hands : Holds(h, e)' => Holds(h, e) /\ HeldFor(h)' = HeldFor(h)
  BY <1>1, <1>2, LoopChanges
<1>5. \A e \in Entry : e \notin pel' => idle'[e] = 0
  BY DEF RecoveryInv, HeldAtLeast
<1> QED BY <1>3, <1>4, <1>5, NothingGiven

(* The messages claimed were idle: who else holds one has had it as long.  *)
LEMMA ClaimStep ==
  ASSUME RecoveryInv, NEW w \in WorkerID, Claim(w)
  PROVE  RecoveryInv'
<1> DEFINE S == loop[w].ids \cap Idle
<1>1. /\ HandsType /\ UNCHANGED <<last, pel, slot>>
      /\ Go(w, "start", S) /\ Reset(S) /\ S \subseteq Idle
  BY DEF RecoveryInv, Claim
<1> HIDE DEF S
<1>2. PICK r : /\ loop' = [loop EXCEPT ![w] = r]
               /\ r = [at |-> r.at, ids |-> S, held |-> 0]
               /\ IF S = {} THEN r.at = After("start") ELSE r.at = "start"
  BY <1>1, GoRecord
<1>3. r.ids = S /\ r.held = 0 /\ (r.at = "start" \/ (S = {} /\ r.at = "read"))
  BY <1>2 DEF After
<1>4. /\ idle' \in [Entry -> 0..MinIdle]
      /\ \A e \in Entry : idle'[e] = IF e \in S THEN 0 ELSE idle[e]
  BY <1>1, ResetType
<1>5. HandsType'
  <2>1. S \subseteq 1..last /\ last <= last
    BY <1>1, Sizes DEF Idle, HandsType
  <2>2. r \in [at : {"top", "claim", "start", "read", "startRead"},
               ids : SUBSET (1..last'), held : 0..MinIdle]
    BY <1>1, <1>2, <1>3, <2>1, Sizes
  <2> QED BY <1>1, <1>2, <1>3, <1>4, <2>1, <2>2, LoopType DEF HandsType
<1>6. \A h \in Hands :
        /\ h # <<w, 0>> => /\ HeldFor(h)' = HeldFor(h)
                           /\ \A e \in Entry : Holds(h, e)' <=> Holds(h, e)
        /\ h = <<w, 0>> => HeldFor(h)' = 0 /\ \A e \in Entry : Holds(h, e)' => e \in S
  BY <1>1, <1>2, <1>3, LoopChanges
<1>7. \A e \in Entry, h \in Hands : e \in S /\ Holds(h, e) => HeldFor(h) = MinIdle
  <2> SUFFICES ASSUME NEW e \in Entry, NEW h \in Hands, e \in S, Holds(h, e)
               PROVE  HeldFor(h) = MinIdle
    OBVIOUS
  <2>1. idle[e] = MinIdle /\ idle[e] <= HeldFor(h) /\ HeldFor(h) \in 0..MinIdle
    BY <1>1, HandType DEF Idle, RecoveryInv, HeldAtLeast
  <2> QED BY <2>1, Sizes
<1>8. HeldAtLeast'
  <2>1. \A e \in Entry : e \notin pel' => idle'[e] = 0
    BY <1>1, <1>4 DEF RecoveryInv, HeldAtLeast
  <2>2. ASSUME NEW e \in Entry, NEW h \in Hands, Holds(h, e)'
        PROVE  idle'[e] <= HeldFor(h)'
    <3>1. HeldFor(h) \in 0..MinIdle
      BY <1>1, HandType
    <3>2. CASE e \in S
      BY <1>4, <1>6, <3>1, <3>2, Sizes
    <3>3. CASE e \notin S
      BY <1>4, <1>6, <2>2, <3>3 DEF RecoveryInv, HeldAtLeast
    <3> QED BY <3>2, <3>3
  <2> QED BY <2>1, <2>2 DEF HeldAtLeast, Hands
<1>9. TakenOverWhenIdle'
  <2> SUFFICES ASSUME NEW e \in Entry, NEW g \in Hands, NEW h \in Hands, g # h,
                      Holds(g, e)', Holds(h, e)'
               PROVE  HeldFor(g)' = MinIdle \/ HeldFor(h)' = MinIdle
    BY DEF TakenOverWhenIdle, Hands
  <2>1. CASE g # <<w, 0>> /\ h # <<w, 0>>
    BY <1>6, <2>1 DEF RecoveryInv, TakenOverWhenIdle
  <2>2. CASE g = <<w, 0>> \/ h = <<w, 0>>
    BY <1>6, <1>7, <2>2
  <2> QED BY <2>1, <2>2
<1> QED BY <1>5, <1>8, <1>9 DEF RecoveryInv

(* New messages are in nobody's hands. *)
LEMMA DeliverEffect ==
  ASSUME RecoveryInv, NEW n \in 0..BatchSize, Deliver(n)
  PROVE  /\ last \in Nat /\ last' = last + n /\ last' \in 0..Entries /\ last <= last'
         /\ pel' \subseteq 1..last' /\ pel \subseteq pel'
         /\ (last + 1)..(last + n) \subseteq 1..last'
         /\ \A e \in (last + 1)..(last + n) :
              /\ e \in Entry => idle[e] = 0
              /\ \A h \in Hands : e \in Entry => ~Holds(h, e)
<1>1. HandsType /\ last \in Nat /\ n \in Nat /\ last + n <= Entries /\ last' = last + n
  BY Sizes DEF RecoveryInv, HandsType, Deliver
<1>2. pel \subseteq 1..last /\ pel' = pel \cup (last + 1)..(last + n)
  BY DEF RecoveryInv, HandsType, Deliver
<1>3. /\ last' \in 0..Entries /\ last <= last' /\ 1..last \subseteq 1..last'
      /\ (last + 1)..(last + n) \subseteq 1..last'
  BY <1>1, Sizes
<1>4. ASSUME NEW e \in (last + 1)..(last + n), e \in Entry
      PROVE  idle[e] = 0 /\ \A h \in Hands : ~Holds(h, e)
  <2>1. ~(e <= last) /\ e \notin 1..last
    BY <1>1, <1>4
  <2> QED BY <1>1, <1>2, <1>4, <2>1, HandType DEF RecoveryInv, HeldAtLeast
<1> QED BY <1>1, <1>2, <1>3, <1>4

LEMMA ReadStep ==
  ASSUME RecoveryInv, NEW w \in WorkerID, Read(w)
  PROVE  RecoveryInv'
<1>1. HandsType /\ UNCHANGED <<idle, slot>>
  BY DEF RecoveryInv, Read
<1>2. PICK n \in 0..BatchSize : Deliver(n) /\ Go(w, "startRead", (last + 1)..(last + n))
  BY DEF Read
<1> DEFINE S == (last + 1)..(last + n)
<1>3. /\ last' \in 0..Entries /\ last <= last' /\ pel' \subseteq 1..last' /\ pel \subseteq pel'
      /\ S \subseteq 1..last'
      /\ \A e \in S : e \in Entry => idle[e] = 0 /\ \A h \in Hands : ~Holds(h, e)
  BY <1>2, DeliverEffect
<1>4. Go(w, "startRead", S)
  BY <1>2
<1> HIDE DEF S
<1>5. PICK r : /\ loop' = [loop EXCEPT ![w] = r]
               /\ r = [at |-> r.at, ids |-> S, held |-> 0]
               /\ IF S = {} THEN r.at = After("startRead") ELSE r.at = "startRead"
  BY <1>1, <1>4, GoRecord
<1>6. r.ids = S /\ r.held = 0 /\ (r.at = "startRead" \/ (S = {} /\ r.at = "top"))
  BY <1>5 DEF After
<1>7. HandsType'
  <2>1. r \in [at : {"top", "claim", "start", "read", "startRead"},
               ids : SUBSET (1..last'), held : 0..MinIdle]
    BY <1>3, <1>5, <1>6, Sizes
  <2>2. idle' \in [Entry -> 0..MinIdle]
    BY <1>1 DEF HandsType
  <2> QED BY <1>1, <1>3, <1>5, <1>6, <2>1, <2>2, LoopType
<1>8. \A h \in Hands :
        /\ h # <<w, 0>> => /\ HeldFor(h)' = HeldFor(h)
                           /\ \A e \in Entry : Holds(h, e)' <=> Holds(h, e)
        /\ h = <<w, 0>> => HeldFor(h)' = 0 /\ \A e \in Entry : Holds(h, e)' => e \in S
  BY <1>1, <1>5, <1>6, LoopChanges
<1>9. HeldAtLeast'
  <2>1. \A e \in Entry : e \notin pel' => idle'[e] = 0
    BY <1>1, <1>3 DEF RecoveryInv, HeldAtLeast
  <2>2. ASSUME NEW e \in Entry, NEW h \in Hands, Holds(h, e)'
        PROVE  idle'[e] <= HeldFor(h)'
    <3>1. CASE h = <<w, 0>>
      <4>1. e \in S /\ HeldFor(h)' = 0
        BY <1>8, <2>2, <3>1
      <4>2. idle'[e] = 0
        BY <1>1, <1>3, <4>1
      <4> QED BY <4>1, <4>2
    <3>2. CASE h # <<w, 0>>
      BY <1>1, <1>8, <2>2, <3>2 DEF RecoveryInv, HeldAtLeast
    <3> QED BY <3>1, <3>2
  <2> QED BY <2>1, <2>2 DEF HeldAtLeast, Hands
<1>10. TakenOverWhenIdle'
  <2> SUFFICES ASSUME NEW e \in Entry, NEW g \in Hands, NEW h \in Hands, g # h,
                      Holds(g, e)', Holds(h, e)'
               PROVE  HeldFor(g)' = MinIdle \/ HeldFor(h)' = MinIdle
    BY DEF TakenOverWhenIdle, Hands
  <2>1. CASE g # <<w, 0>> /\ h # <<w, 0>>
    BY <1>8, <2>1 DEF RecoveryInv, TakenOverWhenIdle
  <2>2. CASE g = <<w, 0>> \/ h = <<w, 0>>
    BY <1>3, <1>8, <2>2
  <2> QED BY <2>1, <2>2
<1> QED BY <1>7, <1>9, <1>10 DEF RecoveryInv

(* A message passes from the loop to a slot of the same worker, and takes  *)
(* along how long the worker has had it.                                   *)
LEMMA StartStep ==
  ASSUME RecoveryInv, NEW w \in WorkerID, Start(w)
  PROVE  RecoveryInv'
<1>1. HandsType /\ UNCHANGED <<last, pel, idle>> /\ loop[w].at \in {"start", "startRead"}
  BY DEF RecoveryInv, Start
<1>2. PICK m \in loop[w].ids, s \in Slot :
        /\ slot[w][s] = Free
        /\ slot' = [slot EXCEPT ![w][s] = [msg |-> m, held |-> loop[w].held]]
        /\ loop' = [loop EXCEPT ![w] = IF loop[w].ids = {m}
                                       THEN [Top EXCEPT !.at = After(loop[w].at)]
                                       ELSE [loop[w] EXCEPT !.ids = loop[w].ids \ {m}]]
  BY DEF Start
<1>3. /\ loop[w].ids \subseteq 1..last /\ loop[w].held \in 0..MinIdle
      /\ m \in 1..last /\ s # 0 /\ loop[w].at # "claim"
  BY <1>1, <1>2, Sizes DEF HandsType, Slot
<1>4. PICK r : /\ loop' = [loop EXCEPT ![w] = r]
               /\ r \in [at : {"top", "claim", "start", "read", "startRead"},
                         ids : SUBSET (1..last'), held : 0..MinIdle]
               /\ r.ids = loop[w].ids \ {m}
               /\ r.ids # {} => r.held = loop[w].held
               /\ r.at \in {"top", "read"} => r.ids = {}
  <2>1. CASE loop[w].ids = {m}
    <3> DEFINE r == [Top EXCEPT !.at = After(loop[w].at)]
    <3>1. r = [at |-> After(loop[w].at), ids |-> {}, held |-> 0]
      BY DEF Top
    <3>2. loop' = [loop EXCEPT ![w] = r]
      BY <1>2, <2>1
    <3>3. After(loop[w].at) \in {"top", "read"} /\ 0 \in 0..MinIdle
      BY Sizes DEF After
    <3>4. /\ r \in [at : {"top", "claim", "start", "read", "startRead"},
                    ids : SUBSET (1..last'), held : 0..MinIdle]
          /\ r.ids = {}
      BY <3>1, <3>3
    <3>5. r.ids = loop[w].ids \ {m}
      BY <2>1, <3>4
    <3> HIDE DEF r
    <3> QED BY <3>2, <3>4, <3>5
  <2>2. CASE loop[w].ids # {m}
    <3> DEFINE r == [loop[w] EXCEPT !.ids = loop[w].ids \ {m}]
    <3>1. loop' = [loop EXCEPT ![w] = r]
      BY <1>1, <1>2, <2>2 DEF HandsType
    <3>2. /\ r \in [at : {"top", "claim", "start", "read", "startRead"},
                    ids : SUBSET (1..last'), held : 0..MinIdle]
          /\ r.ids = loop[w].ids \ {m} /\ r.held = loop[w].held /\ r.at = loop[w].at
      BY <1>1, <1>3 DEF HandsType
    <3> HIDE DEF r
    <3> QED BY <1>1, <3>1, <3>2
  <2> QED BY <2>1, <2>2
<1>5. slot' \in [WorkerID -> [Slot -> [msg : 0..last', held : 0..MinIdle]]]
  <2>1. [msg |-> m, held |-> loop[w].held] \in [msg : 0..last', held : 0..MinIdle]
    BY <1>1, <1>3, Sizes DEF HandsType
  <2> QED BY <1>1, <1>2, <2>1 DEF HandsType
<1>6. HandsType'
  <2>1. last \in Nat /\ last <= last'
    BY <1>1, Sizes DEF HandsType
  <2>2. last' \in 0..Entries /\ pel' \subseteq 1..last' /\ idle' \in [Entry -> 0..MinIdle]
    BY <1>1 DEF HandsType
  <2> QED BY <1>1, <1>4, <1>5, <2>1, <2>2, LoopType
(* Every hand holds what a hand held before, for the same time. *)
<1>7. ASSUME NEW h \in Hands, NEW e \in Entry, Holds(h, e)'
      PROVE  \/ h = <<w, s>> /\ e = m /\ HeldFor(h)' = loop[w].held
             \/ /\ h # <<w, s>> /\ Holds(h, e) /\ HeldFor(h)' = HeldFor(h)
                /\ h = <<w, 0>> => e # m
  <2> DEFINE q == [msg |-> m, held |-> loop[w].held]
  <2>0. h[1] \in WorkerID /\ h = <<h[1], h[2]>>
    BY DEF Hands
  <2>5. q.msg = m /\ q.held = loop[w].held /\ slot' = [slot EXCEPT ![w][s] = q]
    BY <1>2
  <2> HIDE DEF q
  <2>6. /\ h[2] # 0 /\ h # <<w, s>> =>
             HeldFor(h)' = HeldFor(h) /\ \A f \in Entry : Holds(h, f)' <=> Holds(h, f)
        /\ h = <<w, s>> => /\ HeldFor(h)' = q.held
                           /\ \A f \in Entry : Holds(h, f)' <=> q.msg = f
    BY <1>1, <2>5, SlotChanges
  <2>1. CASE h = <<w, s>>
    BY <1>7, <2>1, <2>5, <2>6
  <2>2. CASE h = <<w, 0>>
    <3>1. loop'[w] = r
      BY <1>1, <1>4 DEF HandsType
    <3>2. e \in r.ids
      BY <1>7, <2>2, <3>1 DEF Holds
    <3> QED BY <1>3, <1>4, <2>2, <3>1, <3>2 DEF Holds, HeldFor
  <2>3. CASE h # <<w, s>> /\ h[2] # 0
    BY <1>7, <2>0, <2>3, <2>6
  <2>4. CASE h # <<w, 0>> /\ h[2] = 0
    <3>1. h[1] # w
      BY <2>0, <2>4
    <3>2. loop'[h[1]] = loop[h[1]]
      BY <1>1, <1>4, <2>0, <3>1 DEF HandsType
    <3> QED BY <1>3, <1>7, <2>4, <3>2 DEF Holds, HeldFor
  <2> QED BY <2>1, <2>2, <2>3, <2>4
<1>8. <<w, 0>> \in Hands /\ Holds(<<w, 0>>, m) /\ HeldFor(<<w, 0>>) = loop[w].held /\ m \in Entry
  BY <1>1, <1>2, <1>3, Sizes DEF Hands, Holds, HeldFor, HandsType, Entry
<1>9. HeldAtLeast'
  <2>1. \A e \in Entry : e \notin pel' => idle'[e] = 0
    BY <1>1 DEF RecoveryInv, HeldAtLeast
  <2>2. ASSUME NEW e \in Entry, NEW h \in Hands, Holds(h, e)'
        PROVE  idle'[e] <= HeldFor(h)'
    BY <1>1, <1>7, <1>8, <2>2 DEF RecoveryInv, HeldAtLeast
  <2> QED BY <2>1, <2>2 DEF HeldAtLeast, Hands
<1>10. TakenOverWhenIdle'
  <2> SUFFICES ASSUME NEW e \in Entry, NEW g \in Hands, NEW h \in Hands, g # h,
                      Holds(g, e)', Holds(h, e)'
               PROVE  HeldFor(g)' = MinIdle \/ HeldFor(h)' = MinIdle
    BY DEF TakenOverWhenIdle, Hands
  <2>1. \A f \in Hands : f # <<w, 0>> /\ Holds(f, m) =>
          HeldFor(f) = MinIdle \/ loop[w].held = MinIdle
    BY <1>8 DEF RecoveryInv, TakenOverWhenIdle
  <2>2. CASE g # <<w, s>> /\ h # <<w, s>>
    BY <1>7, <2>2 DEF RecoveryInv, TakenOverWhenIdle
  <2>3. CASE g = <<w, s>> \/ h = <<w, s>>
    BY <1>7, <2>1, <2>3
  <2> QED BY <2>2, <2>3
<1> QED BY <1>6, <1>9, <1>10 DEF RecoveryInv

(* A handler is done, with or without the acknowledgement. *)
LEMMA SlotFreed ==
  ASSUME RecoveryInv, NEW w \in WorkerID, NEW s \in Slot,
         slot' = [slot EXCEPT ![w][s] = Free], UNCHANGED <<last, loop>>,
         (\E m : Ack(m)) \/ UNCHANGED <<pel, idle>>
  PROVE  RecoveryInv'
<1>1. HandsType
  BY DEF RecoveryInv
<1>2. PICK m : Ack(m) \/ UNCHANGED <<pel, idle>>
  OBVIOUS
<1>3. /\ idle' \in [Entry -> 0..MinIdle]
      /\ \A e \in Entry : idle'[e] \in {0, idle[e]} /\ (e \notin pel' => idle'[e] = 0)
      /\ pel' \subseteq pel
  <2>1. CASE Ack(m)
    BY <1>1, <2>1, ResetType DEF Ack, RecoveryInv, HeldAtLeast
  <2>2. CASE UNCHANGED <<pel, idle>>
    BY <1>1, <2>2 DEF RecoveryInv, HeldAtLeast, HandsType
  <2> QED BY <1>2, <2>1, <2>2
<1>4. HandsType'
  <2>1. Free \in [msg : 0..last, held : 0..MinIdle]
    BY <1>1, Sizes DEF Free, HandsType
  <2> QED BY <1>1, <1>3, <2>1 DEF HandsType
<1>5. \A e \in Entry, h \in Hands : Holds(h, e)' => Holds(h, e) /\ HeldFor(h)' = HeldFor(h)
  <2> SUFFICES ASSUME NEW e \in Entry, NEW h \in Hands, Holds(h, e)'
               PROVE  Holds(h, e) /\ HeldFor(h)' = HeldFor(h)
    OBVIOUS
  <2>1. e # 0 /\ Free.msg = 0
    BY Sizes DEF Entry, Free
  <2>2. CASE h = <<w, s>>
    BY <1>1, <2>1, <2>2, SlotChanges
  <2>3. CASE h # <<w, s>> /\ h[2] # 0
    BY <1>1, <2>3, SlotChanges
  <2>4. CASE h[2] = 0
    <3>1. s # 0
      BY Sizes DEF Slot
    <3> QED BY <2>4, <3>1 DEF Holds, HeldFor
  <2> QED BY <2>2, <2>3, <2>4
<1> QED BY <1>3, <1>4, <1>5, NothingGiven

LEMMA CrashStep ==
  ASSUME RecoveryInv, NEW w \in WorkerID, Crash(w)
  PROVE  RecoveryInv'
<1>1. /\ HandsType /\ UNCHANGED <<last, pel, idle>>
      /\ loop' = [loop EXCEPT ![w] = Top]
      /\ slot' = [slot EXCEPT ![w] = [s \in Slot |-> Free]]
  BY DEF RecoveryInv, Crash
<1>2. Top.at = "top" /\ Top.ids = {} /\ Top.held = 0 /\ Free.msg = 0
  BY DEF Top, Free
<1>3. HandsType'
  <2>1. /\ Top \in [at : {"top", "claim", "start", "read", "startRead"},
                    ids : SUBSET (1..last'), held : 0..MinIdle]
        /\ Free \in [msg : 0..last', held : 0..MinIdle]
        /\ last \in Nat
    BY <1>1, Sizes DEF Top, Free, HandsType
  <2>2. slot' \in [WorkerID -> [Slot -> [msg : 0..last', held : 0..MinIdle]]]
    BY <1>1, <2>1 DEF HandsType
  <2> QED BY <1>1, <1>2, <2>1, <2>2, LoopType DEF HandsType
<1>4. \A e \in Entry, h \in Hands : Holds(h, e)' => Holds(h, e) /\ HeldFor(h)' = HeldFor(h)
  <2> SUFFICES ASSUME NEW e \in Entry, NEW h \in Hands, Holds(h, e)'
               PROVE  Holds(h, e) /\ HeldFor(h)' = HeldFor(h)
    OBVIOUS
  <2>1. e # 0 /\ h[1] \in WorkerID /\ (h[2] = 0 \/ h[2] \in Slot)
    BY <1>1, HandType, Sizes DEF Entry
  <2>2. /\ loop'[w].ids = {} /\ \A s \in Slot : slot'[w][s].msg = 0
        /\ \A v \in WorkerID : v # w => loop'[v] = loop[v] /\ slot'[v] = slot[v]
    BY <1>1, <1>2 DEF HandsType
  <2>3. h[1] # w
    BY <2>1, <2>2 DEF Holds
  <2> QED BY <2>1, <2>2, <2>3 DEF Holds, HeldFor
<1> QED BY <1>1, <1>3, <1>4, NothingGiven DEF RecoveryInv, HeldAtLeast

(* Time passes for a message and for those who have it alike. *)
LEMMA TickStep ==
  ASSUME RecoveryInv, Tick
  PROVE  RecoveryInv'
<1>1. HandsType /\ UNCHANGED <<last, pel>>
  BY DEF RecoveryInv, Tick
<1>2. \A n \in 0..MinIdle : Older(n) \in 0..MinIdle /\ n <= Older(n)
  BY Sizes DEF Older
<1>3. \A n, k \in 0..MinIdle : n <= k => Older(n) <= Older(k)
  BY Sizes DEF Older
<1>4. Older(MinIdle) = MinIdle
  BY Sizes DEF Older
<1>5. /\ idle' \in [Entry -> 0..MinIdle]
      /\ \A e \in Entry : idle'[e] = IF e \in pel THEN Older(idle[e]) ELSE idle[e]
  BY <1>1, <1>2 DEF Tick, HandsType
<1>6. ASSUME NEW w \in WorkerID
      PROVE  /\ loop'[w] \in [at : {"top", "claim", "start", "read", "startRead"},
                              ids : SUBSET (1..last), held : 0..MinIdle]
             /\ loop'[w].at = loop[w].at /\ loop'[w].ids = loop[w].ids
             /\ loop[w].at \in {"start", "startRead"} => loop'[w].held = Older(loop[w].held)
  <2>1. loop[w] \in [at : {"top", "claim", "start", "read", "startRead"},
                     ids : SUBSET (1..last), held : 0..MinIdle]
    BY <1>1 DEF HandsType
  <2>2. Older(loop[w].held) \in 0..MinIdle
    BY <1>2, <2>1
  <2>3. loop'[w] = IF loop[w].at \in {"start", "startRead"}
                   THEN [loop[w] EXCEPT !.held = Older(loop[w].held)] ELSE loop[w]
    BY DEF Tick
  <2> QED BY <2>1, <2>2, <2>3
<1>7. ASSUME NEW w \in WorkerID, NEW s \in Slot
      PROVE  /\ slot'[w][s] \in [msg : 0..last, held : 0..MinIdle]
             /\ slot'[w][s].msg = slot[w][s].msg
             /\ slot[w][s].msg # 0 => slot'[w][s].held = Older(slot[w][s].held)
  <2>1. slot[w][s] \in [msg : 0..last, held : 0..MinIdle]
    BY <1>1 DEF HandsType
  <2>2. Older(slot[w][s].held) \in 0..MinIdle
    BY <1>2, <2>1
  <2>3. slot'[w][s] = IF slot[w][s] = Free THEN Free
                      ELSE [slot[w][s] EXCEPT !.held = Older(slot[w][s].held)]
    BY DEF Tick
  <2>4. Free.msg = 0
    BY DEF Free
  <2> QED BY <2>1, <2>2, <2>3, <2>4
<1>8. HandsType'
  <2>1. loop' \in [WorkerID -> [at : {"top", "claim", "start", "read", "startRead"},
                                ids : SUBSET (1..last), held : 0..MinIdle]]
    BY <1>6 DEF Tick
  <2>2. slot' \in [WorkerID -> [Slot -> [msg : 0..last, held : 0..MinIdle]]]
    <3>1. slot' = [w \in WorkerID |-> [s \in Slot |-> slot'[w][s]]]
      BY DEF Tick
    <3> QED BY <1>7, <3>1
  <2>3. \A w \in WorkerID : loop'[w].at \in {"top", "read"} => loop'[w].ids = {}
    BY <1>1, <1>6 DEF HandsType
  <2> QED BY <1>1, <1>5, <2>1, <2>2, <2>3 DEF HandsType
<1>9. ASSUME NEW e \in Entry, NEW h \in Hands, Holds(h, e)'
      PROVE  Holds(h, e) /\ HeldFor(h)' = Older(HeldFor(h)) /\ HeldFor(h) \in 0..MinIdle
  <2>1. h[1] \in WorkerID /\ (h[2] = 0 \/ h[2] \in Slot) /\ e # 0 /\ HeldFor(h) \in 0..MinIdle
    BY <1>1, HandType, Sizes DEF Entry
  <2>2. CASE h[2] = 0
    <3>1. loop[h[1]].at # "claim" /\ e \in loop[h[1]].ids
      BY <1>6, <1>9, <2>1, <2>2 DEF Holds
    <3>2. loop[h[1]].at \in {"start", "startRead"}
      BY <1>1, <2>1, <3>1 DEF HandsType
    <3> QED BY <1>6, <2>1, <2>2, <3>1, <3>2 DEF Holds, HeldFor
  <2>3. CASE h[2] # 0
    BY <1>7, <1>9, <2>1, <2>3 DEF Holds, HeldFor
  <2> QED BY <2>2, <2>3
<1>10. HeldAtLeast'
  <2>1. \A e \in Entry : e \notin pel' => idle'[e] = 0
    BY <1>1, <1>5 DEF RecoveryInv, HeldAtLeast
  <2>2. ASSUME NEW e \in Entry, NEW h \in Hands, Holds(h, e)'
        PROVE  idle'[e] <= HeldFor(h)'
    <3>1. /\ idle[e] <= HeldFor(h) /\ HeldFor(h) \in 0..MinIdle /\ idle[e] \in 0..MinIdle
          /\ HeldFor(h)' = Older(HeldFor(h))
      BY <1>1, <1>9, <2>2 DEF RecoveryInv, HeldAtLeast, HandsType
    <3>2. Older(idle[e]) <= Older(HeldFor(h)) /\ idle[e] <= Older(HeldFor(h))
      BY <3>1, Sizes DEF Older
    <3> QED BY <1>5, <3>1, <3>2
  <2> QED BY <2>1, <2>2 DEF HeldAtLeast, Hands
<1>11. TakenOverWhenIdle'
  <2> SUFFICES ASSUME NEW e \in Entry, NEW g \in Hands, NEW h \in Hands, g # h,
                      Holds(g, e)', Holds(h, e)'
               PROVE  HeldFor(g)' = MinIdle \/ HeldFor(h)' = MinIdle
    BY DEF TakenOverWhenIdle, Hands
  <2>1. HeldFor(g) = MinIdle \/ HeldFor(h) = MinIdle
    BY <1>9 DEF RecoveryInv, TakenOverWhenIdle
  <2> QED BY <1>4, <1>9, <2>1
<1> QED BY <1>8, <1>10, <1>11 DEF RecoveryInv

-----------------------------------------------------------------------------

LEMMA LoopStep ==
  ASSUME RecoveryInv, NEW w \in WorkerID, Loop(w)
  PROVE  RecoveryInv'
BY InspectStep, ClaimStep, StartStep, ReadStep DEF Loop

LEMMA FaultStep ==
  ASSUME RecoveryInv, NEW w \in WorkerID, Fault(w)
  PROVE  RecoveryInv'
<1>1. HandsType /\ last \in Nat
  BY Sizes DEF RecoveryInv, HandsType
<1>2. CASE InspectFails(w)
  <2>1. UNCHANGED <<last, pel, idle, loop, slot>>
    BY <1>2 DEF InspectFails
  <2> QED BY <2>1 DEF RecoveryInv, HandsType, HeldAtLeast, TakenOverWhenIdle, Holds, HeldFor
<1>3. CASE ClaimFails(w)
  <2>1. /\ loop' = [loop EXCEPT ![w] = Top] /\ UNCHANGED <<last, pel, slot>>
        /\ Reset(loop[w].ids \cap Idle) \/ UNCHANGED idle
    BY <1>3 DEF ClaimFails
  <2>2. idle' \in [Entry -> 0..MinIdle] /\ \A e \in Entry : idle'[e] \in {0, idle[e]}
    BY <1>1, <2>1, ResetType
  <2>3. last' \in 0..Entries /\ last <= last' /\ pel' \subseteq 1..last' /\ pel \subseteq pel'
    BY <1>1, <2>1 DEF HandsType
  <2> QED BY <2>1, <2>2, <2>3, StartOver
<1>4. CASE ReadFails(w)
  <2>1. loop' = [loop EXCEPT ![w] = Top] /\ UNCHANGED <<idle, slot>>
    BY <1>4 DEF ReadFails
  <2>2. PICK n \in 0..BatchSize : Deliver(n)
    BY <1>4 DEF ReadFails
  <2>3. last' \in 0..Entries /\ last <= last' /\ pel' \subseteq 1..last' /\ pel \subseteq pel'
    BY <2>2, DeliverEffect
  <2>4. idle' \in [Entry -> 0..MinIdle] /\ \A e \in Entry : idle'[e] \in {0, idle[e]}
    BY <1>1, <2>1 DEF HandsType
  <2> QED BY <2>1, <2>3, <2>4, StartOver
<1>5. CASE \E s \in Slot : HandlerFails(w, s)
  BY <1>5, SlotFreed DEF HandlerFails
<1>6. CASE Crash(w)
  BY <1>6, CrashStep
<1> QED BY <1>2, <1>3, <1>4, <1>5, <1>6 DEF Fault

LEMMA RecoveryNext == RecoveryInv /\ [Next]_vars => RecoveryInv'
<1> SUFFICES ASSUME RecoveryInv, [Next]_vars PROVE RecoveryInv'
  OBVIOUS
<1>1. CASE \E w \in WorkerID : Loop(w)
  BY <1>1, LoopStep
<1>2. CASE \E w \in WorkerID : Fault(w)
  BY <1>2, FaultStep
<1>3. CASE \E w \in WorkerID, s \in Slot : Return(w, s)
  <2>1. PICK w \in WorkerID, s \in Slot : Return(w, s)
    BY <1>3
  <2>2. /\ slot' = [slot EXCEPT ![w][s] = Free] /\ UNCHANGED <<last, loop>>
        /\ Ack(slot[w][s].msg) \/ UNCHANGED <<pel, idle>>
    BY <2>1 DEF Return
  <2> QED BY <2>2, SlotFreed
<1>4. CASE Tick
  BY <1>4, TickStep
<1>5. CASE UNCHANGED vars
  BY <1>5 DEF vars, RecoveryInv, HandsType, HeldAtLeast, TakenOverWhenIdle, Holds, HeldFor
<1> QED BY <1>1, <1>2, <1>3, <1>4, <1>5 DEF Next

(***************************************************************************)
(* For any number of workers, slots, messages, faults and ticks, and       *)
(* however late a loop claims, starts or reads: two hands are on one       *)
(* message only if one of them has had it for MinIdle.  This is what the   *)
(* repeated idle time in XCLAIM (ClaimPending) is for.                     *)
(***************************************************************************)
THEOREM TakenOverWhenIdleSafe == Spec => []TakenOverWhenIdle
<1>1. RecoveryInv => TakenOverWhenIdle
  BY DEF RecoveryInv
<1> QED BY RecoveryInit, RecoveryNext, <1>1, PTL DEF Spec

=============================================================================
