--------------------------- MODULE ShutdownProofs ---------------------------
(***************************************************************************)
(* The end of a process, for any number of messages in flight and of open  *)
(* requests, whoever starts the shutdown and whenever the timeout comes.   *)
(*                                                                         *)
(* The properties look at the end alone; the invariant says for every      *)
(* phase of App.Run which connections it has open and, unless the timeout  *)
(* has passed, who has gone by then.                                       *)
(***************************************************************************)
EXTENDS Shutdown, TLAPS

TypeOK ==
  /\ main \in Phase
  /\ timer \in {"off", "running", "expired"}
  /\ runner \in [Runner -> {"off", "starting", "running", "stopping", "exited"}]
  /\ job \in [Job -> {"unread", "claim", "exec", "update", "ack", "gone"}]
  /\ req \in [Req -> {"none", "open", "done"}]

(* Before the runners, and for good if the start fails. *)
NotStarted == \/ main \in {"redis", "postgres", "start"}
              \/ main = "returned" /\ timer = "off"

NothingStarted ==
  /\ timer = "off"
  /\ \A r \in Runner : runner[r] = "off"
  /\ \A j \in Job : job[j] = "unread"
  /\ \A q \in Req : req[q] = "none"
  /\ main = "returned" => earlyErr

(* Redis is opened first and closed first. *)
ConnectionsInv ==
  /\ redis => main \notin {"redis", "closePostgres", "returned"}
  /\ ~redis => main \in {"redis", "closePostgres", "returned"}
  /\ pg => main \notin {"redis", "postgres", "returned"}

(* Who is gone in which phase; the timer runs from the shutdown on. *)
AfterServer == {"worker", "scheduler", "closeRedis", "closePostgres", "returned"}

StoppedInv ==
  /\ main = "select" => timer = "off"
  /\ main \in AfterServer \cup {"shutdown", "server"} => timer # "off"
  /\ main \in AfterServer \cup {"server"} =>
       /\ runner["server"] = "exited"
       /\ Expired \/ \A q \in Req : req[q] # "open"
  /\ main \in AfterServer \ {"worker"} => Expired \/ runner["worker"] = "exited"
  /\ main \in AfterServer \ {"worker", "scheduler"} =>
       Expired \/ runner["scheduler"] = "exited"

(* The worker has goroutines only between its start and its exit. *)
GoroutinesInv ==
  runner["worker"] \in {"off", "starting", "exited"} => InFlight = {}

ShutdownInv ==
  /\ TypeOK
  /\ ConnectionsInv
  /\ GoroutinesInv
  /\ NotStarted => NothingStarted
  /\ ~NotStarted => StoppedInv

LEMMA InitInv == Init => ShutdownInv
<1> SUFFICES ASSUME Init PROVE ShutdownInv
  OBVIOUS
<1>1. TypeOK
  BY DEF Init, TypeOK, Phase
<1>2. NothingStarted /\ NotStarted /\ ConnectionsInv
  BY DEF Init, NothingStarted, NotStarted, ConnectionsInv
<1>3. GoroutinesInv
  BY DEF Init, GoroutinesInv, InFlight
<1> QED BY <1>1, <1>2, <1>3 DEF ShutdownInv

-----------------------------------------------------------------------------
(* App.Run. *)

LEMMA ConnectStep ==
  ASSUME ShutdownInv, ConnectRedis \/ ConnectPostgres \/ Start
  PROVE  ShutdownInv'
<1>1. /\ TypeOK /\ NothingStarted /\ GoroutinesInv /\ ConnectionsInv
      /\ main \in {"redis", "postgres", "start"}
  BY DEF ShutdownInv, NotStarted, ConnectRedis, ConnectPostgres, Start
<1>2. CASE ConnectRedis \/ ConnectPostgres
  <2>1. UNCHANGED <<timer, runner, job, req>>
    BY <1>2 DEF ConnectRedis, ConnectPostgres, run, work
  <2>2. TypeOK' /\ NotStarted' /\ ConnectionsInv'
    BY <1>1, <1>2, <2>1
    DEF ConnectRedis, ConnectPostgres, TypeOK, Phase, NotStarted, NothingStarted, ConnectionsInv
  <2>3. NothingStarted'
    BY <1>1, <1>2, <2>1 DEF ConnectRedis, ConnectPostgres, NothingStarted
  <2>4. GoroutinesInv'
    BY <1>1, <2>1 DEF GoroutinesInv, InFlight
  <2> QED BY <2>2, <2>3, <2>4 DEF ShutdownInv
<1>3. CASE Start
  <2>1. /\ main' = "select" /\ UNCHANGED <<redis, pg, timer, earlyErr, job, req>>
        /\ runner' = [r \in Runner |-> "starting"]
    BY <1>3 DEF Start, work
  <2>2. TypeOK' /\ ConnectionsInv'
    BY <1>1, <1>3, <2>1 DEF Start, TypeOK, Phase, ConnectionsInv
  <2>3. ~NotStarted' /\ StoppedInv'
    BY <1>1, <2>1 DEF NotStarted, StoppedInv, AfterServer, NothingStarted
  <2>4. GoroutinesInv'
    BY <1>1, <2>1 DEF GoroutinesInv, InFlight, NothingStarted
  <2> QED BY <2>2, <2>3, <2>4 DEF ShutdownInv
<1> QED BY <1>2, <1>3

LEMMA MainStep ==
  ASSUME ShutdownInv,
         \/ Select \/ CloseListener \/ ServerShutdown \/ CloseRedis \/ ClosePostgres
         \/ \E r \in Runner : WaitForRunner(r)
  PROVE  ShutdownInv'
<1>1. /\ TypeOK /\ GoroutinesInv /\ ConnectionsInv /\ StoppedInv
      /\ main \notin {"redis", "postgres", "start", "returned"}
  BY DEF ShutdownInv, NotStarted, Select, CloseListener, ServerShutdown, CloseRedis,
         ClosePostgres, WaitForRunner, Runner
<1>2. CASE Select
  <2>1. /\ main = "select" /\ main' = "shutdown" /\ timer' = "running"
        /\ UNCHANGED <<redis, pg, runner, job, req>>
    BY <1>2 DEF Select, work
  <2>2. TypeOK' /\ ConnectionsInv' /\ GoroutinesInv'
    BY <1>1, <2>1 DEF TypeOK, Phase, ConnectionsInv, GoroutinesInv, InFlight
  <2>3. ~NotStarted' /\ StoppedInv'
    BY <2>1 DEF NotStarted, StoppedInv, AfterServer
  <2> QED BY <2>2, <2>3 DEF ShutdownInv
<1>3. CASE CloseListener
  <2>1. /\ main = "shutdown" /\ UNCHANGED <<main, redis, pg, timer, earlyErr, job, req>>
        /\ runner' = [runner EXCEPT !["server"] = "exited"]
    BY <1>3 DEF CloseListener, work
  <2>2. TypeOK' /\ ConnectionsInv' /\ GoroutinesInv'
    BY <1>1, <2>1 DEF TypeOK, ConnectionsInv, GoroutinesInv, InFlight, Runner
  <2>3. ~NotStarted' /\ StoppedInv'
    BY <1>1, <2>1 DEF NotStarted, StoppedInv, AfterServer
  <2> QED BY <2>2, <2>3 DEF ShutdownInv
<1>4. CASE ServerShutdown \/ (\E r \in Runner : WaitForRunner(r)) \/ CloseRedis \/ ClosePostgres
  <2>1. UNCHANGED <<timer, runner, earlyErr, job, req>>
    BY <1>4 DEF ServerShutdown, WaitForRunner, CloseRedis, ClosePostgres, run, work
  <2>2. \/ /\ main = "shutdown" /\ main' = "server" /\ UNCHANGED <<redis, pg>>
           /\ runner["server"] = "exited"
           /\ (\A q \in Req : req[q] # "open") \/ Expired
        \/ /\ main = "server" /\ main' = "worker" /\ UNCHANGED <<redis, pg>>
        \/ /\ main = "worker" /\ main' = "scheduler" /\ UNCHANGED <<redis, pg>>
           /\ runner["worker"] = "exited" \/ Expired
        \/ /\ main = "scheduler" /\ main' = "closeRedis" /\ UNCHANGED <<redis, pg>>
           /\ runner["scheduler"] = "exited" \/ Expired
        \/ main = "closeRedis" /\ main' = "closePostgres" /\ redis' = FALSE /\ pg' = pg
        \/ main = "closePostgres" /\ main' = "returned" /\ redis' = redis /\ pg' = FALSE
    BY <1>4 DEF ServerShutdown, WaitForRunner, CloseRedis, ClosePostgres, After, Runner
  <2>3. TypeOK' /\ ConnectionsInv' /\ GoroutinesInv'
    BY <1>1, <2>1, <2>2 DEF TypeOK, Phase, ConnectionsInv, GoroutinesInv, InFlight
  <2>4. timer' # "off"
    BY <1>1, <2>1, <2>2 DEF StoppedInv, AfterServer
  <2>5. ~NotStarted'
    BY <2>2, <2>4 DEF NotStarted
  <2>6. StoppedInv'
    BY <1>1, <2>1, <2>2, <2>4 DEF StoppedInv, AfterServer, Expired
  <2> QED BY <2>3, <2>5, <2>6 DEF ShutdownInv
<1> QED BY <1>2, <1>3, <1>4

-----------------------------------------------------------------------------
(* The runners, their work, and the clock. *)

(* A step of them keeps the phase and the connections, and needs a runner  *)
(* that was started.                                                       *)
LEMMA RunStep ==
  ASSUME ShutdownInv, UNCHANGED <<main, redis, pg>>, ~NotStarted, ~NotStarted',
         TypeOK', GoroutinesInv', StoppedInv'
  PROVE  ShutdownInv'
BY DEF ShutdownInv, ConnectionsInv

LEMMA RunnerStep ==
  ASSUME ShutdownInv,
         \/ SchedulerStops \/ WorkerStops \/ WorkerExits
         \/ \E r \in Runner : RunnerStarts(r) \/ RunnerFails(r)
  PROVE  ShutdownInv'
<1>1. PICK r \in Runner, to \in {"running", "stopping", "exited"} :
        /\ runner[r] \in {"starting", "running", "stopping"}
        /\ SetRunner(r, to)
        /\ to = "running" \/ to = "exited" =>
             runner[r] = "starting" \/ r # "worker" \/ InFlight = {}
        /\ UNCHANGED <<main, redis, pg, timer, job, req>>
  BY DEF SchedulerStops, WorkerStops, WorkerExits, RunnerStarts, RunnerFails, Runner, work
<1>2. TypeOK /\ GoroutinesInv /\ r \in {"server", "worker", "scheduler"}
  BY DEF ShutdownInv, Runner
<1>3. /\ runner'[r] = to /\ \A o \in Runner \ {r} : runner'[o] = runner[o]
  BY <1>1, <1>2 DEF SetRunner, TypeOK
<1>4. ~NotStarted /\ ~NotStarted'
  BY <1>1 DEF ShutdownInv, NothingStarted, NotStarted
<1>5. TypeOK'
  BY <1>1, <1>2 DEF TypeOK, SetRunner
<1>6. GoroutinesInv'
  BY <1>1, <1>2, <1>3 DEF GoroutinesInv, InFlight, Runner
<1>7. StoppedInv'
  <2>1. StoppedInv
    BY <1>4 DEF ShutdownInv
  <2>2. \A o \in Runner : runner[o] = "exited" => runner'[o] = "exited"
    BY <1>1, <1>3
  <2> QED BY <1>1, <2>1, <2>2 DEF StoppedInv, Expired, Runner
<1> QED BY <1>1, <1>4, <1>5, <1>6, <1>7, RunStep

LEMMA WorkStep ==
  ASSUME ShutdownInv, \/ \E j \in Job : Spawn(j) \/ HandlerReturns(j) \/ JobCall(j)
                      \/ \E q \in Req : Arrive(q) \/ Answer(q)
  PROVE  ShutdownInv'
<1>1. TypeOK /\ GoroutinesInv /\ UNCHANGED <<main, redis, pg, timer, runner>>
  BY DEF ShutdownInv, Spawn, HandlerReturns, JobCall, ClaimTask, MarkSuccess, Ack, Call, Arrive,
         Answer, run
<1>2. ASSUME NEW j \in Job, Spawn(j) \/ HandlerReturns(j) \/ JobCall(j) PROVE ShutdownInv'
  <2>1. PICK to \in {"claim", "exec", "update", "ack", "gone"} :
          /\ job' = [job EXCEPT ![j] = to]
          /\ UNCHANGED req
          /\ \/ runner["worker"] = "running"
             \/ job[j] \notin {"unread", "gone"}
    BY <1>2 DEF Spawn, HandlerReturns, JobCall, ClaimTask, MarkSuccess, Ack, Call
  <2>2. runner["worker"] \notin {"off", "starting", "exited"}
    BY <1>1, <2>1 DEF GoroutinesInv, InFlight
  <2>3. ~NotStarted /\ ~NotStarted'
    BY <1>1, <2>2 DEF ShutdownInv, NothingStarted, NotStarted, Runner
  <2>4. TypeOK'
    BY <1>1, <2>1 DEF TypeOK
  <2>5. GoroutinesInv'
    BY <1>1, <2>2 DEF GoroutinesInv
  <2>6. StoppedInv'
    BY <1>1, <2>1, <2>3 DEF ShutdownInv, StoppedInv, Expired
  <2> QED BY <1>1, <2>3, <2>4, <2>5, <2>6, RunStep
<1>3. ASSUME NEW q \in Req, Arrive(q) \/ Answer(q) PROVE ShutdownInv'
  <2>1. PICK to \in {"open", "done"} :
          /\ req' = [req EXCEPT ![q] = to]
          /\ UNCHANGED job
          /\ \/ to = "open" /\ runner["server"] = "running"
             \/ to = "done" /\ req[q] = "open"
    BY <1>3 DEF Arrive, Answer
  <2>2. ~NotStarted /\ ~NotStarted'
    BY <1>1, <2>1 DEF ShutdownInv, NothingStarted, NotStarted, Runner
  <2>3. TypeOK'
    BY <1>1, <2>1 DEF TypeOK
  <2>4. GoroutinesInv'
    BY <1>1, <2>1 DEF GoroutinesInv, InFlight
  <2>5. StoppedInv'
    BY <1>1, <2>1, <2>2 DEF ShutdownInv, StoppedInv, Expired, TypeOK
  <2> QED BY <1>1, <2>2, <2>3, <2>4, <2>5, RunStep
<1> QED BY <1>2, <1>3

LEMMA ClockStep ==
  ASSUME ShutdownInv, SigTerm \/ TimerExpires
  PROVE  ShutdownInv'
<1>1. UNCHANGED <<main, redis, pg, runner, earlyErr, job, req>>
  BY DEF SigTerm, TimerExpires, work
<1>2. CASE UNCHANGED timer
  BY <1>1, <1>2 DEF ShutdownInv, TypeOK, ConnectionsInv, GoroutinesInv, InFlight, NotStarted,
                    NothingStarted, StoppedInv, Expired
<1>3. CASE timer = "running" /\ timer' = "expired"
  <2>1. ~NotStarted /\ ~NotStarted'
    BY <1>1, <1>3 DEF ShutdownInv, NothingStarted, NotStarted
  <2>2. TypeOK' /\ GoroutinesInv' /\ StoppedInv'
    BY <1>1, <1>3, <2>1 DEF ShutdownInv, TypeOK, GoroutinesInv, InFlight, StoppedInv, Expired
  <2> QED BY <1>1, <2>1, <2>2, RunStep
<1> QED BY <1>2, <1>3 DEF SigTerm, TimerExpires

-----------------------------------------------------------------------------

LEMMA ShutdownInvariant == Spec => []ShutdownInv
<1>1. ShutdownInv /\ [Next]_vars => ShutdownInv'
  <2> SUFFICES ASSUME ShutdownInv, [Next]_vars PROVE ShutdownInv'
    OBVIOUS
  <2>1. CASE Next
    BY <2>1, ConnectStep, MainStep, RunnerStep, WorkStep, ClockStep DEF Next, Main
  <2>2. CASE UNCHANGED vars
    BY <2>2 DEF vars, ShutdownInv, TypeOK, ConnectionsInv, GoroutinesInv, InFlight, NotStarted,
                NothingStarted, StoppedInv, Expired
  <2> QED BY <2>1, <2>2
<1> QED BY <1>1, InitInv, PTL DEF Spec

(***************************************************************************)
(* Unless the shutdown timeout has passed, Redis is open as long as a      *)
(* goroutine of the worker, the scheduler or a request may use it: the     *)
(* waits of App.Run (app.go) come before the deferred Close.               *)
(***************************************************************************)
THEOREM ConnectionsSafe == Spec => []ConnectionsOutliveUsers
<1>1. ShutdownInv => ConnectionsOutliveUsers
  <2> SUFFICES ASSUME ShutdownInv, ~Expired, ~redis
               PROVE  /\ InFlight = {}
                      /\ \A q \in Req : req[q] # "open"
                      /\ \A r \in Runner : runner[r] \in {"off", "exited"}
    BY DEF ConnectionsOutliveUsers
  <2>1. CASE NotStarted
    BY <2>1 DEF ShutdownInv, NothingStarted, InFlight
  <2>2. CASE ~NotStarted
    <3>1. main \in {"closePostgres", "returned"}
      BY <2>2 DEF ShutdownInv, ConnectionsInv, NotStarted
    <3>2. /\ \A q \in Req : req[q] # "open"
          /\ \A r \in Runner : runner[r] = "exited"
      BY <2>2, <3>1 DEF ShutdownInv, StoppedInv, AfterServer, Runner
    <3> QED BY <3>2 DEF ShutdownInv, GoroutinesInv, Runner
  <2> QED BY <2>1, <2>2
<1> QED BY <1>1, ShutdownInvariant, PTL

(***************************************************************************)
(* When App.Run returns, both connections are closed, also if the start    *)
(* failed half-way (dependencies.go Connect), and then it is an error.     *)
(***************************************************************************)
THEOREM CleanReturnSafe == Spec => []CleanReturn
<1>1. ShutdownInv => CleanReturn
  BY DEF ShutdownInv, ConnectionsInv, CleanReturn, NotStarted, NothingStarted
<1> QED BY <1>1, ShutdownInvariant, PTL

=============================================================================
