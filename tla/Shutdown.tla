------------------------------ MODULE Shutdown ------------------------------
(***************************************************************************)
(* The life of one process: App.Run connects to Redis and Postgres, starts *)
(* the HTTP server, the worker and the scheduler, waits for a signal or    *)
(* for the first of them to exit, and shuts the rest down.                 *)
(*                                                                         *)
(* The shutdown cancels the context of worker and scheduler, and with it   *)
(* every call their goroutines make from then on.  One timeout is shared   *)
(* by server.Shutdown, which waits for open requests, and by the waits for *)
(* the three runners, which come one after the other.  Then the deferred   *)
(* Close closes Redis, and Postgres once no request uses its pool.         *)
(***************************************************************************)
EXTENDS Naturals, FiniteSets

CONSTANTS Job,       \* messages the worker handles
          Req        \* HTTP requests

Runner == {"server", "worker", "scheduler"}

VARIABLES main,      \* where App.Run stands
          redis, pg, \* open connections
          signal,    \* SIGTERM was received
          stopped,   \* cancelRunners was called
          timer,     \* the shutdown timeout: "off", "running", "expired"
          runner,    \* "off", "starting", "running", "stopping" or "exited"
          erred,     \* runners that returned an error
          earlyErr,  \* what App.Run will return is an error
          job,       \* the next call of the goroutine of every message
          req        \* "none", "open" or "done"

vars == <<main, redis, pg, signal, stopped, timer, runner, erred, earlyErr,
          job, req>>

Phase == {"redis", "postgres", "start", "select", "shutdown", "server", "worker",
          "scheduler", "closeRedis", "closePostgres", "returned"}

Init ==
  /\ main = "redis"
  /\ redis = FALSE /\ pg = FALSE
  /\ signal = FALSE /\ stopped = FALSE
  /\ timer = "off"
  /\ runner = [r \in Runner |-> "off"]
  /\ erred = {}
  /\ earlyErr = FALSE
  /\ job = [j \in Job |-> "unread"]
  /\ req = [q \in Req |-> "none"]

work == <<job, req>>

run == <<signal, stopped, timer, runner, erred>>

-----------------------------------------------------------------------------
(* dependencies.Connect. *)

ConnectRedis ==
  /\ main = "redis"
  /\ \/ redis' = TRUE /\ main' = "postgres" /\ UNCHANGED earlyErr
     \/ redis' = FALSE /\ main' = "returned" /\ earlyErr' = TRUE
  /\ UNCHANGED <<pg, run, work>>

(* Faulty variant: Redis stays open when Postgres does not answer. *)
ConnectPostgresLeaks ==
  /\ main = "postgres"
  /\ \/ pg' = TRUE /\ main' = "start" /\ UNCHANGED earlyErr
     \/ pg' = FALSE /\ main' = "returned" /\ earlyErr' = TRUE
  /\ UNCHANGED <<redis, run, work>>

ConnectPostgres ==
  /\ main = "postgres"
  /\ \/ pg' = TRUE /\ main' = "start" /\ UNCHANGED <<redis, earlyErr>>
     \/ pg' = FALSE /\ redis' = FALSE /\ main' = "returned" /\ earlyErr' = TRUE
  /\ UNCHANGED <<run, work>>

Start ==
  /\ main = "start"
  /\ main' = "select"
  /\ runner' = [r \in Runner |-> "starting"]
  /\ UNCHANGED <<redis, pg, signal, stopped, timer, erred, earlyErr, work>>

-----------------------------------------------------------------------------
(* App.Run from its select on. *)

(* ctx.Done, or the error channel of a runner. *)
Select ==
  /\ main = "select"
  /\ \/ signal /\ UNCHANGED earlyErr
     \/ \E r \in Runner : runner[r] = "exited" /\ earlyErr' = (r \in erred)
  /\ main' = "shutdown"
  /\ stopped' = TRUE
  /\ timer' = "running"
  /\ UNCHANGED <<redis, pg, signal, runner, erred, work>>

Expired == timer = "expired"

(* The context of worker and scheduler is derived from the one the signal  *)
(* cancels.                                                                *)
Cancelled == signal \/ stopped

(* server.Shutdown closes the listener at once and waits for requests. *)
CloseListener ==
  /\ main = "shutdown" /\ runner["server"] # "exited"
  /\ runner' = [runner EXCEPT !["server"] = "exited"]
  /\ UNCHANGED <<main, redis, pg, signal, stopped, timer, erred, earlyErr, work>>

ServerShutdown ==
  /\ main = "shutdown" /\ runner["server"] = "exited"
  /\ (\A q \in Req : req[q] # "open") \/ Expired
  /\ main' = "server"
  /\ UNCHANGED <<redis, pg, run, earlyErr, work>>

After == [server |-> "worker", worker |-> "scheduler", scheduler |-> "closeRedis"]

(* Faulty variant: a wait without the timeout. *)
WaitForeverForRunner(r) ==
  /\ main = r
  /\ runner[r] = "exited"
  /\ main' = After[r]
  /\ UNCHANGED <<redis, pg, run, earlyErr, work>>

(* waitForRunner; at once for the runner that Select saw exit. *)
WaitForRunner(r) ==
  /\ main = r
  /\ runner[r] = "exited" \/ Expired
  /\ main' = After[r]
  /\ UNCHANGED <<redis, pg, run, earlyErr, work>>

CloseRedis ==
  /\ main = "closeRedis"
  /\ redis' = FALSE
  /\ main' = "closePostgres"
  /\ UNCHANGED <<pg, run, earlyErr, work>>

(* Close of the pool waits until every connection has been given back; the *)
(* calls of cancelled goroutines give theirs back at once.                 *)
ClosePostgres ==
  /\ main = "closePostgres"
  /\ \A q \in Req : req[q] # "open"
  /\ pg' = FALSE
  /\ main' = "returned"
  /\ UNCHANGED <<redis, run, earlyErr, work>>

Main == \/ ConnectRedis \/ ConnectPostgres \/ Start \/ Select \/ CloseListener
        \/ ServerShutdown \/ CloseRedis \/ ClosePostgres
        \/ \E r \in Runner : WaitForRunner(r)

-----------------------------------------------------------------------------
(* The runners, while the process lives. *)

Alive == main # "returned"

SetRunner(r, state) == runner' = [runner EXCEPT ![r] = state]

(* EnsureGroup, the first tick of the scheduler or ListenAndServe fails;   *)
(* the server may also fail later.                                         *)
RunnerFails(r) ==
  /\ Alive
  /\ \/ runner[r] = "starting"
     \/ r = "server" /\ runner[r] = "running"
  /\ SetRunner(r, "exited")
  /\ erred' = erred \cup {r}
  /\ UNCHANGED <<main, redis, pg, signal, stopped, timer, earlyErr, work>>

RunnerStarts(r) ==
  /\ Alive /\ runner[r] = "starting"
  /\ SetRunner(r, "running")
  /\ UNCHANGED <<main, redis, pg, signal, stopped, timer, erred, earlyErr, work>>

(* The scheduler sees that its context is cancelled. *)
SchedulerStops ==
  /\ Alive /\ Cancelled /\ runner["scheduler"] = "running"
  /\ SetRunner("scheduler", "exited")
  /\ UNCHANGED <<main, redis, pg, signal, stopped, timer, erred, earlyErr, work>>

(* The loop of the worker sees it, and waits for its goroutines. *)
WorkerStops ==
  /\ Alive /\ Cancelled /\ runner["worker"] = "running"
  /\ SetRunner("worker", "stopping")
  /\ UNCHANGED <<main, redis, pg, signal, stopped, timer, erred, earlyErr, work>>

InFlight == {j \in Job : job[j] \notin {"unread", "gone"}}

(* Faulty variant: Run returns without waiting for its goroutines. *)
WorkerLeaves ==
  /\ Alive /\ runner["worker"] = "stopping"
  /\ SetRunner("worker", "exited")
  /\ UNCHANGED <<main, redis, pg, signal, stopped, timer, erred, earlyErr, work>>

WorkerExits ==
  /\ Alive /\ runner["worker"] = "stopping"
  /\ InFlight = {}
  /\ SetRunner("worker", "exited")
  /\ UNCHANGED <<main, redis, pg, signal, stopped, timer, erred, earlyErr, work>>

(* acquireSlot chooses freely between a free slot and a cancelled context, *)
(* so that a goroutine may still be spawned after the cancellation.        *)
Spawn(j) ==
  /\ Alive /\ runner["worker"] = "running"
  /\ job[j] = "unread"
  /\ job' = [job EXCEPT ![j] = "claim"]
  /\ UNCHANGED <<main, redis, pg, run, earlyErr, req>>

(* A call with a cancelled context fails, and the goroutine returns. *)
Call(j, from, to) ==
  /\ Alive
  /\ job[j] = from
  /\ job' = [job EXCEPT ![j] = IF Cancelled THEN "gone" ELSE to]
  /\ UNCHANGED <<main, redis, pg, run, earlyErr, req>>

ClaimTask(j) == Call(j, "claim", "exec")

(* The handler returns; it may take the cancellation into account or not. *)
HandlerReturns(j) ==
  /\ Alive /\ job[j] = "exec"
  /\ job' = [job EXCEPT ![j] = "update"]
  /\ UNCHANGED <<main, redis, pg, run, earlyErr, req>>

MarkSuccess(j) == Call(j, "update", "ack")

Ack(j) == Call(j, "ack", "gone")

JobCall(j) == ClaimTask(j) \/ MarkSuccess(j) \/ Ack(j)

(* A request comes in while the listener is open; it has a context of its  *)
(* own and is served to the end.                                           *)
Arrive(q) ==
  /\ Alive /\ runner["server"] = "running" /\ req[q] = "none"
  /\ req' = [req EXCEPT ![q] = "open"]
  /\ UNCHANGED <<main, redis, pg, run, earlyErr, job>>

Answer(q) ==
  /\ Alive /\ req[q] = "open"
  /\ req' = [req EXCEPT ![q] = "done"]
  /\ UNCHANGED <<main, redis, pg, run, earlyErr, job>>

SigTerm ==
  /\ Alive /\ ~signal
  /\ signal' = TRUE
  /\ UNCHANGED <<main, redis, pg, stopped, timer, runner, erred, earlyErr, work>>

TimerExpires ==
  /\ Alive /\ timer = "running"
  /\ timer' = "expired"
  /\ UNCHANGED <<main, redis, pg, signal, stopped, runner, erred, earlyErr, work>>

Next ==
  \/ Main
  \/ SchedulerStops \/ WorkerStops \/ WorkerExits \/ SigTerm \/ TimerExpires
  \/ \E r \in Runner : RunnerStarts(r) \/ RunnerFails(r)
  \/ \E j \in Job : Spawn(j) \/ HandlerReturns(j) \/ JobCall(j)
  \/ \E q \in Req : Arrive(q) \/ Answer(q)

Spec == Init /\ [][Next]_vars

(* Goroutines run, calls return, requests are answered and the timeout     *)
(* passes.  Handlers need not return, and no signal has to come.           *)
FairSpec ==
  /\ Spec
  /\ WF_vars(Main) /\ WF_vars(TimerExpires)
  /\ WF_vars(SchedulerStops) /\ WF_vars(WorkerStops) /\ WF_vars(WorkerExits)
  /\ \A r \in Runner : WF_vars(RunnerStarts(r))
  /\ \A j \in Job : WF_vars(JobCall(j))
  /\ \A q \in Req : WF_vars(Answer(q))

-----------------------------------------------------------------------------
(* Properties. *)

(***************************************************************************)
(* Nothing is cut off early: Redis is closed under a goroutine of the      *)
(* worker, the scheduler or an open request only after the shutdown        *)
(* timeout, whoever started the shutdown (App.Run, the order of its waits  *)
(* and of the deferred Close).                                             *)
(***************************************************************************)
ConnectionsOutliveUsers ==
  Expired \/ redis \/ ( /\ InFlight = {}
                        /\ \A q \in Req : req[q] # "open"
                        /\ \A r \in Runner : runner[r] \in {"off", "exited"} )

(* What was opened is closed when App.Run returns, also when the start     *)
(* fails half-way (dependencies.Connect), and then it returns an error.    *)
CleanReturn ==
  main = "returned" =>
    /\ ~redis /\ ~pg
    /\ timer = "off" => earlyErr

(* Once anything exits or a signal comes, the process ends, even if a      *)
(* handler never returns (select and waitForRunner in App.Run).            *)
ShutdownEnds ==
  (signal \/ \E r \in Runner : runner[r] = "exited") ~> main = "returned"

=============================================================================
