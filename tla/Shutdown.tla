------------------------------ MODULE Shutdown ------------------------------
(***************************************************************************)
(* The life of the process: ServiceManager runs the database, web and      *)
(* worker services in one errgroup, waits for a signal or the first        *)
(* failing service, and shuts them down one after the other, the last      *)
(* registered first, under one 30 s deadline.  The web server's hook       *)
(* closes the websockets of the chat hub before the server drains.         *)
(*                                                                         *)
(* Jobs, HTTP handlers and the deadline are abstracted to what they wait   *)
(* for: a job or a handler may take for ever, and the deadline passes at   *)
(* any moment of the shutdown.                                             *)
(***************************************************************************)
EXTENDS Naturals

CONSTANTS
  Conns,        \* websocket connections clients may open
  MaxWorkers,   \* River's MaxWorkers
  MaxHandlers   \* bound: HTTP handlers in progress at a time

ASSUME ShutdownAssumption == MaxWorkers \in Nat /\ MaxHandlers \in Nat

VARIABLES
  main,       \* where ServiceManager.Start is
  cancelled,  \* the errgroup's context is cancelled
  deadline,   \* the 30 s of the shutdown context are over
  run,        \* the goroutine of each service
  fetching,   \* River fetches jobs
  jobs,       \* jobs in progress
  listening,  \* the listener: "no", "open", "closed"
  handlers,   \* HTTP handlers in progress (websockets are hijacked: no handlers)
  conn,       \* each websocket connection
  closing,    \* the connections CloseAll copied from the hub
  pool        \* the connection pool: "open", "closing", "closed"

work == <<fetching, jobs, handlers>>
sockets == <<conn, closing>>
shutdownVars == <<main, cancelled, deadline, run, work, listening, sockets, pool>>

Services == {"db", "web", "worker"}

ShutdownSteps == {"worker", "hooks", "hub", "server", "db"}

\* The phases and states of the parts, and the limits on concurrent work.
ShutdownTypeOK ==
  /\ main \in {"serving", "join", "exited"} \cup ShutdownSteps
  /\ cancelled \in BOOLEAN /\ deadline \in BOOLEAN /\ fetching \in BOOLEAN
  /\ run \in [Services -> {"starting", "running", "returned", "failed"}]
  /\ jobs \in 0 .. MaxWorkers /\ handlers \in 0 .. MaxHandlers
  /\ listening \in {"no", "open", "closed"}
  /\ conn \in [Conns -> {"none", "upgraded", "registered", "closed"}]
  /\ closing \subseteq Conns
  /\ pool \in {"open", "closing", "closed"}

ShutdownInit ==
  /\ main = "serving"
  /\ cancelled = FALSE /\ deadline = FALSE
  /\ run = [s \in Services |-> "starting"]
  /\ fetching = FALSE /\ jobs = 0 /\ handlers = 0
  /\ listening = "no"
  /\ conn = [c \in Conns |-> "none"]
  /\ closing = {}
  /\ pool = "open"

Alive == main # "exited"

-----------------------------------------------------------------------------
(* The service goroutines *)

\* errgroup: the first Run that returns an error cancels the context.
RunEnds(s, outcome) ==
  /\ run' = [run EXCEPT ![s] = outcome]
  /\ cancelled' = (cancelled \/ outcome = "failed")

\* SIGINT or SIGTERM.
Signal ==
  /\ Alive /\ ~cancelled
  /\ cancelled' = TRUE
  /\ UNCHANGED <<main, deadline, run, work, listening, sockets, pool>>

\* DBServer.Run pings the database ...
Ping ==
  /\ Alive /\ run["db"] = "starting"
  /\ \/ run' = [run EXCEPT !["db"] = "running"] /\ UNCHANGED cancelled
     \/ RunEnds("db", "failed")
  /\ UNCHANGED <<main, deadline, work, listening, sockets, pool>>

\* ... and waits for stopCh, which Shutdown closes, or the context.
DBReturns ==
  /\ run["db"] = "running"
  /\ cancelled \/ main \in {"db", "join"}
  /\ RunEnds("db", "returned")
  /\ UNCHANGED <<main, deadline, work, listening, sockets, pool>>

\* ListenAndServe binds the port or fails; after Shutdown it returns at once.
Listen ==
  /\ Alive /\ run["web"] = "starting"
  /\ \/ /\ listening = "no"
        /\ listening' = "open"
        /\ run' = [run EXCEPT !["web"] = "running"] /\ UNCHANGED cancelled
     \/ listening = "no" /\ RunEnds("web", "failed") /\ UNCHANGED listening
     \/ listening = "closed" /\ RunEnds("web", "returned") /\ UNCHANGED listening
  /\ UNCHANGED <<main, deadline, work, sockets, pool>>

\* ListenAndServe returns ErrServerClosed, which is no error.
WebReturns ==
  /\ run["web"] = "running" /\ listening = "closed"
  /\ RunEnds("web", "returned")
  /\ UNCHANGED <<main, deadline, work, listening, sockets, pool>>

\* River's Start does not block; under a cancelled context nothing is fetched.
StartWorker ==
  /\ Alive /\ run["worker"] = "starting"
  /\ \/ RunEnds("worker", "returned") /\ fetching' = ~cancelled
     \/ RunEnds("worker", "failed") /\ UNCHANGED fetching
  /\ UNCHANGED <<main, deadline, jobs, handlers, listening, sockets, pool>>

-----------------------------------------------------------------------------
(* The work the services do *)

\* Faulty variant: River without a limit on its workers.
JobBegins_Unlimited ==
  /\ fetching
  /\ jobs' = jobs + 1
  /\ UNCHANGED <<main, cancelled, deadline, run, fetching, handlers, listening, sockets, pool>>

\* River fetches a job when one of its workers is free.
JobBegins ==
  /\ fetching /\ jobs < MaxWorkers
  /\ jobs' = jobs + 1
  /\ UNCHANGED <<main, cancelled, deadline, run, fetching, handlers, listening, sockets, pool>>

JobEnds ==
  /\ Alive /\ jobs > 0
  /\ jobs' = jobs - 1
  /\ UNCHANGED <<main, cancelled, deadline, run, fetching, handlers, listening, sockets, pool>>

\* River stops fetching some time after the context of Start is cancelled.
FetchStops ==
  /\ fetching /\ cancelled
  /\ fetching' = FALSE
  /\ UNCHANGED <<main, cancelled, deadline, run, jobs, handlers, listening, sockets, pool>>

HandlerBegins ==
  /\ listening = "open" /\ handlers < MaxHandlers
  /\ handlers' = handlers + 1
  /\ UNCHANGED <<main, cancelled, deadline, run, fetching, jobs, listening, sockets, pool>>

HandlerEnds ==
  /\ Alive /\ handlers > 0
  /\ handlers' = handlers - 1
  /\ UNCHANGED <<main, cancelled, deadline, run, fetching, jobs, listening, sockets, pool>>

\* HandleWS: Accept hijacks the connection from the server, which no longer
\* counts its handler; a draining server still finishes the upgrades it began;
Upgrade(c) ==
  /\ Alive /\ handlers > 0 /\ conn[c] = "none"
  /\ handlers' = handlers - 1
  /\ conn' = [conn EXCEPT ![c] = "upgraded"]
  /\ UNCHANGED <<main, cancelled, deadline, run, fetching, jobs, listening, closing, pool>>

\* ... the connection is registered with the hub, ...
Register(c) ==
  /\ Alive /\ conn[c] = "upgraded"
  /\ conn' = [conn EXCEPT ![c] = "registered"]
  /\ UNCHANGED <<main, cancelled, deadline, run, work, listening, closing, pool>>

\* ... and closed and unregistered when the client leaves or answers no ping.
Leave(c) ==
  /\ Alive /\ conn[c] = "registered"
  /\ conn' = [conn EXCEPT ![c] = "closed"]
  /\ UNCHANGED <<main, cancelled, deadline, run, work, listening, closing, pool>>

-----------------------------------------------------------------------------
(* ServiceManager.Start after the context is cancelled *)

\* The worker is first: Stop ends the fetching ...
BeginShutdown ==
  /\ main = "serving" /\ cancelled
  /\ main' = "worker"
  /\ fetching' = FALSE
  /\ UNCHANGED <<cancelled, deadline, run, jobs, handlers, listening, sockets, pool>>

DeadlinePasses ==
  /\ main \in ShutdownSteps /\ ~deadline
  /\ deadline' = TRUE
  /\ UNCHANGED <<main, cancelled, run, work, listening, sockets, pool>>

\* ... and waits for the running jobs, or for the deadline.
WorkerStopped ==
  /\ main = "worker"
  /\ jobs = 0 \/ deadline
  /\ main' = "hooks"
  /\ UNCHANGED <<cancelled, deadline, run, work, listening, sockets, pool>>

\* WebServer.Shutdown runs its hook first: CloseAll copies the hub's map ...
CopyConns ==
  /\ main = "hooks"
  /\ closing' = {c \in Conns : conn[c] = "registered"}
  /\ main' = "hub"
  /\ UNCHANGED <<cancelled, deadline, run, work, listening, conn, pool>>

\* ... closes every connection of the copy in a goroutine of its own, with a
\* going-away frame and the library's own time limit on the handshake, ...
CloseConn(c) ==
  /\ main = "hub" /\ c \in closing
  /\ conn[c] # "closed"
  /\ conn' = [conn EXCEPT ![c] = "closed"]
  /\ UNCHANGED <<main, cancelled, deadline, run, work, listening, closing, pool>>

\* ... and waits for all of them.  Then server.Shutdown closes the listener ...
HubClosed ==
  /\ main = "hub"
  /\ \A c \in closing : conn[c] = "closed"
  /\ main' = "server"
  /\ listening' = "closed"
  /\ UNCHANGED <<cancelled, deadline, run, work, sockets, pool>>

\* Faulty variant: the server is closed without waiting for its handlers.
ServerDrained_NoWait ==
  /\ main = "server"
  /\ main' = "db"
  /\ pool' = "closing"
  /\ UNCHANGED <<cancelled, deadline, run, work, listening, sockets>>

\* ... and waits for the handlers, or for the deadline.  DBServer.Shutdown is
\* last: a goroutine starts to close the pool ...
ServerDrained ==
  /\ main = "server"
  /\ handlers = 0 \/ deadline
  /\ main' = "db"
  /\ pool' = "closing"
  /\ UNCHANGED <<cancelled, deadline, run, work, listening, sockets>>

\* ... which waits until every connection is given back, ...
PoolCloses ==
  /\ pool = "closing" /\ Alive
  /\ handlers = 0 /\ jobs = 0
  /\ pool' = "closed"
  /\ UNCHANGED <<main, cancelled, deadline, run, work, listening, sockets>>

\* Faulty variant: the pool is closed in the calling goroutine.
DBStopped_NoDeadline ==
  /\ main = "db"
  /\ pool = "closed"
  /\ main' = "join"
  /\ UNCHANGED <<cancelled, deadline, run, work, listening, sockets, pool>>

\* ... while Shutdown waits for it, or for the deadline.
DBStopped ==
  /\ main = "db"
  /\ pool = "closed" \/ deadline
  /\ main' = "join"
  /\ UNCHANGED <<cancelled, deadline, run, work, listening, sockets, pool>>

\* g.Wait, and the process ends.
Exit ==
  /\ main = "join"
  /\ \A s \in Services : run[s] \in {"returned", "failed"}
  /\ main' = "exited"
  /\ fetching' = FALSE
  /\ UNCHANGED <<cancelled, deadline, run, jobs, handlers, listening, sockets, pool>>

-----------------------------------------------------------------------------
RunStep == Ping \/ DBReturns \/ Listen \/ WebReturns \/ StartWorker

Work ==
  \/ JobBegins \/ JobEnds \/ FetchStops \/ HandlerBegins \/ HandlerEnds
  \/ \E c \in Conns : Upgrade(c) \/ Register(c) \/ Leave(c)

MainStep ==
  \/ BeginShutdown \/ WorkerStopped \/ CopyConns \/ HubClosed \/ ServerDrained
  \/ DBStopped \/ Exit

ShutdownNext ==
  \/ Signal \/ RunStep \/ Work
  \/ MainStep \/ DeadlinePasses \/ PoolCloses
  \/ \E c \in Conns : CloseConn(c)

ShutdownSpec == ShutdownInit /\ [][ShutdownNext]_shutdownVars

\* Goroutines that can go on do, time passes, and a closing handshake ends;
\* no job, handler or client is assumed to end.
ShutdownFairness ==
  /\ WF_shutdownVars(MainStep) /\ WF_shutdownVars(DeadlinePasses)
  /\ WF_shutdownVars(Ping) /\ WF_shutdownVars(DBReturns) /\ WF_shutdownVars(Listen) /\ WF_shutdownVars(WebReturns)
  /\ WF_shutdownVars(StartWorker)
  /\ \A c \in Conns : WF_shutdownVars(CloseConn(c))

FairShutdown == ShutdownSpec /\ ShutdownFairness

-----------------------------------------------------------------------------
(* Properties *)

\* ServiceManager.Start: a signal or a failing service ends the process,
\* whatever jobs, handlers and clients hang and in whatever state of starting
\* the services are.
ShutdownEnds == cancelled ~> main = "exited"

\* The order of the shutdown: as long as the deadline has not passed, the pool
\* is not touched before the last job and the last handler are done, and none
\* begins afterwards.
PoolClosesLast == pool # "open" /\ ~deadline => jobs = 0 /\ handlers = 0 /\ ~fetching
=============================================================================
