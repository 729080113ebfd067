------------------------------- MODULE Serve -------------------------------
(***************************************************************************)
(* App.Serve and Run: the servers, the work App.Go runs beside them, and   *)
(* how they're all shut down as the app is told to stop, a listener fails  *)
(* or the work does; with ssr.Server's Run as one of the work.             *)
(***************************************************************************)
EXTENDS Naturals, FiniteSets

CONSTANTS
    Servers,     \* HTTPS and HTTP, or one
    Work,        \* what App.Go runs
    Ssr,         \* the one of it that runs Node for ssr.Server
    Requests,    \* the requests a server may have in flight
    MaxNodes     \* bound: how often Node is started

\* Where a request is that's in flight at no server.
NoServer == "none"

ASSUME ServeAssumption ==
    /\ Ssr \in Work /\ MaxNodes \in Nat
    /\ NoServer \notin Servers

VARIABLES
    told,        \* whether the app is told to stop: serveAll's ctx is done
    phase,       \* where serveAll is
    server,      \* server[s]: how server s is
    served,      \* the servers whose Serve has returned with an error of its own
    request,     \* request[r]: the server r is in flight at, or not
    late,        \* the servers Shutdown gave up waiting for
    timedOut,    \* whether ShutdownTimeout has passed
    work,        \* work[f]: how f goes on, or went
    failed,      \* the work that has said it failed
    node,        \* the Node that Run of ssr has
    url,         \* the Node that answers at ssr.Server's URL, or 0
    nodes        \* how often Node was started

ssrVars == <<node, url, nodes>>
appVars == <<told, phase, server, served, request, late, timedOut, work, failed>>
serveVars == <<appVars, ssrVars>>

-----------------------------------------------------------------------------
(* serveAll                                                                *)

\* The outcomes of work: it returns nil, or an error.
Ended == {"nil", "error"}

\* What serveAll's work context tells those it runs.
Stopping == told \/ phase # "serving"

\* The app is told to stop: a signal, or the context Serve was given.
TellStop ==
    /\ ~told
    /\ told' = TRUE
    /\ UNCHANGED <<phase, server, served, request, late, timedOut, work, failed, ssrVars>>

\* A request comes to a server that takes them, or on a connection it has
\* already, and ends.
Arrive(r, s) ==
    /\ request[r] = NoServer /\ server[s] \in {"serving", "failed"}
    /\ request' = [request EXCEPT ![r] = s]
    /\ UNCHANGED <<told, phase, server, served, late, timedOut, work, failed, ssrVars>>

Answer(r) ==
    /\ request[r] # NoServer
    /\ request' = [request EXCEPT ![r] = NoServer]
    /\ UNCHANGED <<told, phase, server, served, late, timedOut, work, failed, ssrVars>>

\* A server's listener fails under it, and its Serve returns why.
ListenerFails(s) ==
    /\ server[s] = "serving"
    /\ server' = [server EXCEPT ![s] = "failed"]
    /\ served' = served \cup {s}
    /\ UNCHANGED <<told, phase, request, late, timedOut, work, failed, ssrVars>>

\* f returns, as it's told to stop or before, and an error is told of.
Return(f, outcome) ==
    /\ work[f] = "running"
    /\ work' = [work EXCEPT ![f] = outcome]
    /\ failed' = IF outcome = "nil" THEN failed ELSE failed \cup {f}
    /\ UNCHANGED <<told, phase, server, served, request, late, timedOut>>

\* mutant: serveAll doesn't hear of work that failed.
StopServingDeaf ==
    /\ phase = "serving"
    /\ told \/ served # {}
    /\ phase' = "stopping"
    /\ UNCHANGED <<told, server, served, request, late, timedOut, work, failed, ssrVars>>

\* serveAll hears of the first of these, tells the work, and has the servers
\* shut down.
StopServing ==
    /\ phase = "serving"
    /\ told \/ served # {} \/ failed # {}
    /\ phase' = "stopping"
    /\ UNCHANGED <<told, server, served, request, late, timedOut, work, failed, ssrVars>>

\* Shutdown of s: it takes no more connections, and waits for its requests,
CloseListener(s) ==
    /\ phase = "stopping" /\ server[s] \in {"serving", "failed"}
    /\ server' = [server EXCEPT ![s] = "closing"]
    /\ UNCHANGED <<told, phase, served, request, late, timedOut, work, failed, ssrVars>>

\* until there are none,
ShutDown(s) ==
    /\ server[s] = "closing"
    /\ \A r \in Requests : request[r] # s
    /\ server' = [server EXCEPT ![s] = "closed"]
    /\ UNCHANGED <<told, phase, served, request, late, timedOut, work, failed, ssrVars>>

\* or the timeout, and it's closed with those it has.
CloseLate(s) ==
    /\ server[s] = "closing" /\ timedOut
    /\ server' = [server EXCEPT ![s] = "closed"]
    /\ late' = late \cup {s}
    /\ UNCHANGED <<told, phase, served, request, timedOut, work, failed, ssrVars>>

TimeOut ==
    /\ phase = "stopping" /\ ~timedOut
    /\ timedOut' = TRUE
    /\ UNCHANGED <<told, phase, server, served, request, late, work, failed, ssrVars>>

AllClosed == \A s \in Servers : server[s] = "closed"

\* mutant: serveAll returns as its servers have shut down.
ServeReturnsEarly ==
    /\ phase = "stopping" /\ AllClosed
    /\ phase' = "returned"
    /\ UNCHANGED <<told, server, served, request, late, timedOut, work, failed, ssrVars>>

\* With its servers closed, serveAll waits for its work, and returns.
ServeReturns ==
    /\ phase = "stopping" /\ AllClosed
    /\ \A f \in Work : work[f] # "running"
    /\ phase' = "returned"
    /\ UNCHANGED <<told, server, served, request, late, timedOut, work, failed, ssrVars>>

-----------------------------------------------------------------------------
(* ssr.Server's Run                                                        *)

\* Run waits to start Node, Node starts, answers, or has been sent SIGTERM, or
\* has exited and not been waited for.
NodeStates == {"none", "starting", "answers", "told", "exited"}

\* Run starts Node, at first and after a wait as it has stopped.
StartNode ==
    /\ work[Ssr] = "running" /\ node = "none" /\ ~Stopping
    /\ nodes < MaxNodes
    /\ node' = "starting" /\ nodes' = nodes + 1
    /\ UNCHANGED <<url, appVars>>

\* It answers its health check, though it may have been told to stop by now,
\* and pages render there.
NodeAnswers ==
    /\ node \in {"starting", "told"} /\ url = 0
    /\ node' = IF node = "told" THEN "told" ELSE "answers"
    /\ url' = nodes
    /\ UNCHANGED <<nodes, appVars>>

\* It exits, on its own or as it was told to, or killed: as it didn't answer
\* in 30 seconds, or five after it was told.
NodeExits ==
    /\ node \in {"starting", "answers", "told"}
    /\ node' = "exited"
    /\ UNCHANGED <<url, nodes, appVars>>

\* The context is done: Node gets a SIGTERM.
TellNode ==
    /\ node \in {"starting", "answers"} /\ Stopping
    /\ node' = "told"
    /\ UNCHANGED <<url, nodes, appVars>>

\* run returns: nothing answers at the URL now.
Reap ==
    /\ node = "exited"
    /\ node' = "none" /\ url' = 0
    /\ UNCHANGED <<nodes, appVars>>

\* Run returns, as Node isn't running and the context is done; or at first,
\* with no bundle, or no Node to run.
SsrReturns ==
    /\ node = "none" /\ (Stopping \/ nodes = 0)
    /\ Return(Ssr, "nil") /\ UNCHANGED ssrVars

-----------------------------------------------------------------------------

ServeInit ==
    /\ told = FALSE /\ phase = "serving" /\ timedOut = FALSE
    /\ server = [s \in Servers |-> "serving"]
    /\ request = [r \in Requests |-> NoServer]
    /\ work = [f \in Work |-> "running"]
    /\ served = {} /\ late = {} /\ failed = {}
    /\ node = "none" /\ url = 0 /\ nodes = 0

WorkReturns(f) == f # Ssr /\ (\E outcome \in Ended : Return(f, outcome)) /\ UNCHANGED ssrVars

NodeStep == NodeAnswers \/ NodeExits \/ Reap \/ TellNode \/ SsrReturns

Serving == StopServing \/ TimeOut \/ ServeReturns

Shutting(s) == CloseListener(s) \/ ShutDown(s) \/ CloseLate(s)

ServeNext ==
    \/ TellStop \/ Serving
    \/ \E s \in Servers : ListenerFails(s) \/ Shutting(s) \/ \E r \in Requests : Arrive(r, s)
    \/ \E r \in Requests : Answer(r)
    \/ \E f \in Work : WorkReturns(f)
    \/ StartNode \/ NodeStep
    \/ phase = "returned" /\ UNCHANGED serveVars

\* serveAll and Shutdown go on, the timeout passes, Node stops within five
\* seconds of its being told to, and the work heeds its context.
ServeFairness ==
    /\ WF_serveVars(Serving)
    /\ \A s \in Servers : WF_serveVars(Shutting(s))
    /\ WF_serveVars(Reap)
    /\ WF_serveVars(Stopping /\ NodeExits) /\ WF_serveVars(Stopping /\ SsrReturns)
    /\ \A f \in Work : WF_serveVars(Stopping /\ WorkReturns(f))

ServeSpec == ServeInit /\ [][ServeNext]_serveVars

FairServeSpec == ServeSpec /\ ServeFairness

-----------------------------------------------------------------------------
(* Properties                                                              *)

ServeTypeOK ==
    /\ told \in BOOLEAN /\ phase \in {"serving", "stopping", "returned"}
    /\ server \in [Servers -> {"serving", "failed", "closing", "closed"}]
    /\ request \in [Requests -> Servers \cup {NoServer}]
    /\ work \in [Work -> Ended \cup {"running"}]
    /\ served \subseteq Servers /\ late \subseteq Servers /\ timedOut \in BOOLEAN
    /\ failed \subseteq Work
    /\ node \in NodeStates /\ nodes \in 0..MaxNodes /\ url \in 0..MaxNodes

\* As Serve returns nothing of the app runs on: no server takes a request, the
\* work has returned, Node has exited, and the requests that are left outlasted
\* the timeout (serveAll, Shutdown, ssr.Server's Run).
NothingRunsOn ==
    phase = "returned" =>
        /\ AllClosed /\ node = "none" /\ url = 0 /\ \A f \in Work : work[f] # "running"
        /\ \A r \in Requests : request[r] # NoServer => request[r] \in late

\* Once the app is told to stop, or any of its work or of its listeners fails,
\* Serve returns, with what Go runs and Node gone, though requests don't end.
StopsWhole == (told \/ failed # {} \/ served # {}) ~> phase = "returned"
=============================================================================
