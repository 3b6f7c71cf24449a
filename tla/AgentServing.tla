--------------------------- MODULE AgentServing ---------------------------
(***************************************************************************)
(* The life cycle of AgentServer (pkg/server): calls of RunContext, each   *)
(* with its http.Server and its watcher of the context, calls of Shutdown  *)
(* from other goroutines, and the requests being served meanwhile. Two     *)
(* calls of RunContext may overlap: nothing in the code prevents it, and   *)
(* the second finds the address taken. http.Server is external: Shutdown   *)
(* closes the listener at once and waits for the requests afterwards.      *)
(***************************************************************************)
EXTENDS Naturals, FiniteSets

CONSTANTS Runs,      \* calls of RunContext
          Stops,     \* calls of Shutdown
          Requests,  \* HTTP requests
          NoServer   \* s.httpServer is nil

ASSUME ServingAssumption == NoServer \notin Runs

VARIABLES
    run,         \* where each RunContext is
    result,      \* what it returned
    runCtxDone,     \* its context is done
    watcher,     \* its watcher goroutine
    serveDone,   \* its serveDone channel is closed
    httpServer,  \* s.httpServer: the run whose server it is
    down,        \* servers on which Shutdown has been called
    stop,        \* each Shutdown: where it is and the server it captured
    request,     \* each request: the run that serves it, and whether it is answered
    newest       \* history: the run that published its server last

servingVars == <<run, result, runCtxDone, watcher, serveDone, httpServer, down, stop, request, newest>>
runVars == <<run, result, serveDone, httpServer, newest>>
netVars == <<down, request>>

ServingInit ==
    /\ run = [r \in Runs |-> "idle"] /\ result = [r \in Runs |-> "none"]
    /\ runCtxDone = [r \in Runs |-> FALSE] /\ serveDone = [r \in Runs |-> FALSE]
    /\ watcher = [r \in Runs |-> "off"]
    /\ httpServer = NoServer /\ newest = NoServer
    /\ down = {}
    /\ stop = [s \in Stops |-> [at |-> "idle", srv |-> NoServer]]
    /\ request = [q \in Requests |-> [at |-> "none", srv |-> NoServer]]

Active(r) == \E q \in Requests : request[q] = [at |-> "active", srv |-> r]

RunGoto(r, from, to) == run[r] = from /\ run' = [run EXCEPT ![r] = to]

-----------------------------------------------------------------------------
(* RunContext.                                                             *)

\* A context that is already done ends the call before anything is built.
RunEnters(r) ==
    /\ RunGoto(r, "idle", IF runCtxDone[r] THEN "returned" ELSE "built")
    /\ result' = [result EXCEPT ![r] = IF runCtxDone[r] THEN "ctx" ELSE @]
    /\ UNCHANGED <<runCtxDone, watcher, serveDone, httpServer, newest, stop, netVars>>

RunPublishes(r) ==
    /\ RunGoto(r, "built", "published")
    /\ httpServer' = r /\ newest' = r
    /\ UNCHANGED <<result, runCtxDone, watcher, serveDone, stop, netVars>>

\* A plausible slip: the watcher is started after ListenAndServe, which blocks.
RunStartsWatcher_TooLate(r) ==
    /\ RunGoto(r, "published", "watched")
    /\ UNCHANGED <<result, runCtxDone, watcher, serveDone, httpServer, newest, stop, netVars>>

RunStartsWatcher(r) ==
    /\ RunGoto(r, "published", "watched")
    /\ watcher' = [watcher EXCEPT ![r] = "waiting"]
    /\ UNCHANGED <<result, runCtxDone, serveDone, httpServer, newest, stop, netVars>>

\* ListenAndServe on a server that was shut down before it listened.
ListensTooLate(r) ==
    /\ r \in down
    /\ RunGoto(r, "watched", "served")
    /\ result' = [result EXCEPT ![r] = "nil"]
    /\ UNCHANGED <<runCtxDone, watcher, serveDone, httpServer, newest, stop, netVars>>

\* The address is taken, by another run of this server or by someone else.
ListenFails(r) ==
    /\ r \notin down
    /\ RunGoto(r, "watched", "served")
    /\ result' = [result EXCEPT ![r] = "listen"]
    /\ UNCHANGED <<runCtxDone, watcher, serveDone, httpServer, newest, stop, netVars>>

Listens(r) ==
    /\ r \notin down
    /\ \A other \in Runs : run[other] = "listening" => other \in down
    /\ RunGoto(r, "watched", "listening")
    /\ UNCHANGED <<result, runCtxDone, watcher, serveDone, httpServer, newest, stop, netVars>>

\* ErrServerClosed, as soon as Shutdown has closed the listener.
ServeEnds(r) ==
    /\ r \in down
    /\ RunGoto(r, "listening", "served")
    /\ result' = [result EXCEPT ![r] = "nil"]
    /\ UNCHANGED <<runCtxDone, watcher, serveDone, httpServer, newest, stop, netVars>>

\* The deferred calls, last first.
RunClosesServeDone(r) ==
    /\ RunGoto(r, "served", "clearing")
    /\ serveDone' = [serveDone EXCEPT ![r] = TRUE]
    /\ UNCHANGED <<result, runCtxDone, watcher, httpServer, newest, stop, netVars>>

\* A plausible slip: the field is cleared whoever's server it holds.
RunReturns_ClearsAny(r) ==
    /\ RunGoto(r, "clearing", "returned")
    /\ httpServer' = NoServer
    /\ UNCHANGED <<result, runCtxDone, watcher, serveDone, newest, stop, netVars>>

RunReturns(r) ==
    /\ RunGoto(r, "clearing", "returned")
    /\ httpServer' = IF httpServer = r THEN NoServer ELSE httpServer
    /\ UNCHANGED <<result, runCtxDone, watcher, serveDone, newest, stop, netVars>>

-----------------------------------------------------------------------------
(* The watcher goroutine of a run.                                         *)

RunCancelled(r) ==
    /\ ~runCtxDone[r]
    /\ runCtxDone' = [runCtxDone EXCEPT ![r] = TRUE]
    /\ UNCHANGED <<runVars, watcher, stop, netVars>>

WatcherShutsDown(r) ==
    /\ watcher[r] = "waiting" /\ runCtxDone[r]
    /\ watcher' = [watcher EXCEPT ![r] = "draining"]
    /\ down' = down \cup {r}
    /\ UNCHANGED <<runVars, runCtxDone, stop, request>>

WatcherDrained(r) ==
    /\ watcher[r] = "draining" /\ ~Active(r)
    /\ watcher' = [watcher EXCEPT ![r] = "ended"]
    /\ UNCHANGED <<runVars, runCtxDone, stop, netVars>>

WatcherDismissed(r) ==
    /\ watcher[r] = "waiting" /\ serveDone[r]
    /\ watcher' = [watcher EXCEPT ![r] = "ended"]
    /\ UNCHANGED <<runVars, runCtxDone, stop, netVars>>

-----------------------------------------------------------------------------
(* Shutdown: the field is read under the lock, the server used after it.   *)

StopReads(s) ==
    /\ stop[s].at = "idle"
    /\ stop' = [stop EXCEPT ![s] =
                  [at |-> IF httpServer = NoServer THEN "not running" ELSE "captured", srv |-> httpServer]]
    /\ UNCHANGED <<runVars, runCtxDone, watcher, netVars>>

StopShutsDown(s) ==
    /\ stop[s].at = "captured"
    /\ stop' = [stop EXCEPT ![s].at = "draining"]
    /\ down' = down \cup {stop[s].srv}
    /\ UNCHANGED <<runVars, runCtxDone, watcher, request>>

StopDrained(s) ==
    /\ stop[s].at = "draining" /\ ~Active(stop[s].srv)
    /\ stop' = [stop EXCEPT ![s].at = "drained"]
    /\ UNCHANGED <<runVars, runCtxDone, watcher, netVars>>

StopDeadline(s) ==
    /\ stop[s].at = "draining"
    /\ stop' = [stop EXCEPT ![s].at = "deadline"]
    /\ UNCHANGED <<runVars, runCtxDone, watcher, netVars>>

-----------------------------------------------------------------------------
(* The HTTP clients and the handlers.                                      *)

RequestArrives(q, r) ==
    /\ request[q].at = "none" /\ run[r] = "listening" /\ r \notin down
    /\ request' = [request EXCEPT ![q] = [at |-> "active", srv |-> r]]
    /\ UNCHANGED <<runVars, runCtxDone, watcher, down, stop>>

RequestAnswered(q) ==
    /\ request[q].at = "active"
    /\ request' = [request EXCEPT ![q].at = "answered"]
    /\ UNCHANGED <<runVars, runCtxDone, watcher, down, stop>>

-----------------------------------------------------------------------------
RunStep(r) == \/ RunPublishes(r) \/ RunStartsWatcher(r) \/ ListensTooLate(r) \/ ListenFails(r)
              \/ Listens(r) \/ ServeEnds(r) \/ RunClosesServeDone(r) \/ RunReturns(r)
WatcherStep(r) == WatcherShutsDown(r) \/ WatcherDrained(r) \/ WatcherDismissed(r)
StopStep(s) == StopShutsDown(s) \/ StopDrained(s)

ServingNext ==
    \/ \E r \in Runs : RunEnters(r) \/ RunStep(r) \/ RunCancelled(r) \/ WatcherStep(r)
    \/ \E s \in Stops : StopReads(s) \/ StopStep(s) \/ StopDeadline(s)
    \/ \E q \in Requests : RequestAnswered(q) \/ \E r \in Runs : RequestArrives(q, r)

ServingSpec == ServingInit /\ [][ServingNext]_servingVars

\* Goroutines that can go on do, and handlers return; nobody has to cancel or to
\* call Shutdown.
ServingFairness ==
    /\ \A r \in Runs : WF_servingVars(RunStep(r)) /\ WF_servingVars(WatcherStep(r))
    /\ \A s \in Stops : WF_servingVars(StopStep(s))
    /\ \A q \in Requests : WF_servingVars(RequestAnswered(q))

-----------------------------------------------------------------------------
ServingTypeOK ==
    /\ run \in [Runs -> {"idle", "built", "published", "watched", "listening", "served", "clearing", "returned"}]
    /\ result \in [Runs -> {"none", "nil", "listen", "ctx"}]
    /\ runCtxDone \in [Runs -> BOOLEAN] /\ serveDone \in [Runs -> BOOLEAN]
    /\ watcher \in [Runs -> {"off", "waiting", "draining", "ended"}]
    /\ {httpServer, newest} \subseteq Runs \cup {NoServer} /\ down \subseteq Runs
    /\ stop \in [Stops -> [at : {"idle", "not running", "captured", "draining", "drained", "deadline"},
                           srv : Runs \cup {NoServer}]]
    /\ request \in [Requests -> [at : {"none", "active", "answered"}, srv : Runs \cup {NoServer}]]

\* Shutdown reaches the server published last for as long as it serves: an
\* earlier RunContext that ends late does not take the field away from it.
NewestRunIsReachable ==
    newest # NoServer /\ run[newest] \in {"published", "watched", "listening", "served"}
        => httpServer = newest

\* A run whose context is cancelled ends, whatever the moment: before the server
\* listens, while it serves, or while another run or a Shutdown is at work.
CancelEndsRun == \A r \in Runs : runCtxDone[r] /\ run[r] # "idle" => run[r] = "returned"

\* The run that a Shutdown reached ends, one that had not begun to listen too.
ShutdownEndsRun ==
    \A s \in Stops : stop[s].at \in {"draining", "drained", "deadline"} => run[stop[s].srv] = "returned"

\* The watcher of a run ends with it, or when the requests are drained.
WatcherEnds == \A r \in Runs : run[r] = "returned" => watcher[r] \in {"off", "ended"}

\* Whoever ends a run, and whenever, it and its watcher come to an end for good.
ServingEnds == <>[](CancelEndsRun /\ ShutdownEndsRun /\ WatcherEnds)
=============================================================================
