----------------------------- MODULE AgentRun -----------------------------
(***************************************************************************)
(* AgentBase.RunContext, buildAndServe and SetupGracefulShutdown (pkg/     *)
(* agent): the shutdown channel an agent creates once and keeps, and the   *)
(* goroutines that close it (one watcher for each run, one goroutine for   *)
(* each SetupGracefulShutdown) or wait for it (one reaper for each run,    *)
(* which shuts the run's http.Server down).                                *)
(***************************************************************************)
EXTENDS Naturals

CONSTANTS Serves,   \* calls of RunContext on one agent
          Handlers  \* calls of SetupGracefulShutdown

VARIABLES
    serve,       \* where each RunContext is
    cancelled,   \* its context is done
    observer,    \* its watcher goroutine
    reaper,      \* the goroutine that shuts its server down
    handler,     \* each signal goroutine
    shutdownCh,  \* the channel: "nil", "open", "closed"
    closes       \* history: how often it was closed

agentRunVars == <<serve, cancelled, observer, reaper, handler, shutdownCh, closes>>
channel == <<shutdownCh, closes>>

AgentRunInit ==
    /\ serve = [r \in Serves |-> "idle"] /\ cancelled = [r \in Serves |-> FALSE]
    /\ observer = [r \in Serves |-> "off"] /\ reaper = [r \in Serves |-> "off"]
    /\ handler = [h \in Handlers |-> "off"]
    /\ shutdownCh = "nil" /\ closes = 0

ServeGoto(r, from, to) == serve[r] = from /\ serve' = [serve EXCEPT ![r] = to]

\* Whoever wants the end closes the channel under the agent's lock, if it exists
\* and is open. A plausible slip: it is closed whether open or not.
CloseChannel_Unchecked ==
    /\ shutdownCh' = IF shutdownCh = "nil" THEN "nil" ELSE "closed"
    /\ closes' = IF shutdownCh = "nil" THEN closes ELSE closes + 1

CloseChannel ==
    /\ shutdownCh' = IF shutdownCh = "open" THEN "closed" ELSE shutdownCh
    /\ closes' = IF shutdownCh = "open" THEN closes + 1 ELSE closes

-----------------------------------------------------------------------------
(* RunContext and buildAndServe.                                           *)

ServeEnters(r) ==
    /\ ServeGoto(r, "idle", IF cancelled[r] THEN "returned" ELSE "entered")
    /\ shutdownCh' = IF shutdownCh = "nil" /\ ~cancelled[r] THEN "open" ELSE shutdownCh
    /\ UNCHANGED <<cancelled, observer, reaper, handler, closes>>

ServeStartsWatcher(r) ==
    /\ ServeGoto(r, "entered", "watched")
    /\ observer' = [observer EXCEPT ![r] = "waiting"]
    /\ UNCHANGED <<cancelled, reaper, handler, channel>>

ServeStartsReaper(r) ==
    /\ ServeGoto(r, "watched", "ready")
    /\ reaper' = [reaper EXCEPT ![r] = "waiting"]
    /\ UNCHANGED <<cancelled, observer, handler, channel>>

\* One run of the agent at a time gets the address.
ServeListens(r) ==
    /\ reaper[r] # "stopped" /\ \A other \in Serves : serve[other] # "listening"
    /\ ServeGoto(r, "ready", "listening")
    /\ UNCHANGED <<cancelled, observer, reaper, handler, channel>>

\* The address is taken, and the reaper stays behind on the channel.
ServeFails(r) ==
    /\ ServeGoto(r, "ready", "served")
    /\ UNCHANGED <<cancelled, observer, reaper, handler, channel>>

ServeCloses(r) ==
    /\ reaper[r] = "stopped" /\ serve[r] \in {"ready", "listening"}
    /\ serve' = [serve EXCEPT ![r] = "served"]
    /\ UNCHANGED <<cancelled, observer, reaper, handler, channel>>

\* The deferred close(watcherDone), which the watcher sees as "returned".
ServeReturns(r) ==
    /\ ServeGoto(r, "served", "returned")
    /\ UNCHANGED <<cancelled, observer, reaper, handler, channel>>

-----------------------------------------------------------------------------
(* The goroutines around a run.                                            *)

ContextCancelled(r) ==
    /\ ~cancelled[r]
    /\ cancelled' = [cancelled EXCEPT ![r] = TRUE]
    /\ UNCHANGED <<serve, observer, reaper, handler, channel>>

WatcherCloses(r) ==
    /\ observer[r] = "waiting" /\ cancelled[r]
    /\ observer' = [observer EXCEPT ![r] = "ended"]
    /\ CloseChannel
    /\ UNCHANGED <<serve, cancelled, reaper, handler>>

\* Someone else closed the channel, or the run is over. A plausible slip: the
\* watcher leaves as soon as the reaper is there to take over.
WatcherLeaves_Early(r) ==
    /\ observer[r] = "waiting" /\ reaper[r] = "waiting"
    /\ observer' = [observer EXCEPT ![r] = "ended"]
    /\ UNCHANGED <<serve, cancelled, reaper, handler, channel>>

WatcherLeaves(r) ==
    /\ observer[r] = "waiting" /\ (shutdownCh = "closed" \/ serve[r] = "returned")
    /\ observer' = [observer EXCEPT ![r] = "ended"]
    /\ UNCHANGED <<serve, cancelled, reaper, handler, channel>>

ReaperStops(r) ==
    /\ reaper[r] = "waiting" /\ shutdownCh = "closed"
    /\ reaper' = [reaper EXCEPT ![r] = "stopped"]
    /\ UNCHANGED <<serve, cancelled, observer, handler, channel>>

SetupGracefulShutdown(h) ==
    /\ handler[h] = "off"
    /\ handler' = [handler EXCEPT ![h] = "armed"]
    /\ UNCHANGED <<serve, cancelled, observer, reaper, channel>>

\* SIGTERM or SIGINT; without an armed handler the process would end.
SignalArrives ==
    /\ \E h \in Handlers : handler[h] = "armed"
    /\ handler' = [h \in Handlers |-> IF handler[h] = "armed" THEN "woken" ELSE handler[h]]
    /\ UNCHANGED <<serve, cancelled, observer, reaper, channel>>

HandlerCloses(h) ==
    /\ handler[h] = "woken"
    /\ handler' = [handler EXCEPT ![h] = "ended"]
    /\ CloseChannel
    /\ UNCHANGED <<serve, cancelled, observer, reaper>>

-----------------------------------------------------------------------------
ServeStep(r) == \/ ServeStartsWatcher(r) \/ ServeStartsReaper(r) \/ ServeListens(r)
                \/ ServeFails(r) \/ ServeCloses(r) \/ ServeReturns(r)
Background(r) == WatcherCloses(r) \/ WatcherLeaves(r) \/ ReaperStops(r)

AgentRunNext ==
    \/ \E r \in Serves : ServeEnters(r) \/ ServeStep(r) \/ Background(r) \/ ContextCancelled(r)
    \/ \E h \in Handlers : SetupGracefulShutdown(h) \/ HandlerCloses(h)
    \/ SignalArrives

AgentRunSpec == AgentRunInit /\ [][AgentRunNext]_agentRunVars

\* The goroutines go on; a select that is ready in two ways takes one of them.
AgentRunFairness ==
    /\ \A r \in Serves : /\ WF_agentRunVars(ServeStep(r))
                         /\ WF_agentRunVars(WatcherCloses(r) \/ WatcherLeaves(r))
                         /\ WF_agentRunVars(ReaperStops(r))
    /\ \A h \in Handlers : WF_agentRunVars(HandlerCloses(h))

-----------------------------------------------------------------------------
AgentRunTypeOK ==
    /\ serve \in [Serves -> {"idle", "entered", "watched", "ready", "listening", "served", "returned"}]
    /\ cancelled \in [Serves -> BOOLEAN]
    /\ observer \in [Serves -> {"off", "waiting", "ended"}]
    /\ reaper \in [Serves -> {"off", "waiting", "stopped"}]
    /\ handler \in [Handlers -> {"off", "armed", "woken", "ended"}]
    /\ shutdownCh \in {"nil", "open", "closed"} /\ closes \in Nat

\* However cancellations and signals coincide the channel is closed once: a
\* second close panics.
ChannelClosedOnce == closes <= 1

\* A run ends when its context is cancelled, or when a signal comes after
\* RunContext has made the channel, whoever else is closing it or has closed it.
AskedToEnd(r) == cancelled[r] \/ \E h \in Handlers : handler[h] = "woken"
AskedRunEnds ==
    \A r \in Serves : AskedToEnd(r) /\ serve[r] \notin {"idle", "returned"} ~> serve[r] = "returned"
=============================================================================
