--------------------------- MODULE RelayConnection ---------------------------
(***************************************************************************)
(* The connection life cycle of pkg/relay/client.go: RunContext, connect,  *)
(* authenticate, the read loop and the reconnect() it turns into, the ping *)
(* watchdog, the watcher that bridges the caller's context, and Stop().    *)
(* Every goroutine has its own program counter; an access to a shared      *)
(* field (conn under c.mu, running, connected, the context) that another   *)
(* goroutine can come in front of is a step of its own.                    *)
(* Requests and events are modelled in RelayRpc and RelayCalls.            *)
(***************************************************************************)
EXTENDS Naturals, FiniteSets

CONSTANTS MaxConns,          \* bound: sockets dialled, and so read loops, in one behaviour
          MaxPingFailures,   \* Client.maxPingFailures
          ReconnectBackoff,  \* Client.reconnectBackoff, in seconds
          MaxBackoff,        \* Client.maxBackoff, in seconds
          HasContexts,       \* WithContexts was given: subscribeContexts sends a request
          PingWatchdog,      \* pingInterval > 0
          PeersFallSilent    \* a peer may stop answering without closing (half-open)

ASSUME MaxConnsAssumption == MaxConns \in Nat \ {0}
ASSUME MaxPingFailuresAssumption == MaxPingFailures \in Nat \ {0}
ASSUME BackoffAssumption == /\ ReconnectBackoff \in Nat \ {0}
                            /\ MaxBackoff \in Nat /\ ReconnectBackoff <= MaxBackoff
ASSUME FlagsAssumption == {HasContexts, PingWatchdog, PeersFallSilent} \subseteq BOOLEAN

Sockets == 1..MaxConns
Readers == 1..MaxConns      \* each reconnect() starts at most one further read loop
Stoppers == {"user", "watcher"}

VARIABLES
    conn,       \* Client.conn: the current socket, 0 for nil
    sock,       \* each socket: not dialled, live, half-open, lost, or closed by us
    dialled,    \* how many sockets have been dialled
    running, connected,   \* the two atomics
    cancelled,  \* Client.ctx is done
    callerDone, \* the context given to RunContext is done
    run,        \* program counter of RunContext
    subscribed, \* history: RunContext got past subscribeContexts
    rpc,        \* program counter of each read-loop goroutine
    rsock,      \* the socket that goroutine reads, or has just dialled
    backoff,    \* the local of reconnect()
    wd, failures, wdStop, \* watchdogLoop: counter, its failures, its stop channel
    wdSock,     \* the socket the watchdog is about to close
    stop,       \* program counter of each Stop() call
    stopSock    \* the socket captured by that call

shared == <<conn, sock, dialled, running, connected, cancelled>>
runVars == <<run, subscribed, callerDone>>
readerVars == <<rpc, rsock, backoff>>
watchdogVars == <<wd, failures, wdStop, wdSock>>
stopVars == <<stop, stopSock>>
vars == <<shared, runVars, readerVars, watchdogVars, stopVars>>

Init ==
    /\ conn = 0 /\ dialled = 0
    /\ sock = [s \in Sockets |-> "none"]
    /\ running = FALSE /\ connected = FALSE /\ cancelled = FALSE
    /\ run = "check" /\ subscribed = FALSE /\ callerDone = FALSE
    /\ rpc = [i \in Readers |-> "none"]
    /\ rsock = [i \in Readers |-> 0]
    /\ backoff = ReconnectBackoff
    /\ wd = "off" /\ failures = 0 /\ wdStop = FALSE /\ wdSock = 0
    /\ stop = [p \in Stoppers |-> "idle"]
    /\ stopSock = [p \in Stoppers |-> 0]

\* What the peer does to a request or a read on socket s (s = 0: no socket).
Answers(s) == s # 0 /\ sock[s] = "live"
Fails(s) == s = 0 \/ sock[s] \in {"lost", "closed"}

\* A read loop that can hand responses to their callers.
LoopAlive == \E i \in Readers : rpc[i] \in {"top", "read"}

-----------------------------------------------------------------------------
(* connect() and authenticate(), shared by RunContext and reconnect()      *)

\* DialContext(c.ctx) succeeds with a fresh socket.
DialOk ==
    /\ dialled < MaxConns /\ ~cancelled
    /\ dialled' = dialled + 1
    /\ sock' = [sock EXCEPT ![dialled + 1] = "live"]
    /\ UNCHANGED <<conn, running, connected, cancelled>>

\* c.conn = conn, under the lock
StoreConn(s) ==
    /\ conn' = s
    /\ UNCHANGED <<sock, dialled, running, connected, cancelled>>

\* c.connected.Store(true)
MarkConnected ==
    /\ connected' = TRUE
    /\ UNCHANGED <<conn, sock, dialled, running, cancelled>>

\* The synchronous read of the signalwire.connect reply has no deadline: it ends
\* when the peer accepts, when it rejects, or when the socket fails.
AuthAccepted == Answers(conn)
AuthError == Answers(conn) \/ Fails(conn)

-----------------------------------------------------------------------------
(* RunContext                                                              *)

RunGoto(p) == run' = p /\ UNCHANGED <<subscribed, callerDone>>

\* if err := ctx.Err(); err != nil { return err }
RunChecksContext ==
    /\ run = "check"
    /\ RunGoto(IF callerDone THEN "returned" ELSE "connect")
    /\ UNCHANGED <<shared, readerVars, watchdogVars, stopVars>>

RunDials ==
    /\ run = "connect"
    /\ \/ DialOk /\ RunGoto("store")
       \/ RunGoto("returned") /\ UNCHANGED shared
    /\ UNCHANGED <<readerVars, watchdogVars, stopVars>>

RunStoresConn ==
    /\ run = "store"
    /\ StoreConn(dialled) /\ RunGoto("mark")
    /\ UNCHANGED <<readerVars, watchdogVars, stopVars>>

RunMarksConnected ==
    /\ run = "mark"
    /\ MarkConnected /\ RunGoto("auth")
    /\ UNCHANGED <<readerVars, watchdogVars, stopVars>>

RunAuthenticates ==
    /\ run = "auth"
    /\ \/ AuthAccepted /\ RunGoto("start")
       \/ AuthError /\ RunGoto("returned")
    /\ UNCHANGED <<shared, readerVars, watchdogVars, stopVars>>

\* running.Store(true), whatever Stop() did meanwhile; go readLoop.
RunStartsReadLoop ==
    /\ run = "start"
    /\ RunGoto("watchdog")
    /\ running' = TRUE
    /\ rpc' = [rpc EXCEPT ![1] = "top"]
    /\ UNCHANGED <<conn, sock, dialled, connected, cancelled, rsock, backoff,
                   watchdogVars, stopVars>>

\* startWatchdog(), with a fresh stop channel
RunStartsWatchdog ==
    /\ run = "watchdog"
    /\ RunGoto("subscribe")
    /\ wd' = IF PingWatchdog THEN "tick" ELSE "off"
    /\ wdStop' = FALSE
    /\ UNCHANGED <<shared, readerVars, failures, wdSock, stopVars>>

\* subscribeContexts(): nothing to send, or a request answered through a read loop.
RunSubscribes ==
    /\ run = "subscribe"
    /\ ~HasContexts \/ (Answers(conn) /\ LoopAlive)
    /\ run' = "bridge" /\ subscribed' = TRUE
    /\ UNCHANGED <<shared, callerDone, readerVars, watchdogVars, stopVars>>

\* A refused, timed-out or cancelled subscribe: running.Store(false), c.cancel().
RunSubscribeFails ==
    /\ run = "subscribe" /\ HasContexts
    /\ RunGoto("drain")
    /\ running' = FALSE /\ cancelled' = TRUE
    /\ UNCHANGED <<conn, sock, dialled, connected, readerVars, watchdogVars, stopVars>>

\* Start the goroutine that turns the caller's cancellation into Stop().
RunStartsWatcher ==
    /\ run = "bridge"
    /\ RunGoto("wait")
    /\ stop' = [stop EXCEPT !["watcher"] = "watch"]
    /\ UNCHANGED <<shared, readerVars, watchdogVars, stopSock>>

\* <-done: closed when the goroutine of the FIRST read loop returns; watcherDone
\* is closed on the way out.
RunReturns ==
    /\ run \in {"wait", "drain"}
    /\ rpc[1] = "exit"
    /\ RunGoto("returned")
    /\ UNCHANGED <<shared, readerVars, watchdogVars, stopVars>>

-----------------------------------------------------------------------------
(* readLoop() and reconnect(), on the goroutine of reader i                *)

ReaderGoto(i, p) == rpc' = [rpc EXCEPT ![i] = p] /\ UNCHANGED <<rsock, backoff>>

\* Top of the loop: leave if the client's context is done, else take c.conn.
LoopTop(i) ==
    /\ rpc[i] = "top"
    /\ IF cancelled \/ conn = 0
       THEN ReaderGoto(i, "exit")
       ELSE /\ rpc' = [rpc EXCEPT ![i] = "read"]
            /\ rsock' = [rsock EXCEPT ![i] = conn]
            /\ UNCHANGED backoff
    /\ UNCHANGED <<shared, runVars, watchdogVars, stopVars>>

\* ReadMessage returns a frame, which is handled before the next iteration.
LoopReads(i) ==
    /\ rpc[i] = "read" /\ Answers(rsock[i])
    /\ ReaderGoto(i, "top")
    /\ UNCHANGED <<shared, runVars, watchdogVars, stopVars>>

\* ReadMessage fails: return when not running, else reconnect().
LoopReadError(i) ==
    /\ rpc[i] = "read" /\ Fails(rsock[i])
    /\ IF running
       THEN /\ rpc' = [rpc EXCEPT ![i] = "retry"]
            /\ backoff' = ReconnectBackoff
            /\ UNCHANGED rsock
       ELSE ReaderGoto(i, "exit")
    /\ UNCHANGED <<shared, runVars, watchdogVars, stopVars>>

\* Variation: for { ... } without looking at running or the context.
ReconnectWaits_IgnoresStop(i) ==
    /\ rpc[i] = "retry"
    /\ ReaderGoto(i, "sleep")
    /\ UNCHANGED <<shared, runVars, watchdogVars, stopVars>>

\* for c.running.Load() { select on the backoff timer and ctx.Done: a context
\* that is done already ends it at once, the timer is not yet ready.
ReconnectWaits(i) ==
    /\ rpc[i] = "retry"
    /\ ReaderGoto(i, IF ~running \/ cancelled THEN "exit" ELSE "sleep")
    /\ UNCHANGED <<shared, runVars, watchdogVars, stopVars>>

\* The timer fires, or the context is done; either may win when both are ready.
ReconnectWakes(i) ==
    /\ rpc[i] = "sleep"
    /\ \/ cancelled /\ ReaderGoto(i, "exit")
       \/ ReaderGoto(i, "dial")
    /\ UNCHANGED <<shared, runVars, watchdogVars, stopVars>>

\* backoff *= 2, capped
BackOff(i) ==
    /\ rpc' = [rpc EXCEPT ![i] = "retry"]
    /\ backoff' = IF backoff * 2 > MaxBackoff THEN MaxBackoff ELSE backoff * 2
    /\ UNCHANGED rsock

ReconnectDials(i) ==
    /\ rpc[i] = "dial"
    /\ DialOk
    /\ rpc' = [rpc EXCEPT ![i] = "store"]
    /\ rsock' = [rsock EXCEPT ![i] = dialled + 1]
    /\ UNCHANGED <<backoff, runVars, watchdogVars, stopVars>>

\* Variation: a failed dial ends the reconnection.
ReconnectDialFails_GivesUp(i) ==
    /\ rpc[i] = "dial"
    /\ ReaderGoto(i, "exit")
    /\ UNCHANGED <<shared, runVars, watchdogVars, stopVars>>

ReconnectDialFails(i) ==
    /\ rpc[i] = "dial"
    /\ BackOff(i)
    /\ UNCHANGED <<shared, runVars, watchdogVars, stopVars>>

ReconnectStoresConn(i) ==
    /\ rpc[i] = "store"
    /\ StoreConn(rsock[i]) /\ ReaderGoto(i, "mark")
    /\ UNCHANGED <<runVars, watchdogVars, stopVars>>

ReconnectMarksConnected(i) ==
    /\ rpc[i] = "mark"
    /\ MarkConnected /\ ReaderGoto(i, "auth")
    /\ UNCHANGED <<runVars, watchdogVars, stopVars>>

ReconnectAuthenticates(i) ==
    /\ rpc[i] = "auth"
    /\ \/ AuthAccepted /\ ReaderGoto(i, "subscribe")
       \/ AuthError /\ BackOff(i)
    /\ UNCHANGED <<shared, runVars, watchdogVars, stopVars>>

\* Variation: reconnect() starts a read loop and its caller goes on reading too.
ReconnectResubscribes_KeepsReading(i) ==
    /\ rpc[i] = "subscribe" /\ i < MaxConns
    /\ rpc' = [rpc EXCEPT ![i] = "top", ![i + 1] = "top"]
    /\ UNCHANGED <<shared, runVars, rsock, backoff, watchdogVars, stopVars>>

\* subscribeContexts() again, then go c.readLoop() and return. With contexts, the
\* request can only be answered through a read loop; otherwise it fails by its
\* timer, a write error or the context, and the failure is only logged.
ReconnectResubscribes(i) ==
    /\ rpc[i] = "subscribe" /\ i < MaxConns
    /\ rpc' = [rpc EXCEPT ![i] = "exit", ![i + 1] = "top"]
    /\ UNCHANGED <<shared, runVars, rsock, backoff, watchdogVars, stopVars>>

-----------------------------------------------------------------------------
(* watchdogLoop and pingPeer                                               *)

WatchdogTicks ==
    /\ wd = "tick"
    /\ wd' = IF wdStop \/ cancelled \/ ~running THEN "exit" ELSE "ping"
    /\ UNCHANGED <<shared, runVars, readerVars, failures, wdStop, wdSock, stopVars>>

PingAnswered ==
    /\ wd = "ping" /\ Answers(conn) /\ LoopAlive
    /\ wd' = "tick" /\ failures' = 0
    /\ UNCHANGED <<shared, runVars, readerVars, wdStop, wdSock, stopVars>>

\* Variation: the failures are not counted from one ping to the next.
PingMissed_Forgets ==
    /\ wd = "ping"
    /\ failures' = 1
    /\ wd' = IF 1 >= MaxPingFailures THEN "halfOpen" ELSE "tick"
    /\ UNCHANGED <<shared, runVars, readerVars, wdStop, wdSock, stopVars>>

\* A write error, the ping timer, or the context; the threshold declares the peer
\* half-open.
PingMissed ==
    /\ wd = "ping"
    /\ failures' = failures + 1
    /\ wd' = IF failures + 1 >= MaxPingFailures THEN "halfOpen" ELSE "tick"
    /\ UNCHANGED <<shared, runVars, readerVars, wdStop, wdSock, stopVars>>

\* connected.Store(false)
WatchdogMarksDown ==
    /\ wd = "halfOpen"
    /\ connected' = FALSE
    /\ wd' = "capture"
    /\ UNCHANGED <<conn, sock, dialled, running, cancelled, runVars, readerVars,
                   failures, wdStop, wdSock, stopVars>>

\* conn := c.conn, under the lock
WatchdogCapturesConn ==
    /\ wd = "capture"
    /\ wd' = "close" /\ wdSock' = conn
    /\ UNCHANGED <<shared, runVars, readerVars, failures, wdStop, stopVars>>

CloseSocket(s) == sock' = IF s = 0 THEN sock ELSE [sock EXCEPT ![s] = "closed"]

\* Variation: the watchdog also clears c.conn.
WatchdogCloses_ClearsConn ==
    /\ wd = "close"
    /\ CloseSocket(wdSock) /\ conn' = 0
    /\ wd' = "exit"
    /\ UNCHANGED <<dialled, running, connected, cancelled, runVars, readerVars,
                   failures, wdStop, wdSock, stopVars>>

\* conn.Close(), and the goroutine returns.
WatchdogCloses ==
    /\ wd = "close"
    /\ CloseSocket(wdSock)
    /\ wd' = "exit"
    /\ UNCHANGED <<conn, dialled, running, connected, cancelled, runVars, readerVars,
                   failures, wdStop, wdSock, stopVars>>

-----------------------------------------------------------------------------
(* Stop(), called by the user or by RunContext's watcher                   *)

StopGoto(p, q) == stop' = [stop EXCEPT ![p] = q]

UserCallsStop ==
    /\ stop["user"] = "idle"
    /\ StopGoto("user", "flag")
    /\ UNCHANGED <<shared, runVars, readerVars, watchdogVars, stopSock>>

CallerCancels ==
    /\ ~callerDone
    /\ callerDone' = TRUE
    /\ UNCHANGED <<shared, run, subscribed, readerVars, watchdogVars, stopVars>>

\* The watcher's select: Stop() on the caller's context, exit on the others.
WatcherWakes ==
    /\ stop["watcher"] = "watch"
    /\ \/ callerDone /\ StopGoto("watcher", "flag")
       \/ (cancelled \/ run = "returned") /\ StopGoto("watcher", "done")
    /\ UNCHANGED <<shared, runVars, readerVars, watchdogVars, stopSock>>

\* running.Store(false)
StopClearsRunning(p) ==
    /\ stop[p] = "flag"
    /\ running' = FALSE
    /\ StopGoto(p, "cancel")
    /\ UNCHANGED <<conn, sock, dialled, connected, cancelled, runVars, readerVars,
                   watchdogVars, stopSock>>

\* c.cancel()
StopCancels(p) ==
    /\ stop[p] = "cancel"
    /\ cancelled' = TRUE
    /\ StopGoto(p, "capture")
    /\ UNCHANGED <<conn, sock, dialled, running, connected, runVars, readerVars,
                   watchdogVars, stopSock>>

\* conn := c.conn and the close frame, under the lock
StopCaptures(p) ==
    /\ stop[p] = "capture"
    /\ stopSock' = [stopSock EXCEPT ![p] = conn]
    /\ StopGoto(p, "close")
    /\ UNCHANGED <<shared, runVars, readerVars, watchdogVars>>

StopCloses(p) ==
    /\ stop[p] = "close"
    /\ CloseSocket(stopSock[p])
    /\ StopGoto(p, "unmark")
    /\ UNCHANGED <<conn, dialled, running, connected, cancelled, runVars, readerVars,
                   watchdogVars, stopSock>>

\* connected.Store(false), stopWatchdog()
StopUnmarks(p) ==
    /\ stop[p] = "unmark"
    /\ connected' = FALSE
    /\ wdStop' = TRUE
    /\ StopGoto(p, "done")
    /\ UNCHANGED <<conn, sock, dialled, running, cancelled, runVars, readerVars,
                   wd, failures, wdSock, stopSock>>

-----------------------------------------------------------------------------
(* The network and the peer                                                *)

\* The network or the peer drops the socket.
PeerDrops(s) ==
    /\ sock[s] \in {"live", "silent"}
    /\ sock' = [sock EXCEPT ![s] = "lost"]
    /\ UNCHANGED <<conn, dialled, running, connected, cancelled, runVars, readerVars,
                   watchdogVars, stopVars>>

\* The peer goes half-open: writes are accepted, nothing ever comes back.
PeerFallsSilent(s) ==
    /\ PeersFallSilent
    /\ sock[s] = "live"
    /\ sock' = [sock EXCEPT ![s] = "silent"]
    /\ UNCHANGED <<conn, dialled, running, connected, cancelled, runVars, readerVars,
                   watchdogVars, stopVars>>

-----------------------------------------------------------------------------
RunStep == \/ RunChecksContext \/ RunDials \/ RunStoresConn \/ RunMarksConnected
           \/ RunAuthenticates \/ RunStartsReadLoop \/ RunStartsWatchdog \/ RunSubscribes \/ RunSubscribeFails
           \/ RunStartsWatcher \/ RunReturns

\* The steps a read-loop goroutine takes without waiting for the peer to push a frame.
ReaderStep(i) == \/ LoopTop(i) \/ LoopReadError(i)
                 \/ ReconnectWaits(i) \/ ReconnectWakes(i)
                 \/ ReconnectDials(i) \/ ReconnectDialFails(i)
                 \/ ReconnectStoresConn(i) \/ ReconnectMarksConnected(i)
                 \/ ReconnectAuthenticates(i) \/ ReconnectResubscribes(i)

WatchdogStep == \/ WatchdogTicks \/ PingAnswered \/ PingMissed
                \/ WatchdogMarksDown \/ WatchdogCapturesConn \/ WatchdogCloses

StopStep(p) == \/ StopClearsRunning(p) \/ StopCancels(p) \/ StopCaptures(p)
               \/ StopCloses(p) \/ StopUnmarks(p)

Next == \/ RunStep
        \/ \E i \in Readers : ReaderStep(i) \/ LoopReads(i)
        \/ WatchdogStep
        \/ UserCallsStop \/ CallerCancels \/ WatcherWakes
        \/ \E p \in Stoppers : StopStep(p)
        \/ \E s \in Sockets : PeerDrops(s) \/ PeerFallsSilent(s)

Spec == Init /\ [][Next]_vars

\* The Go scheduler runs every goroutine that can move, and timers fire. Nothing
\* is assumed of the caller or the network; of a live peer only that it answers
\* the signalwire.connect request, not that it ever pushes a frame.
Fairness == /\ WF_vars(RunStep)
            /\ \A i \in Readers : WF_vars(ReaderStep(i))
            /\ WF_vars(WatchdogStep)
            /\ WF_vars(WatcherWakes)
            /\ \A p \in Stoppers : WF_vars(StopStep(p))

FairSpec == Spec /\ Fairness

\* In addition, a client that keeps dialling gets through in the end.
NetworkRecovers == \A i \in Readers : SF_vars(ReconnectDials(i))

-----------------------------------------------------------------------------
TypeOK ==
    /\ conn \in 0..MaxConns /\ dialled \in 0..MaxConns
    /\ sock \in [Sockets -> {"none", "live", "silent", "lost", "closed"}]
    /\ {running, connected, cancelled, callerDone, subscribed, wdStop} \subseteq BOOLEAN
    /\ run \in {"check", "connect", "store", "mark", "auth", "start", "watchdog",
                "subscribe", "bridge", "wait", "drain", "returned"}
    /\ rpc \in [Readers -> {"none", "top", "read", "retry", "sleep", "dial", "store",
                             "mark", "auth", "subscribe", "exit"}]
    /\ rsock \in [Readers -> 0..MaxConns]
    /\ backoff \in ReconnectBackoff..MaxBackoff
    /\ wd \in {"off", "tick", "ping", "halfOpen", "capture", "close", "exit"}
    /\ failures \in 0..MaxPingFailures
    /\ wdSock \in 0..MaxConns
    /\ stop \in [Stoppers -> {"idle", "watch", "flag", "cancel", "capture", "close",
                              "unmark", "done"}]
    /\ stopSock \in [Stoppers -> 0..MaxConns]

\* The goroutine of reader i exists.
Active(i) == rpc[i] \notin {"none", "exit"}

\* RunContext has not yet handed the connection to the read loop.
RunDrives == run \in {"check", "connect", "store", "mark", "auth", "start"}

\* One goroutine at a time dials, authenticates on and reads the connection:
\* RunContext before it starts the read loop, then the read loop or the
\* reconnect() it turned into. A WebSocket supports one concurrent reader, and
\* authenticate() reads c.conn directly on that assumption.
SingleDriver ==
    /\ \A i, j \in Readers : Active(i) /\ Active(j) => i = j
    /\ RunDrives => \A i \in Readers : rpc[i] = "none"

\* The read loop is never left reading a socket that is no longer Client.conn,
\* where it would miss every response and event.
ReadsCurrentConn == \A i \in Readers : rpc[i] = "read" => rsock[i] = conn

\* Every goroutine of the client is gone.
Quiet == /\ run = "returned"
         /\ \A i \in Readers : ~Active(i)
         /\ wd \in {"off", "exit"}
         /\ stop["watcher"] \in {"idle", "done"}

\* Stop() ends RunContext, every read loop, reconnect, the watchdog and the
\* watcher, whatever they were doing, unless a peer falls silent (authenticate()
\* reads without a deadline from a socket dialled behind Stop's back).
StopEndsEveryGoroutine ==
    stop["user"] = "done" ~> Quiet \/ \E s \in Sockets : sock[s] = "silent"

\* If dialling succeeds in the end, a lost connection is replaced by one with a read
\* loop on it (or the client is stopped): reconnect() does not give up, whatever
\* its dials and authentications run into. Bounded by the sockets of the model.
LostConnectionIsReplaced == NetworkRecovers => \A i \in Readers :
    rpc[i] = "retry" ~> \/ \E j \in Readers : j > i /\ rpc[j] = "read"
                        \/ cancelled \/ dialled = MaxConns

\* The client's current socket is half-open.
HalfOpen == conn # 0 /\ sock[conn] = "silent"

\* While the watchdog runs, the client is not left on a half-open socket: the
\* silence is detected and the socket closed, unless the watchdog's one close went
\* to a socket the client has left meanwhile. Only Client.conn is watched: a socket
\* that reconnect() dialled and left, its authentication rejected, is never closed.
HalfOpenDetected ==
    wd \in {"tick", "ping"} /\ HalfOpen ~> ~HalfOpen \/ wdSock \notin {0, conn} \/ cancelled

-----------------------------------------------------------------------------
(* What the comments of client.go say of the life cycle, as properties.    *)

\* RunContext "blocks until Stop is called or the context is cancelled".
RunBlocksUntilStop ==
    run = "returned" /\ subscribed => callerDone \/ stop["user"] # "idle"
=============================================================================
