----------------------- MODULE RelayConnectionProofs ------------------------
(***************************************************************************)
(* Proofs about RelayConnection for any number of sockets and read loops,  *)
(* any ping threshold and any backoff.                                     *)
(***************************************************************************)
EXTENDS RelayConnection, TLAPS

\* The goroutine of a read loop is started once, by RunContext or by the reader
\* before it: behind the one that is active none has been started yet.
NextReaderIsFresh == \A i, j \in Readers : Active(i) /\ i < j => rpc[j] = "none"

\* The watchdog is started once too, and declares the peer half-open with the
\* miss that reaches the threshold: its counter stays below it until then.
WatchdogCounts ==
    /\ RunDrives \/ run = "watchdog" => wd = "off"
    /\ wd \in {"off", "tick", "ping"} => failures < MaxPingFailures

DriverInv == NextReaderIsFresh /\ SingleDriver /\ ReadsCurrentConn

ConnectionInv == TypeOK /\ WatchdogCounts /\ DriverInv

-----------------------------------------------------------------------------
(* Types and the watchdog                                                  *)

\* What connect() and authenticate() do to the fields of the client.
LEMMA DialTypes ==
    ASSUME TypeOK, DialOk
    PROVE  /\ dialled' \in 0..MaxConns /\ dialled + 1 \in Sockets
           /\ sock' \in [Sockets -> {"none", "live", "silent", "lost", "closed"}]
  BY MaxConnsAssumption DEF TypeOK, DialOk, Sockets

\* Closing a socket, or none, keeps the type of the sockets.
LEMMA CloseTypes ==
    ASSUME TypeOK, NEW s \in 0..MaxConns, CloseSocket(s)
    PROVE  sock' \in [Sockets -> {"none", "live", "silent", "lost", "closed"}]
  BY MaxConnsAssumption DEF TypeOK, CloseSocket, Sockets

\* The doubled backoff stays within its cap.
LEMMA BackOffTypes ==
    ASSUME TypeOK, NEW i \in Readers, BackOff(i)
    PROVE  backoff' \in ReconnectBackoff..MaxBackoff
  BY BackoffAssumption DEF TypeOK, BackOff

\* The steps of RunContext keep the types and the place of the watchdog.
LEMMA RunTypes ==
    ASSUME TypeOK, WatchdogCounts, RunStep
    PROVE  TypeOK' /\ WatchdogCounts'
<1> USE DEF RunGoto, shared, runVars, readerVars, watchdogVars, stopVars, RunDrives, WatchdogCounts
<1>1. CASE RunChecksContext
  BY <1>1 DEF RunChecksContext, TypeOK
<1>2. CASE RunDials
  <2>1. CASE DialOk /\ RunGoto("store")
    BY <1>2, <2>1, DialTypes DEF RunDials, DialOk, TypeOK
  <2>2. CASE RunGoto("returned") /\ UNCHANGED shared
    BY <1>2, <2>2 DEF RunDials, TypeOK
  <2>3. QED
    BY <1>2, <2>1, <2>2 DEF RunDials
<1>3. CASE RunStoresConn
  BY <1>3 DEF RunStoresConn, StoreConn, TypeOK
<1>4. CASE RunMarksConnected
  BY <1>4 DEF RunMarksConnected, MarkConnected, TypeOK
<1>5. CASE RunAuthenticates
  BY <1>5 DEF RunAuthenticates, TypeOK
<1>6. CASE RunStartsReadLoop
  BY <1>6, MaxConnsAssumption DEF RunStartsReadLoop, TypeOK, Readers
<1>7. CASE RunStartsWatchdog
  BY <1>7 DEF RunStartsWatchdog, TypeOK
<1>8. CASE RunSubscribes
  BY <1>8 DEF RunSubscribes, TypeOK
<1>9. CASE RunSubscribeFails
  BY <1>9 DEF RunSubscribeFails, TypeOK
<1>10. CASE RunStartsWatcher
  BY <1>10 DEF RunStartsWatcher, TypeOK, Stoppers
<1>11. CASE RunReturns
  BY <1>11 DEF RunReturns, TypeOK
<1>12. QED
  BY <1>1, <1>2, <1>3, <1>4, <1>5, <1>6, <1>7, <1>8, <1>9, <1>10, <1>11 DEF RunStep

\* The steps of a read loop and of the reconnect() it turns into.
LEMMA ReaderTypes ==
    ASSUME TypeOK, WatchdogCounts, NEW i \in Readers, ReaderStep(i) \/ LoopReads(i)
    PROVE  TypeOK' /\ WatchdogCounts'
<1>0. UNCHANGED <<runVars, watchdogVars, stopVars>>
  BY DEF ReaderStep, LoopReads, LoopTop, LoopReadError, ReconnectWaits, ReconnectWakes,
         ReconnectDials, ReconnectDialFails, ReconnectStoresConn, ReconnectMarksConnected,
         ReconnectAuthenticates, ReconnectResubscribes
<1>w. WatchdogCounts'
  BY <1>0 DEF WatchdogCounts, RunDrives, runVars, watchdogVars
<1> USE <1>0, <1>w DEF ReaderGoto, shared, runVars, watchdogVars, stopVars
<1>1. CASE LoopTop(i)
  BY <1>1 DEF LoopTop, TypeOK
<1>2. CASE LoopReads(i)
  BY <1>2 DEF LoopReads, TypeOK
<1>3. CASE LoopReadError(i)
  BY <1>3, BackoffAssumption DEF LoopReadError, TypeOK
<1>4. CASE ReconnectWaits(i)
  BY <1>4 DEF ReconnectWaits, TypeOK
<1>5. CASE ReconnectWakes(i)
  BY <1>5 DEF ReconnectWakes, TypeOK
<1>6. CASE ReconnectDials(i)
  BY <1>6, DialTypes, MaxConnsAssumption DEF ReconnectDials, DialOk, TypeOK, Sockets
<1>7. CASE ReconnectDialFails(i)
  BY <1>7, BackOffTypes DEF ReconnectDialFails, BackOff, TypeOK
<1>8. CASE ReconnectStoresConn(i)
  BY <1>8 DEF ReconnectStoresConn, StoreConn, TypeOK
<1>9. CASE ReconnectMarksConnected(i)
  BY <1>9 DEF ReconnectMarksConnected, MarkConnected, TypeOK
<1>10. CASE ReconnectAuthenticates(i)
  <2>1. CASE ReaderGoto(i, "subscribe")
    BY <1>10, <2>1 DEF ReconnectAuthenticates, TypeOK
  <2>2. CASE BackOff(i)
    BY <1>10, <2>2, BackOffTypes DEF ReconnectAuthenticates, BackOff, TypeOK
  <2>3. QED
    BY <1>10, <2>1, <2>2 DEF ReconnectAuthenticates
<1>11. CASE ReconnectResubscribes(i)
  BY <1>11 DEF ReconnectResubscribes, TypeOK
<1>12. QED
  BY <1>1, <1>2, <1>3, <1>4, <1>5, <1>6, <1>7, <1>8, <1>9, <1>10, <1>11 DEF ReaderStep

\* The steps of the watchdog, and that its counter does not pass the threshold.
LEMMA WatchdogTypes ==
    ASSUME TypeOK, WatchdogCounts, WatchdogStep
    PROVE  TypeOK' /\ WatchdogCounts'
<1> USE DEF shared, runVars, readerVars, stopVars
<1>0. UNCHANGED run /\ ~(RunDrives \/ run = "watchdog")
  BY DEF WatchdogStep, WatchdogTicks, PingAnswered, PingMissed, WatchdogMarksDown,
         WatchdogCapturesConn, WatchdogCloses, WatchdogCounts
<1>1. CASE WatchdogTicks
  BY <1>0, <1>1 DEF WatchdogTicks, TypeOK, WatchdogCounts, RunDrives
<1>2. CASE PingAnswered
  BY <1>0, <1>2, MaxPingFailuresAssumption DEF PingAnswered, TypeOK, WatchdogCounts, RunDrives
<1>3. CASE PingMissed
  BY <1>0, <1>3, MaxPingFailuresAssumption DEF PingMissed, TypeOK, WatchdogCounts, RunDrives
<1>4. CASE WatchdogMarksDown
  BY <1>0, <1>4 DEF WatchdogMarksDown, TypeOK, WatchdogCounts, RunDrives
<1>5. CASE WatchdogCapturesConn
  BY <1>0, <1>5 DEF WatchdogCapturesConn, TypeOK, WatchdogCounts, RunDrives
<1>6. CASE WatchdogCloses
  <2>1. sock' \in [Sockets -> {"none", "live", "silent", "lost", "closed"}]
    BY <1>6, CloseTypes DEF WatchdogCloses, TypeOK
  <2>2. QED
    BY <1>0, <1>6, <2>1 DEF WatchdogCloses, TypeOK, WatchdogCounts, RunDrives
<1>7. QED
  BY <1>1, <1>2, <1>3, <1>4, <1>5, <1>6 DEF WatchdogStep

\* The steps of Stop() and of those who call it.
LEMMA StopTypes ==
    ASSUME TypeOK, WatchdogCounts,
           \/ UserCallsStop \/ CallerCancels \/ WatcherWakes \/ \E p \in Stoppers : StopStep(p)
    PROVE  TypeOK' /\ WatchdogCounts'
<1> USE DEF StopGoto, shared, runVars, readerVars, watchdogVars, stopVars, WatchdogCounts,
            RunDrives, Stoppers
<1>1. CASE UserCallsStop
  BY <1>1 DEF UserCallsStop, TypeOK
<1>2. CASE CallerCancels
  BY <1>2 DEF CallerCancels, TypeOK
<1>3. CASE WatcherWakes
  BY <1>3 DEF WatcherWakes, TypeOK
<1>4. ASSUME NEW p \in Stoppers, StopStep(p) PROVE TypeOK' /\ WatchdogCounts'
  <2>1. CASE StopClearsRunning(p)
    BY <2>1 DEF StopClearsRunning, TypeOK
  <2>2. CASE StopCancels(p)
    BY <2>2 DEF StopCancels, TypeOK
  <2>3. CASE StopCaptures(p)
    BY <2>3 DEF StopCaptures, TypeOK
  <2>4. CASE StopCloses(p)
    <3>1. sock' \in [Sockets -> {"none", "live", "silent", "lost", "closed"}]
      BY <2>4, CloseTypes DEF StopCloses, TypeOK
    <3>2. QED
      BY <2>4, <3>1 DEF StopCloses, TypeOK
  <2>5. CASE StopUnmarks(p)
    BY <2>5 DEF StopUnmarks, TypeOK
  <2>6. QED
    BY <1>4, <2>1, <2>2, <2>3, <2>4, <2>5 DEF StopStep
<1>5. QED
  BY <1>1, <1>2, <1>3, <1>4

\* Every variable of the connection keeps its type, for any number of sockets,
\* and the watchdog's counter does not pass its threshold.
THEOREM ConnectionTypes == Spec => [](TypeOK /\ WatchdogCounts)
<1>1. Init => TypeOK /\ WatchdogCounts
  <2> SUFFICES ASSUME Init PROVE TypeOK /\ WatchdogCounts
    OBVIOUS
  <2>1. 0 \in 0..MaxConns /\ 0 \in 0..MaxPingFailures /\ 0 < MaxPingFailures
    BY MaxConnsAssumption, MaxPingFailuresAssumption
  <2>2. backoff \in ReconnectBackoff..MaxBackoff
    BY BackoffAssumption DEF Init
  <2>3. QED
    BY <2>1, <2>2 DEF Init, TypeOK, WatchdogCounts, RunDrives
<1>2. TypeOK /\ WatchdogCounts /\ [Next]_vars => TypeOK' /\ WatchdogCounts'
  <2> SUFFICES ASSUME TypeOK, WatchdogCounts, [Next]_vars PROVE TypeOK' /\ WatchdogCounts'
    OBVIOUS
  <2>1. ASSUME NEW s \in Sockets, PeerDrops(s) \/ PeerFallsSilent(s)
        PROVE  TypeOK' /\ WatchdogCounts'
    BY <2>1 DEF PeerDrops, PeerFallsSilent, TypeOK, WatchdogCounts, RunDrives, runVars,
                readerVars, watchdogVars, stopVars
  <2>2. CASE UNCHANGED vars
    BY <2>2 DEF vars, shared, runVars, readerVars, watchdogVars, stopVars, TypeOK,
                WatchdogCounts, RunDrives
  <2>3. QED
    BY <2>1, <2>2, RunTypes, ReaderTypes, WatchdogTypes, StopTypes DEF Next
<1>3. QED
  BY <1>1, <1>2, PTL DEF Spec

-----------------------------------------------------------------------------
(* Who drives the connection                                               *)

\* The active reader may go anywhere but back into its read, and may replace the
\* connection and its own socket as it does: nobody else reads meanwhile.
LEMMA DriverMovesOn ==
    ASSUME TypeOK, DriverInv, NEW i \in Readers, Active(i), run' = run,
           NEW p, p \notin {"none", "read"}, rpc' = [rpc EXCEPT ![i] = p]
    PROVE  DriverInv'
<1>1. rpc'[i] = p /\ \A j \in Readers : j # i => rpc'[j] = rpc[j]
  BY DEF TypeOK
<1>2. \A j \in Readers : Active(j)' => Active(j)
  BY <1>1 DEF Active
<1>3. \A j \in Readers : rpc[j] = "none" => rpc'[j] = "none"
  BY <1>1 DEF Active
<1>4. NextReaderIsFresh'
  BY <1>2, <1>3 DEF DriverInv, NextReaderIsFresh
<1>5. SingleDriver'
  BY <1>2, <1>3 DEF DriverInv, SingleDriver, RunDrives
<1>6. ReadsCurrentConn'
  BY <1>1 DEF DriverInv, SingleDriver, ReadsCurrentConn, Active
<1>7. QED
  BY <1>4, <1>5, <1>6 DEF DriverInv

\* A step that touches neither the readers nor Client.conn, and does not bring
\* RunContext back to the connection.
LEMMA OthersLeaveTheDriver ==
    ASSUME DriverInv, UNCHANGED <<conn, rpc, rsock>>, RunDrives' => RunDrives
    PROVE  DriverInv'
  BY DEF DriverInv, NextReaderIsFresh, SingleDriver, ReadsCurrentConn, Active

\* RunContext: while it has the connection there is no reader, and it hands over
\* to the first one.
LEMMA RunDriver ==
    ASSUME TypeOK, DriverInv, RunStep
    PROVE  DriverInv'
<1> USE DEF RunGoto, readerVars
<1>1. CASE RunStoresConn
  BY <1>1 DEF RunStoresConn, DriverInv, NextReaderIsFresh, SingleDriver, ReadsCurrentConn,
              Active, RunDrives
<1>2. CASE RunStartsReadLoop
  <2>1. \A j \in Readers : rpc[j] = "none"
    BY <1>2 DEF RunStartsReadLoop, DriverInv, SingleDriver, RunDrives
  <2>2. rpc'[1] = "top" /\ \A j \in Readers : j # 1 => rpc'[j] = "none"
    BY <1>2, <2>1, MaxConnsAssumption DEF RunStartsReadLoop, TypeOK, Readers
  <2>3. \A j \in Readers : 1 <= j
    BY DEF Readers
  <2>4. run' = "watchdog"
    BY <1>2 DEF RunStartsReadLoop
  <2>5. QED
    BY <2>2, <2>3, <2>4 DEF DriverInv, NextReaderIsFresh, SingleDriver, ReadsCurrentConn,
                           Active, RunDrives, Readers
<1>3. CASE RunChecksContext \/ RunMarksConnected \/ RunAuthenticates
  BY <1>3, OthersLeaveTheDriver
     DEF RunChecksContext, RunMarksConnected, MarkConnected, RunAuthenticates, RunDrives, shared
<1>4. CASE RunDials
  BY <1>4, OthersLeaveTheDriver DEF RunDials, DialOk, RunDrives, shared
<1>5. CASE RunStartsWatchdog \/ RunSubscribes \/ RunSubscribeFails \/ RunStartsWatcher \/ RunReturns
  BY <1>5, OthersLeaveTheDriver
     DEF RunStartsWatchdog, RunSubscribes, RunSubscribeFails, RunStartsWatcher, RunReturns,
         RunDrives, shared
<1>6. QED
  BY <1>1, <1>2, <1>3, <1>4, <1>5 DEF RunStep

\* A reader: it takes Client.conn when it enters its read, and hands over to the
\* next reader in the step in which it ends.
LEMMA ReaderDriver ==
    ASSUME TypeOK, DriverInv, NEW i \in Readers, ReaderStep(i) \/ LoopReads(i)
    PROVE  DriverInv'
<1> USE DEF ReaderGoto, runVars
<1>1. CASE LoopTop(i)
  <2>1. CASE cancelled \/ conn = 0
    BY <1>1, <2>1, DriverMovesOn DEF LoopTop, Active
  <2>2. CASE ~(cancelled \/ conn = 0)
    <3>1. /\ rpc[i] = "top" /\ rpc' = [rpc EXCEPT ![i] = "read"]
          /\ rsock' = [rsock EXCEPT ![i] = conn] /\ conn' = conn /\ run' = run
      BY <1>1, <2>2 DEF LoopTop, shared
    <3>2. /\ rpc'[i] = "read" /\ rsock'[i] = conn
          /\ \A j \in Readers : j # i => rpc'[j] = rpc[j] /\ rsock'[j] = rsock[j]
      BY <3>1 DEF TypeOK
    <3>3. \A j \in Readers : Active(j)' <=> Active(j)
      BY <3>1, <3>2 DEF Active
    <3>4. \A j \in Readers : rpc[j] = "none" => rpc'[j] = "none"
      BY <3>1, <3>2
    <3>5. QED
      BY <3>1, <3>2, <3>3, <3>4
         DEF DriverInv, NextReaderIsFresh, SingleDriver, ReadsCurrentConn, RunDrives
  <2>3. QED
    BY <2>1, <2>2
<1>2. CASE LoopReads(i) \/ LoopReadError(i)
  BY <1>2, DriverMovesOn DEF LoopReads, LoopReadError, Active
<1>3. CASE ReconnectWaits(i) \/ ReconnectWakes(i)
  BY <1>3, DriverMovesOn DEF ReconnectWaits, ReconnectWakes, Active
<1>4. CASE ReconnectDials(i) \/ ReconnectDialFails(i)
  BY <1>4, DriverMovesOn DEF ReconnectDials, ReconnectDialFails, BackOff, Active
<1>5. CASE ReconnectStoresConn(i) \/ ReconnectMarksConnected(i) \/ ReconnectAuthenticates(i)
  BY <1>5, DriverMovesOn
     DEF ReconnectStoresConn, ReconnectMarksConnected, ReconnectAuthenticates, BackOff, Active
<1>6. CASE ReconnectResubscribes(i)
  <2>1. i + 1 \in Readers /\ Active(i)
    BY <1>6, MaxConnsAssumption DEF ReconnectResubscribes, Readers, Active
  <2>2. /\ rpc'[i] = "exit" /\ rpc'[i + 1] = "top"
        /\ \A j \in Readers : j \notin {i, i + 1} => rpc'[j] = rpc[j]
    BY <1>6, <2>1 DEF ReconnectResubscribes, TypeOK, Readers
  <2>3. \A j \in Readers : j \notin {i, i + 1} => ~Active(j) /\ (i + 1 < j => rpc[j] = "none")
    BY <2>1 DEF DriverInv, SingleDriver, NextReaderIsFresh, Readers
  <2>4. run' = run /\ ~RunDrives
    BY <1>6 DEF ReconnectResubscribes, DriverInv, SingleDriver
  <2>5. \A j \in Readers : Active(j)' => j = i + 1
    BY <2>2, <2>3 DEF Active
  <2>6. QED
    BY <2>2, <2>3, <2>4, <2>5
       DEF DriverInv, NextReaderIsFresh, SingleDriver, ReadsCurrentConn, Active, RunDrives, Readers
<1>7. QED
  BY <1>1, <1>2, <1>3, <1>4, <1>5, <1>6 DEF ReaderStep

\* The inductive invariant: types, the watchdog's counter, one driver, whose
\* successor is fresh, and a read that is on the current connection.
THEOREM Driving == Spec => []ConnectionInv
<1>1. Init => DriverInv
  BY DEF Init, DriverInv, NextReaderIsFresh, SingleDriver, ReadsCurrentConn, Active
<1>2. TypeOK /\ DriverInv /\ [Next]_vars => DriverInv'
  <2> SUFFICES ASSUME TypeOK, DriverInv, [Next]_vars PROVE DriverInv'
    OBVIOUS
  <2> USE DEF shared, runVars, readerVars, RunDrives
  <2>1. CASE WatchdogStep
    BY <2>1, OthersLeaveTheDriver
       DEF WatchdogStep, WatchdogTicks, PingAnswered, PingMissed, WatchdogMarksDown,
           WatchdogCapturesConn, WatchdogCloses
  <2>2. CASE UserCallsStop \/ CallerCancels \/ WatcherWakes
    BY <2>2, OthersLeaveTheDriver DEF UserCallsStop, CallerCancels, WatcherWakes
  <2>3. ASSUME NEW p \in Stoppers, StopStep(p) PROVE DriverInv'
    BY <2>3, OthersLeaveTheDriver
       DEF StopStep, StopClearsRunning, StopCancels, StopCaptures, StopCloses, StopUnmarks
  <2>4. ASSUME NEW s \in Sockets, PeerDrops(s) \/ PeerFallsSilent(s) PROVE DriverInv'
    BY <2>4, OthersLeaveTheDriver DEF PeerDrops, PeerFallsSilent
  <2>5. CASE UNCHANGED vars
    BY <2>5, OthersLeaveTheDriver DEF vars
  <2>6. QED
    BY <2>1, <2>2, <2>3, <2>4, <2>5, RunDriver, ReaderDriver DEF Next
<1>3. QED
  BY <1>1, <1>2, ConnectionTypes, PTL DEF Spec, ConnectionInv

\* At most one goroutine dials, authenticates on and reads the connection, for any
\* number of reconnects and whatever Stop, the watchdog and the peer do meanwhile.
THEOREM OneGoroutineDrives == Spec => []SingleDriver
<1>1. ConnectionInv => SingleDriver
  BY DEF ConnectionInv, DriverInv
<1>2. QED
  BY <1>1, Driving, PTL

\* A read loop in ReadMessage reads the current connection: reconnect() replaces
\* Client.conn only when no goroutine is reading.
THEOREM ReadIsOnCurrentConn == Spec => []ReadsCurrentConn
<1>1. ConnectionInv => ReadsCurrentConn
  BY DEF ConnectionInv, DriverInv
<1>2. QED
  BY <1>1, Driving, PTL

-----------------------------------------------------------------------------
(* What Stop() leaves behind                                               *)

\* A call of Stop() that is past its cancel(), and one that is past its Close(). The
\* watcher may be done without having called Stop().
HasCancelled(p) == stop[p] \in {"capture", "close", "unmark"} \/ (p = "user" /\ stop[p] = "done")
HasClosed(p) == stop[p] = "unmark" \/ (p = "user" /\ stop[p] = "done")

\* The sockets in the client's hands have been dialled, and a read is on one of them.
SocketsAreDialled ==
    /\ conn <= dialled /\ \A i \in Readers : rsock[i] <= dialled
    /\ \A s \in Sockets : s <= dialled => sock[s] # "none"
    /\ \A i \in Readers : rpc[i] = "read" => rsock[i] # 0

\* RunContext dials once before it starts the first reader, and every reader once
\* before it starts the next.
ReadersStartInTurn ==
    /\ run \in {"store", "mark", "auth", "start"} => dialled >= 1
    /\ \A i \in Readers : /\ Active(i) => i <= dialled
                          /\ rpc[i] \in {"store", "mark", "auth", "subscribe"} => i < dialled
    /\ ~RunDrives /\ run # "returned" => rpc[1] # "none"

\* The read loop that is in a read when Stop() takes the connection reads that very
\* socket, and none enters a read afterwards.
StopReachesTheRead == \A p \in Stoppers :
    /\ HasCancelled(p) => cancelled
    /\ \A i \in Readers : rpc[i] = "read" =>
        /\ stop[p] = "close" => stopSock[p] = rsock[i]
        /\ HasClosed(p) => sock[rsock[i]] = "closed"

StopInv == SocketsAreDialled /\ ReadersStartInTurn /\ StopReachesTheRead

\* A reader that cannot go on by itself: its read or its authentication waits for the
\* peer (or the model has no further reader for it to start).
ReaderIsKept(i) == \/ rpc[i] = "read" /\ ~Fails(rsock[i])
                   \/ rpc[i] = "auth" /\ ~AuthError
                   \/ rpc[i] = "subscribe" /\ i = MaxConns

\* RunContext cannot go on: its authentication waits, or it waits for the first reader.
RunIsKept == \/ run = "auth" /\ ~AuthError
             \/ run \in {"wait", "drain"} /\ rpc[1] # "exit"

\* The safety half of StopEndsEveryGoroutine: once Stop() has returned, no goroutine of
\* the client is left waiting, unless a peer fell silent; RunContext at most waits
\* for the first reader, which goes on, and the watcher has its signal.
StopIsHeard ==
    stop["user"] = "done" /\ (\A s \in Sockets : sock[s] # "silent") =>
        /\ \A i \in Readers : Active(i) => ~ReaderIsKept(i)
        /\ RunIsKept => Active(1)
        /\ stop["watcher"] = "watch" => cancelled

\* A read is on a socket.
LEMMA ReadsAreOnSockets ==
    ASSUME TypeOK, SocketsAreDialled
    PROVE  \A i \in Readers : rpc[i] = "read" => rsock[i] \in Sockets
  BY MaxConnsAssumption DEF TypeOK, SocketsAreDialled, Sockets

\* What a step may do to the sockets: it replaces none and reopens none.
SocketsGoOn == \A s \in Sockets : /\ sock[s] # "none" => sock'[s] # "none"
                                  /\ sock[s] = "closed" => sock'[s] = "closed"

\* Closing a socket replaces none and reopens none.
LEMMA ClosingReopensNone ==
    ASSUME TypeOK, NEW s \in 0..MaxConns, CloseSocket(s)
    PROVE  SocketsGoOn
  BY DEF TypeOK, CloseSocket, Sockets, SocketsGoOn

\* A step that leaves the readers, RunContext, the connection and the calls of Stop()
\* where they are.
LEMMA StopUndisturbed ==
    ASSUME TypeOK, StopInv, UNCHANGED <<conn, dialled, run, rpc, rsock, stop, stopSock>>,
           cancelled => cancelled', SocketsGoOn
    PROVE  StopInv'
<1>1. \A i \in Readers : rpc[i] = "read" => rsock[i] \in Sockets
  BY ReadsAreOnSockets DEF StopInv
<1>2. SocketsAreDialled' /\ ReadersStartInTurn'
  BY DEF StopInv, SocketsAreDialled, ReadersStartInTurn, Active, RunDrives, SocketsGoOn
<1>3. StopReachesTheRead'
  BY <1>1 DEF StopInv, StopReachesTheRead, HasCancelled, HasClosed, SocketsGoOn
<1>4. QED
  BY <1>2, <1>3 DEF StopInv

\* Dialling gives the client one more socket, and only while nobody has cancelled.
LEMMA DialingIsOpen ==
    ASSUME TypeOK, SocketsAreDialled, DialOk
    PROVE  /\ dialled' = dialled + 1 /\ dialled + 1 \in Sockets /\ dialled' \in Nat
           /\ \A s \in Sockets : s <= dialled' => sock'[s] # "none"
           /\ ~cancelled /\ UNCHANGED <<conn, cancelled>>
  BY MaxConnsAssumption DEF TypeOK, SocketsAreDialled, DialOk, Sockets

\* While nobody has cancelled, no call of Stop() asks anything of the readers.
LEMMA NothingToReachYet ==
    ASSUME StopReachesTheRead, ~cancelled, UNCHANGED <<cancelled, stop>>
    PROVE  StopReachesTheRead'
  BY DEF StopReachesTheRead, HasCancelled, HasClosed

\* A step of a reader after which it is not in a read, or of RunContext: nothing
\* changes for those who are.
LEMMA NoReadBegins ==
    ASSUME TypeOK, SocketsAreDialled, StopReachesTheRead, UNCHANGED <<sock, stop, stopSock>>,
           cancelled => cancelled',
           \A i \in Readers : rpc'[i] = "read" => rpc[i] = "read" /\ rsock'[i] = rsock[i]
    PROVE  StopReachesTheRead'
  BY DEF StopReachesTheRead, HasCancelled, HasClosed

\* The steps of RunContext.
LEMMA RunKeepsStop ==
    ASSUME TypeOK, DriverInv, StopInv, RunStep
    PROVE  StopInv'
<1> USE DEF RunGoto, shared, runVars, readerVars, watchdogVars, stopVars
<1>0. /\ conn \in Nat /\ dialled \in Nat /\ 1 \in Readers
      /\ rpc \in [Readers -> {"none", "top", "read", "retry", "sleep", "dial", "store",
                             "mark", "auth", "subscribe", "exit"}]
  BY MaxConnsAssumption DEF TypeOK, Readers
<1>1. CASE RunDials /\ DialOk
  <2>1. StopReachesTheRead'
    BY <1>1, DialingIsOpen, NothingToReachYet DEF RunDials, StopInv
  <2>2. SocketsAreDialled' /\ ReadersStartInTurn'
    <3>1. UNCHANGED <<rpc, rsock>> /\ run = "connect" /\ run' = "store"
      BY <1>1 DEF RunDials, DialOk
    <3>2. \A i \in Readers : i \in Nat /\ rsock[i] \in Nat
      BY DEF TypeOK, Readers
    <3>3. QED
      BY <1>0, <1>1, <3>1, <3>2, DialingIsOpen
         DEF StopInv, SocketsAreDialled, ReadersStartInTurn, RunDrives, Active
  <2>3. QED
    BY <2>1, <2>2 DEF StopInv
<1>2. CASE RunChecksContext \/ (RunDials /\ UNCHANGED shared /\ run' = "returned") \/ RunAuthenticates
  BY <1>0, <1>2, NoReadBegins
     DEF RunChecksContext, RunDials, RunAuthenticates, StopInv, SocketsAreDialled, ReadersStartInTurn,
         RunDrives, Active
<1>3. CASE RunStoresConn
  BY <1>0, <1>3, NoReadBegins
     DEF RunStoresConn, StoreConn, StopInv, SocketsAreDialled, ReadersStartInTurn, RunDrives, Active
<1>4. CASE RunMarksConnected
  BY <1>0, <1>4, NoReadBegins
     DEF RunMarksConnected, MarkConnected, StopInv, SocketsAreDialled, ReadersStartInTurn, RunDrives, Active
<1>5. CASE RunStartsReadLoop
  <2>1. /\ rpc'[1] = "top" /\ \A i \in Readers : i # 1 => rpc'[i] = rpc[i]
        /\ dialled >= 1 /\ run' = "watchdog" /\ UNCHANGED <<conn, sock, dialled, cancelled, rsock, stop, stopSock>>
    BY <1>0, <1>5 DEF RunStartsReadLoop, StopInv, ReadersStartInTurn
  <2>2. QED
    BY <1>0, <2>1, NoReadBegins
       DEF StopInv, SocketsAreDialled, ReadersStartInTurn, RunDrives, Active
<1>6. CASE RunStartsWatchdog \/ RunSubscribes \/ RunSubscribeFails \/ RunReturns
  BY <1>0, <1>6, NoReadBegins
     DEF RunStartsWatchdog, RunSubscribes, RunSubscribeFails, RunReturns, StopInv, SocketsAreDialled,
         ReadersStartInTurn, RunDrives, Active
<1>7. CASE RunStartsWatcher
  <2>1. /\ UNCHANGED <<conn, sock, dialled, cancelled, rpc, rsock, stopSock>>
        /\ run = "bridge" /\ run' = "wait" /\ stop'["user"] = stop["user"] /\ stop'["watcher"] = "watch"
    BY <1>7 DEF RunStartsWatcher, TypeOK, Stoppers
  <2>2. StopReachesTheRead'
    BY <2>1 DEF StopInv, StopReachesTheRead, HasCancelled, HasClosed, Stoppers
  <2>3. QED
    BY <2>1, <2>2 DEF StopInv, SocketsAreDialled, ReadersStartInTurn, RunDrives, Active
<1>8. QED
  BY <1>1, <1>2, <1>3, <1>4, <1>5, <1>6, <1>7 DEF RunStep, RunDials

\* A reader that moves on on its own socket without starting another one, and not
\* into a read.
LEMMA ReaderMovesOn ==
    ASSUME TypeOK, StopInv, NEW i \in Readers, Active(i), run' = run, NEW p,
           rpc' = [rpc EXCEPT ![i] = p], p \notin {"none", "read"},
           p \in {"store", "mark", "auth", "subscribe"} => i < dialled,
           UNCHANGED <<dialled, sock, cancelled, rsock, stop, stopSock>>, conn' <= dialled
    PROVE  StopInv'
<1>1. rpc'[i] = p /\ \A j \in Readers : j # i => rpc'[j] = rpc[j]
  BY DEF TypeOK
<1>2. StopReachesTheRead'
  BY <1>1, NoReadBegins DEF StopInv
<1>3. QED
  BY <1>1, <1>2 DEF StopInv, SocketsAreDialled, ReadersStartInTurn, Active, RunDrives

\* The steps of a read loop and of the reconnect() it turns into.
LEMMA ReaderKeepsStop ==
    ASSUME TypeOK, DriverInv, StopInv, NEW i \in Readers, ReaderStep(i) \/ LoopReads(i)
    PROVE  StopInv'
<1> USE DEF shared, runVars, watchdogVars, stopVars
<1> DEFINE Moves(p) == /\ Active(i) /\ run' = run /\ rpc' = [rpc EXCEPT ![i] = p] /\ conn' <= dialled
                       /\ UNCHANGED <<dialled, sock, cancelled, rsock, stop, stopSock>>
<1>m. ASSUME NEW p, p \notin {"none", "read"}, Moves(p),
             p \in {"store", "mark", "auth", "subscribe"} => i < dialled
      PROVE  StopInv'
  BY <1>m, ReaderMovesOn
<1>n. /\ conn \in Nat /\ dialled \in Nat /\ 1 \in Readers
      /\ \A j \in Readers : j \in Nat /\ rsock[j] \in Nat
  BY MaxConnsAssumption DEF TypeOK, Readers
<1>0. conn <= dialled /\ \A j \in Readers : rsock[j] <= dialled
  BY DEF StopInv, SocketsAreDialled
<1>1. CASE LoopTop(i)
  <2>1. CASE cancelled \/ conn = 0
    BY <1>n, <1>0, <1>1, <2>1, ReaderMovesOn DEF LoopTop, ReaderGoto, Active
  <2>2. CASE ~(cancelled \/ conn = 0)
    <3>1. /\ ~cancelled /\ conn # 0 /\ rpc[i] = "top" /\ run' = run
          /\ UNCHANGED <<conn, sock, dialled, cancelled, stop>>
          /\ rpc'[i] = "read" /\ rsock'[i] = conn
          /\ \A j \in Readers : j # i => rpc'[j] = rpc[j] /\ rsock'[j] = rsock[j]
      BY <1>1, <2>2 DEF LoopTop, TypeOK
    <3>2. StopReachesTheRead'
      BY <3>1, NothingToReachYet DEF StopInv
    <3>3. SocketsAreDialled'
      BY <1>n, <1>0, <3>1 DEF StopInv, SocketsAreDialled
    <3>4. ReadersStartInTurn'
      BY <1>n, <1>0, <3>1 DEF StopInv, ReadersStartInTurn, Active, RunDrives
    <3>5. QED
      BY <3>2, <3>3, <3>4 DEF StopInv
  <2>3. QED
    BY <2>1, <2>2
<1>2. CASE LoopReads(i)
  <2>1. Moves("top")
    BY <1>0, <1>2 DEF LoopReads, ReaderGoto, Active
  <2> HIDE DEF Moves
  <2>2. QED
    BY <1>m, <2>1
<1>3. CASE LoopReadError(i)
  <2>1. Moves("retry") \/ Moves("exit")
    BY <1>0, <1>3 DEF LoopReadError, ReaderGoto, Active
  <2> HIDE DEF Moves
  <2>2. QED
    BY <1>m, <2>1
<1>4. CASE ReconnectWaits(i)
  <2>1. Moves("exit") \/ Moves("sleep")
    BY <1>0, <1>4 DEF ReconnectWaits, ReaderGoto, Active
  <2> HIDE DEF Moves
  <2>2. QED
    BY <1>m, <2>1
<1>5. CASE ReconnectWakes(i)
  <2>1. Moves("exit") \/ Moves("dial")
    BY <1>0, <1>5 DEF ReconnectWakes, ReaderGoto, Active
  <2> HIDE DEF Moves
  <2>2. QED
    BY <1>m, <2>1
<1>6. CASE ReconnectDials(i)
  <2>1. /\ rpc[i] = "dial" /\ run' = run /\ i <= dialled /\ UNCHANGED stop
        /\ rpc'[i] = "store" /\ rsock'[i] = dialled + 1
        /\ \A j \in Readers : j # i => rpc'[j] = rpc[j] /\ rsock'[j] = rsock[j]
    BY <1>6 DEF ReconnectDials, TypeOK, StopInv, ReadersStartInTurn, Active
  <2>2. StopReachesTheRead'
    BY <1>6, <2>1, DialingIsOpen, NothingToReachYet DEF ReconnectDials, StopInv
  <2>3. SocketsAreDialled'
    <3>1. /\ dialled' = dialled + 1 /\ UNCHANGED conn
          /\ \A s \in Sockets : s <= dialled' => sock'[s] # "none"
      BY <1>6, DialingIsOpen DEF ReconnectDials, StopInv
    <3>2. QED
      BY <1>n, <1>0, <2>1, <3>1 DEF StopInv, SocketsAreDialled
  <2>4. ReadersStartInTurn'
    BY <1>n, <1>0, <1>6, <2>1, DialingIsOpen DEF ReconnectDials, StopInv, ReadersStartInTurn, Active, RunDrives
  <2>5. QED
    BY <2>2, <2>3, <2>4 DEF StopInv
<1>7. CASE ReconnectDialFails(i)
  <2>1. Moves("retry")
    BY <1>0, <1>7 DEF ReconnectDialFails, ReaderGoto, BackOff, Active
  <2> HIDE DEF Moves
  <2>2. QED
    BY <1>m, <2>1
<1>8. CASE ReconnectStoresConn(i)
  <2>1. i < dialled /\ rsock[i] <= dialled
    BY <1>0, <1>8 DEF ReconnectStoresConn, StopInv, ReadersStartInTurn
  <2>2. Moves("mark")
    BY <1>n, <1>0, <1>8, <2>1 DEF ReconnectStoresConn, ReaderGoto, StoreConn, Active
  <2> HIDE DEF Moves
  <2>3. QED
    BY <1>m, <2>2, <2>1
<1>9. CASE ReconnectMarksConnected(i)
  <2>1. i < dialled
    BY <1>9 DEF ReconnectMarksConnected, StopInv, ReadersStartInTurn
  <2>2. Moves("auth")
    BY <1>0, <1>9 DEF ReconnectMarksConnected, ReaderGoto, MarkConnected, Active
  <2> HIDE DEF Moves
  <2>3. QED
    BY <1>m, <2>2, <2>1
<1>10. CASE ReconnectAuthenticates(i)
  <2>1. i < dialled
    BY <1>10 DEF ReconnectAuthenticates, StopInv, ReadersStartInTurn
  <2>2. Moves("subscribe") \/ Moves("retry")
    BY <1>0, <1>10 DEF ReconnectAuthenticates, ReaderGoto, BackOff, Active
  <2> HIDE DEF Moves
  <2>3. QED
    BY <1>m, <2>2, <2>1
<1>11. CASE ReconnectResubscribes(i)
  <2>1. /\ i + 1 \in Readers /\ i < dialled /\ Active(i) /\ run' = run
        /\ UNCHANGED <<conn, dialled, sock, cancelled, rsock, stop, stopSock>>
    BY <1>11, MaxConnsAssumption
       DEF ReconnectResubscribes, Readers, Active, StopInv, ReadersStartInTurn
  <2>2. /\ rpc'[i] = "exit" /\ rpc'[i + 1] = "top"
        /\ \A j \in Readers : j \notin {i, i + 1} => rpc'[j] = rpc[j]
    BY <1>11, <2>1 DEF ReconnectResubscribes, TypeOK, Readers
  <2>3. StopReachesTheRead'
    BY <2>1, <2>2, NoReadBegins DEF StopInv
  <2>4. SocketsAreDialled'
    BY <1>n, <1>0, <2>1, <2>2 DEF StopInv, SocketsAreDialled
  <2>5. ReadersStartInTurn'
    <3>1. \A j \in Readers : /\ Active(j)' => j <= dialled
                             /\ rpc'[j] \in {"store", "mark", "auth", "subscribe"} => j < dialled
      BY <1>n, <1>0, <2>1, <2>2 DEF StopInv, ReadersStartInTurn, Active
    <3>2. rpc[1] # "none" => rpc'[1] # "none"
      BY <1>n, <1>0, <2>1, <2>2
    <3>3. QED
      BY <1>n, <1>0, <2>1, <3>1, <3>2 DEF StopInv, ReadersStartInTurn, RunDrives
  <2>6. QED
    BY <2>3, <2>4, <2>5 DEF StopInv
<1>12. QED
  BY <1>1, <1>2, <1>3, <1>4, <1>5, <1>6, <1>7, <1>8, <1>9, <1>10, <1>11 DEF ReaderStep

\* The watchdog and the network.
LEMMA OthersKeepStop ==
    ASSUME TypeOK, StopInv,
           WatchdogStep \/ CallerCancels \/ \E s \in Sockets : PeerDrops(s) \/ PeerFallsSilent(s)
    PROVE  StopInv'
<1>1. UNCHANGED <<conn, dialled, run, rpc, rsock, stop, stopSock, cancelled>>
  BY DEF WatchdogStep, WatchdogTicks, PingAnswered, PingMissed, WatchdogMarksDown,
         WatchdogCapturesConn, WatchdogCloses, CallerCancels, PeerDrops, PeerFallsSilent, shared,
         runVars, readerVars, watchdogVars, stopVars
<1>2. CASE WatchdogCloses
  BY <1>1, <1>2, ClosingReopensNone, StopUndisturbed DEF WatchdogCloses, TypeOK
<1>3. ASSUME NEW s \in Sockets, PeerDrops(s) \/ PeerFallsSilent(s) PROVE StopInv'
  <2>1. SocketsGoOn
    BY <1>3 DEF PeerDrops, PeerFallsSilent, TypeOK, SocketsGoOn
  <2>2. QED
    BY <1>1, <2>1, StopUndisturbed
<1>4. CASE UNCHANGED sock
  BY <1>1, <1>4, StopUndisturbed DEF SocketsGoOn
<1>5. QED
  BY <1>2, <1>3, <1>4
     DEF WatchdogStep, WatchdogTicks, PingAnswered, PingMissed, WatchdogMarksDown,
         WatchdogCapturesConn, CallerCancels, shared

\* The calls of Stop() themselves: what is captured is what is being read.
LEMMA StopKeepsStop ==
    ASSUME TypeOK, DriverInv, StopInv,
           UserCallsStop \/ WatcherWakes \/ \E p \in Stoppers : StopStep(p)
    PROVE  StopInv'
<1> USE DEF StopGoto, shared, runVars, readerVars, watchdogVars, stopVars
<1>1. UNCHANGED <<conn, dialled, run, rpc, rsock>>
  BY DEF UserCallsStop, WatcherWakes, StopStep, StopClearsRunning, StopCancels, StopCaptures,
         StopCloses, StopUnmarks
<1>2. \A i \in Readers : rpc[i] = "read" => rsock[i] \in Sockets /\ rsock[i] = conn
  BY ReadsAreOnSockets DEF StopInv, DriverInv, ReadsCurrentConn
<1>3. ASSUME UNCHANGED sock PROVE SocketsAreDialled' /\ ReadersStartInTurn'
  BY <1>1, <1>3 DEF StopInv, SocketsAreDialled, ReadersStartInTurn, Active, RunDrives
<1>4. CASE UserCallsStop \/ WatcherWakes
  <2>1. \A p \in Stoppers : \/ stop'[p] = stop[p]
                            \/ ~HasCancelled(p)' /\ stop'[p] # "close" /\ ~HasClosed(p)'
    BY <1>4 DEF UserCallsStop, WatcherWakes, TypeOK, Stoppers, HasCancelled, HasClosed
  <2>2. UNCHANGED <<sock, cancelled, stopSock>>
    BY <1>4 DEF UserCallsStop, WatcherWakes
  <2>3. StopReachesTheRead'
    BY <1>1, <2>1, <2>2 DEF StopInv, StopReachesTheRead, HasCancelled, HasClosed
  <2>4. QED
    BY <1>3, <2>2, <2>3 DEF StopInv
<1>5. ASSUME NEW p \in Stoppers, StopStep(p) PROVE StopInv'
  <2>1. \A q \in Stoppers : q # p => stop'[q] = stop[q] /\ stopSock'[q] = stopSock[q]
    BY <1>5 DEF StopStep, StopClearsRunning, StopCancels, StopCaptures, StopCloses, StopUnmarks, TypeOK
  <2>2. CASE StopClearsRunning(p) \/ StopCancels(p)
    <3>1. /\ stop'[p] \in {"cancel", "capture"} /\ UNCHANGED <<sock, stopSock>>
          /\ stop'[p] = "capture" => cancelled'
          /\ cancelled => cancelled'
      BY <2>2 DEF StopClearsRunning, StopCancels, TypeOK
    <3>2. StopReachesTheRead'
      BY <1>1, <2>1, <3>1 DEF StopInv, StopReachesTheRead, HasCancelled, HasClosed
    <3>3. QED
      BY <1>3, <3>1, <3>2 DEF StopInv
  <2>3. CASE StopCaptures(p)
    <3>1. /\ stop[p] = "capture" /\ stop'[p] = "close" /\ stopSock'[p] = conn /\ UNCHANGED <<sock, cancelled>>
      BY <2>3 DEF StopCaptures, TypeOK
    <3>2. StopReachesTheRead'
      BY <1>1, <1>2, <2>1, <3>1 DEF StopInv, StopReachesTheRead, HasCancelled, HasClosed
    <3>3. QED
      BY <1>3, <3>1, <3>2 DEF StopInv
  <2>4. CASE StopCloses(p)
    <3>1. /\ stop[p] = "close" /\ stop'[p] = "unmark" /\ UNCHANGED <<cancelled, stopSock>>
          /\ stopSock[p] \in 0..MaxConns /\ CloseSocket(stopSock[p])
      BY <2>4 DEF StopCloses, TypeOK
    <3>2. SocketsGoOn
      BY <3>1, ClosingReopensNone
    <3>3. stopSock[p] \in Sockets => sock'[stopSock[p]] = "closed"
      BY <3>1 DEF CloseSocket, TypeOK, Sockets
    <3>4. StopReachesTheRead'
      BY <1>1, <1>2, <2>1, <3>1, <3>2, <3>3
         DEF StopInv, StopReachesTheRead, HasCancelled, HasClosed, SocketsGoOn
    <3>5. SocketsAreDialled' /\ ReadersStartInTurn'
      BY <1>1, <3>2 DEF StopInv, SocketsAreDialled, ReadersStartInTurn, Active, RunDrives, SocketsGoOn
    <3>6. QED
      BY <3>4, <3>5 DEF StopInv
  <2>5. CASE StopUnmarks(p)
    <3>1. /\ stop[p] = "unmark" /\ stop'[p] = "done" /\ UNCHANGED <<sock, cancelled, stopSock>>
      BY <2>5 DEF StopUnmarks, TypeOK
    <3>2. StopReachesTheRead'
      BY <1>1, <2>1, <3>1 DEF StopInv, StopReachesTheRead, HasCancelled, HasClosed
    <3>3. QED
      BY <1>3, <3>1, <3>2 DEF StopInv
  <2>6. QED
    BY <1>5, <2>2, <2>3, <2>4, <2>5 DEF StopStep
<1>6. QED
  BY <1>4, <1>5

\* What the invariant says of a client that Stop() has gone through.
LEMMA StopLeavesNobodyWaiting ==
    ASSUME TypeOK, StopInv
    PROVE  StopIsHeard
<1> SUFFICES ASSUME stop["user"] = "done", \A s \in Sockets : sock[s] # "silent"
             PROVE  /\ \A i \in Readers : Active(i) => ~ReaderIsKept(i)
                    /\ RunIsKept => Active(1)
                    /\ stop["watcher"] = "watch" => cancelled
  BY DEF StopIsHeard
<1>1. "user" \in Stoppers /\ HasCancelled("user") /\ HasClosed("user")
  BY DEF Stoppers, HasCancelled, HasClosed
<1>2. cancelled /\ \A i \in Readers : rpc[i] = "read" => sock[rsock[i]] = "closed"
  BY <1>1 DEF StopInv, StopReachesTheRead
<1>3. AuthError
  <2>1. CASE conn = 0
    BY <2>1 DEF AuthError, Fails
  <2>2. CASE conn # 0
    <3>1. conn \in Sockets /\ sock[conn] \in {"live", "lost", "closed"}
      BY <2>2, MaxConnsAssumption DEF TypeOK, StopInv, SocketsAreDialled, Sockets
    <3>2. QED
      BY <2>2, <3>1 DEF AuthError, Answers, Fails
  <2>3. QED
    BY <2>1, <2>2
<1>4. ASSUME NEW i \in Readers, Active(i) PROVE ~ReaderIsKept(i)
  <2>1. rpc[i] = "read" => Fails(rsock[i])
    BY <1>2 DEF Fails
  <2>2. rpc[i] = "subscribe" => i # MaxConns
    BY MaxConnsAssumption DEF TypeOK, StopInv, ReadersStartInTurn, Readers
  <2>3. QED
    BY <1>3, <2>1, <2>2 DEF ReaderIsKept
<1>5. RunIsKept => Active(1)
  BY <1>3 DEF RunIsKept, Active, StopInv, ReadersStartInTurn, RunDrives
<1>6. QED
  BY <1>2, <1>4, <1>5

\* Whatever it interrupts, dials and reconnects included, Stop() leaves no goroutine
\* waiting for anything but a silent peer.
THEOREM StopIsAlwaysHeard == Spec => []StopIsHeard
<1>1. Init => StopInv
  <2>1. Init => SocketsAreDialled /\ ReadersStartInTurn
    BY MaxConnsAssumption DEF Init, SocketsAreDialled, ReadersStartInTurn, Active, RunDrives, Sockets
  <2>2. Init => StopReachesTheRead
    BY DEF Init, StopReachesTheRead, HasCancelled, HasClosed, Stoppers
  <2>3. QED
    BY <2>1, <2>2 DEF StopInv
<1>2. ConnectionInv /\ StopInv /\ [Next]_vars => StopInv'
  <2> SUFFICES ASSUME TypeOK, DriverInv, StopInv, [Next]_vars PROVE StopInv'
    BY DEF ConnectionInv
  <2>1. CASE UNCHANGED vars
    BY <2>1, StopUndisturbed DEF vars, shared, runVars, readerVars, stopVars, SocketsGoOn
  <2>2. QED
    BY <2>1, RunKeepsStop, ReaderKeepsStop, OthersKeepStop, StopKeepsStop DEF Next
<1>3. ConnectionInv /\ StopInv => StopIsHeard
  BY StopLeavesNobodyWaiting DEF ConnectionInv
<1>4. QED
  BY <1>1, <1>2, <1>3, Driving, PTL DEF Spec
=============================================================================
