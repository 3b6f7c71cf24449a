-------------------------- MODULE RelayCallProofs ---------------------------
(***************************************************************************)
(* Proofs about RelayCall for any number of waiters and handlers, any      *)
(* states they wait for and any number of events.                          *)
(***************************************************************************)
EXTENDS RelayCall, SequenceTheorems, TLAPS

\* The goroutine has registered its waiter.
Registered(w) == wpc[w] \in {"wait", "done", "expired"}

\* The event under dispatch, if there is one, is the last of the log.
DispatchInPlace ==
    /\ Len(log) <= MaxCallEvents
    /\ state = IF log = <<>> THEN "created" ELSE log[Len(log)]
    /\ dpc # "idle" => log # <<>>
    /\ dpc # "deliver" => candidates = {}

\* Waiters enter the list once, from WaitFor, and dispatchEvent works on waiters of
\* the list that came before its event.
WaitersInPlace == \A w \in Waiters :
    /\ w \in waiters \cup candidates \cup matched => Registered(w)
    /\ ~Registered(w) => chan[w] = NoState
    /\ since[w] <= Len(log)
    /\ w \in candidates => since[w] < Len(log)
    /\ w \in matched /\ wpc[w] = "wait" => chan[w] # NoState

\* A goroutine with an empty channel is in the list, and its event has not been
\* dispatched but for the one dispatchEvent is about to offer to it.
WaiterKept == \A w \in Waiters :
    wpc[w] = "wait" /\ chan[w] = NoState =>
        /\ w \in waiters
        /\ \A i \in (since[w] + 1)..Len(log) :
              log[i] = Target[w] => i = Len(log) /\ w \in candidates

\* An event of the awaited state was dispatched after w registered.
Seen(w, s) == s = Target[w] /\ \E i \in (since[w] + 1)..Len(log) : log[i] = s

\* What is in a channel was offered for good reason; the typed waits alone look at
\* the state, which does not go back between the look and the synthesized event.
ResultsInPlace == \A w \in Waiters :
    /\ chan[w] # NoState => Seen(w, chan[w])
    /\ wpc[w] \in {"synthesize", "register"} => Kind[w] = "state"
    /\ wpc[w] = "synthesize" => callStateRank(state) >= callStateRank(Target[w])

\* The event under dispatch has still to be given to handler h.
Owed(h) == dpc # "idle" /\ h \in callees

\* A handler has got the events since its registration, but the one it is owed.
HandlersInPlace ==
    /\ dpc # "idle" => callees \subseteq handlers
    /\ \A h \in Handlers :
          /\ hsince[h] <= Len(log)
          /\ h \notin handlers => handled[h] = <<>>
          /\ h \in handlers /\ dpc # "idle" =>
                IF h \in callees THEN hsince[h] < Len(log) ELSE hsince[h] = Len(log)
          /\ h \in handlers =>
                handled[h] = SubSeq(log, hsince[h] + 1, Len(log) - (IF Owed(h) THEN 1 ELSE 0))

WaitInv == CallTypeOK /\ DispatchInPlace /\ WaitersInPlace /\ WaiterKept

-----------------------------------------------------------------------------
(* The operators                                                           *)

\* The rank of a call state is its place in callStateOrder.
LEMMA RankType == \A s \in CallStates : callStateRank(s) \in 1..5
<1> SUFFICES ASSUME NEW s \in CallStates PROVE callStateRank(s) \in 1..5
  OBVIOUS
<1>1. \E i \in 1..5 : callStateOrder[i] = s
  BY DEF CallStates, callStateOrder
<1>2. QED
  BY <1>1 DEF callStateRank

\* The server sends no state that is behind the call's.
LEMMA StatesGoForward ==
    ASSUME DispatchInPlace, NEW s, MaySend(s)
    PROVE  callStateRank(s) >= callStateRank(state)
  BY DEF DispatchInPlace, MaySend

\* One more event in the log is no event of an earlier interval.
LEMMA LogGrows ==
    ASSUME NEW l \in Seq(CallStates), NEW s \in CallStates
    PROVE  /\ Append(l, s) \in Seq(CallStates) /\ Append(l, s) # <<>>
           /\ Len(Append(l, s)) = Len(l) + 1 /\ Append(l, s)[Len(l) + 1] = s
           /\ \A i \in 1..Len(l) : Append(l, s)[i] = l[i]
  OBVIOUS

\* What a handler got before an event was dispatched is what it got of the longer
\* log but for its last event.
LEMMA GotBefore ==
    ASSUME NEW l \in Seq(CallStates), NEW s \in CallStates, NEW a \in Nat, a <= Len(l)
    PROVE  SubSeq(Append(l, s), a + 1, Len(l)) = SubSeq(l, a + 1, Len(l))
  BY LogGrows, SubSeqProperties

\* A handler that gets the last event of the log has got them all.
LEMMA GetsLast ==
    ASSUME NEW l \in Seq(CallStates), NEW a \in Nat, a < Len(l)
    PROVE  Append(SubSeq(l, a + 1, Len(l) - 1), l[Len(l)]) = SubSeq(l, a + 1, Len(l))
  BY SubSeqProperties

-----------------------------------------------------------------------------
(* The list of waiters                                                     *)

\* A goroutine registers its waiter, before or after any event.
LEMMA AppendKeepsWaiters ==
    ASSUME WaitInv, NEW w \in Waiters, ~Registered(w), AppendWaiter(w)
    PROVE  WaitInv'
<1>1. /\ wpc'[w] = "wait" /\ since'[w] = Len(log)
      /\ \A v \in Waiters : v # w => wpc'[v] = wpc[v] /\ since'[v] = since[v]
  BY DEF AppendWaiter, WaitInv, CallTypeOK
<1>2. Len(log) \in 0..MaxCallEvents
  BY BoundsAssumption DEF WaitInv, CallTypeOK, DispatchInPlace
<1>3. CallTypeOK'
  BY <1>2 DEF AppendWaiter, WaitInv, CallTypeOK, handlerVars, dispatchVars
<1>4. DispatchInPlace'
  BY DEF AppendWaiter, WaitInv, DispatchInPlace, dispatchVars
<1>5. WaitersInPlace'
  BY <1>1, <1>2 DEF AppendWaiter, WaitInv, WaitersInPlace, Registered, dispatchVars
<1>6. WaiterKept'
  BY <1>1, <1>2 DEF AppendWaiter, WaitInv, WaiterKept, dispatchVars
<1>7. QED
  BY <1>3, <1>4, <1>5, <1>6 DEF WaitInv

\* A goroutine goes on without touching the list: it looks at the state, or leaves.
LEMMA GoingOn ==
    ASSUME WaitInv, NEW w \in Waiters, NEW p, wpc' = [wpc EXCEPT ![w] = p],
           p \in {"synthesize", "register", "done", "expired"},
           Registered(w) => p \in {"done", "expired"},
           got' \in [Waiters -> CallStates \cup {NoState}],
           \/ chan' = chan
           \/ p = "done" /\ chan' = [chan EXCEPT ![w] = NoState],
           UNCHANGED <<state, waiters, since, handlerVars, dispatchVars>>
    PROVE  WaitInv'
<1>1. /\ wpc'[w] = p /\ \A v \in Waiters : v # w => wpc'[v] = wpc[v] /\ chan'[v] = chan[v]
      /\ chan'[w] \in {chan[w], NoState} /\ chan' \in [Waiters -> CallStates \cup {NoState}]
  BY DEF WaitInv, CallTypeOK
<1>2. CallTypeOK'
  BY <1>1 DEF WaitInv, CallTypeOK, handlerVars, dispatchVars
<1>3. DispatchInPlace'
  BY DEF WaitInv, DispatchInPlace, dispatchVars
<1>4. WaitersInPlace'
  BY <1>1 DEF WaitInv, WaitersInPlace, Registered, dispatchVars
<1>5. WaiterKept'
  BY <1>1 DEF WaitInv, WaiterKept, dispatchVars
<1>6. QED
  BY <1>2, <1>3, <1>4, <1>5 DEF WaitInv

\* The steps of the waiting goroutines.
LEMMA WaitersKeep ==
    ASSUME WaitInv, NEW w \in Waiters, WaitFor(w) \/ WaiterStep(w) \/ ContextExpires(w)
    PROVE  WaitInv'
<1>t. /\ wpc[w] \in {"idle", "synthesize", "register", "wait", "done", "expired"}
      /\ got \in [Waiters -> CallStates \cup {NoState}] /\ state \in CallStates
      /\ chan[w] \in CallStates \cup {NoState}
  BY DEF WaitInv, CallTypeOK
<1>1. CASE WaitFor(w)
  BY <1>1, AppendKeepsWaiters DEF WaitFor, Registered
<1>2. CASE CheckState(w)
  BY <1>t, <1>2, GoingOn DEF CheckState, Registered
<1>3. CASE SynthesizeEvent(w)
  BY <1>t, <1>3, GoingOn DEF SynthesizeEvent
<1>4. CASE RegisterAfterCheck(w)
  BY <1>4, AppendKeepsWaiters DEF RegisterAfterCheck, Registered
<1>5. CASE ReceiveEvent(w)
  BY <1>t, <1>5, GoingOn DEF ReceiveEvent
<1>6. CASE ContextExpires(w)
  BY <1>t, <1>6, GoingOn DEF ContextExpires
<1>7. QED
  BY <1>1, <1>2, <1>3, <1>4, <1>5, <1>6 DEF WaiterStep

\* The first lock section: every waiter of the list becomes a candidate, the ones
\* that wait for this event among them.
LEMMA DispatchKeeps ==
    ASSUME WaitInv, NEW s \in CallStates, Dispatch(s)
    PROVE  WaitInv'
<1>1. /\ log \in Seq(CallStates) /\ log' = Append(log, s) /\ Len(log) < MaxCallEvents
      /\ Len(log) \in Nat
  BY DEF Dispatch, WaitInv, CallTypeOK
<1>2. /\ log' \in Seq(CallStates) /\ log' # <<>> /\ Len(log') = Len(log) + 1
      /\ log'[Len(log')] = s /\ \A i \in 1..Len(log) : log'[i] = log[i]
  BY <1>1, LogGrows
<1>3. CallTypeOK'
  BY <1>2 DEF Dispatch, WaitInv, CallTypeOK, waitVars, handlerVars
<1>4. DispatchInPlace'
  BY <1>1, <1>2, BoundsAssumption DEF Dispatch, DispatchInPlace
<1>5. WaitersInPlace'
  <2> SUFFICES ASSUME NEW w \in Waiters
               PROVE  /\ w \in waiters' \cup candidates' \cup matched' => Registered(w)'
                      /\ ~Registered(w)' => chan'[w] = NoState
                      /\ since'[w] <= Len(log') /\ since'[w] < Len(log')
                      /\ w \in matched' /\ wpc'[w] = "wait" => chan'[w] # NoState
    BY DEF WaitersInPlace
  <2>1. since[w] \in Nat /\ since[w] <= Len(log)
    BY DEF WaitInv, CallTypeOK, WaitersInPlace
  <2>2. QED
    BY <1>1, <1>2, <2>1 DEF Dispatch, WaitInv, WaitersInPlace, Registered, waitVars
<1>6. WaiterKept'
  <2> SUFFICES ASSUME NEW w \in Waiters, wpc[w] = "wait", chan[w] = NoState,
                      NEW i \in (since[w] + 1)..Len(log'), log'[i] = Target[w]
               PROVE  i = Len(log') /\ w \in waiters
    BY DEF Dispatch, WaitInv, WaiterKept, waitVars
  <2>1. since[w] \in Nat /\ w \in waiters
    BY DEF WaitInv, CallTypeOK, WaiterKept
  <2>2. ASSUME i # Len(log') PROVE FALSE
    <3>1. i \in (since[w] + 1)..Len(log) /\ log[i] = Target[w]
      BY <1>1, <1>2, <2>1, <2>2
    <3>2. w \in candidates
      BY <3>1 DEF WaitInv, WaiterKept
    <3>3. QED
      BY <3>2 DEF Dispatch, WaitInv, DispatchInPlace
  <2>3. QED
    BY <2>1, <2>2
<1>7. QED
  BY <1>3, <1>4, <1>5, <1>6 DEF WaitInv

\* A predicate is evaluated: the candidate that waits for this event gets it.
LEMMA EvaluateKeeps ==
    ASSUME WaitInv, NEW w \in Waiters, EvaluatePredicate(w)
    PROVE  WaitInv'
<1> DEFINE e == log[Len(log)]
<1>1. e \in CallStates /\ Len(log) \in Nat
  BY DEF EvaluatePredicate, WaitInv, CallTypeOK, DispatchInPlace
<1>2. /\ \A v \in Waiters : v # w => chan'[v] = chan[v]
      /\ chan' \in [Waiters -> CallStates \cup {NoState}]
      /\ Target[w] = e => chan'[w] # NoState
      /\ Target[w] # e => chan'[w] = chan[w]
      /\ chan[w] # NoState => chan'[w] = chan[w]
  BY <1>1 DEF EvaluatePredicate, WaitInv, CallTypeOK, NoState, CallStates
<1>3. CallTypeOK'
  BY <1>2 DEF EvaluatePredicate, WaitInv, CallTypeOK, waitVars, handlerVars
<1>4. DispatchInPlace'
  BY DEF EvaluatePredicate, WaitInv, DispatchInPlace
<1>5. WaitersInPlace'
  BY <1>2 DEF EvaluatePredicate, WaitInv, WaitersInPlace, Registered, waitVars
<1>6. WaiterKept'
  BY <1>1, <1>2 DEF EvaluatePredicate, WaitInv, WaiterKept, waitVars
<1>7. QED
  BY <1>3, <1>4, <1>5, <1>6 DEF WaitInv

\* The second lock section removes only waiters that have their event.
LEMMA PruneKeeps ==
    ASSUME WaitInv, PruneWaiters
    PROVE  WaitInv'
<1>1. CallTypeOK' /\ DispatchInPlace'
  BY DEF PruneWaiters, WaitInv, CallTypeOK, DispatchInPlace, waitVars, handlerVars
<1>2. WaitersInPlace'
  BY DEF PruneWaiters, WaitInv, WaitersInPlace, Registered, waitVars
<1>3. WaiterKept'
  BY DEF PruneWaiters, WaitInv, WaitersInPlace, WaiterKept, waitVars
<1>4. QED
  BY <1>1, <1>2, <1>3 DEF WaitInv

\* On and the run of the handlers leave the waiters alone.
LEMMA HandlersLeaveWaiters ==
    ASSUME WaitInv, RunHandlers \/ \E h \in Handlers : On(h)
    PROVE  WaitInv'
<1>1. CASE RunHandlers
  <2>1. log[Len(log)] \in CallStates
    BY <1>1 DEF RunHandlers, WaitInv, CallTypeOK, DispatchInPlace
  <2>2. handled' \in [Handlers -> Seq(CallStates)]
    BY <1>1, <2>1 DEF RunHandlers, WaitInv, CallTypeOK
  <2>3. QED
    BY <1>1, <2>2 DEF RunHandlers, WaitInv, CallTypeOK, DispatchInPlace, WaitersInPlace,
                     WaiterKept, Registered, waitVars
<1>2. ASSUME NEW h \in Handlers, On(h) PROVE WaitInv'
  <2>1. Len(log) \in 0..MaxCallEvents
    BY BoundsAssumption DEF WaitInv, CallTypeOK, DispatchInPlace
  <2>2. QED
    BY <1>2, <2>1 DEF On, WaitInv, CallTypeOK, DispatchInPlace, WaitersInPlace,
                     WaiterKept, Registered, waitVars, dispatchVars
<1>3. QED
  BY <1>1, <1>2

\* Waiters and dispatchEvent keep the list in order in every interleaving of their
\* lock sections; the variables of a call keep their types.
THEOREM WaitersAreKept == CallSpec => []WaitInv
<1>1. CallInit => WaitInv
  BY BoundsAssumption
     DEF CallInit, WaitInv, CallTypeOK, DispatchInPlace, WaitersInPlace, WaiterKept, Registered,
         CallStates
<1>2. WaitInv /\ [CallNext]_callVars => WaitInv'
  <2> SUFFICES ASSUME WaitInv, [CallNext]_callVars PROVE WaitInv'
    OBVIOUS
  <2>1. CASE UNCHANGED callVars
    BY <2>1 DEF callVars, waitVars, handlerVars, dispatchVars, WaitInv, CallTypeOK,
                DispatchInPlace, WaitersInPlace, WaiterKept, Registered
  <2>2. QED
    BY <2>1, WaitersKeep, DispatchKeeps, EvaluateKeeps, PruneKeeps, HandlersLeaveWaiters
       DEF CallNext, DispatchStep
<1>3. QED
  BY <1>1, <1>2, PTL DEF CallSpec

\* A goroutine that waits is in the list, and no event it waits for has passed it
\* by, whatever happens between the lock sections of dispatchEvent.
THEOREM NoWaiterIsLost == CallSpec => []WaiterNeverLost
<1>1. WaitInv => WaiterNeverLost
  BY DEF WaitInv, WaiterKept, DispatchInPlace, WaiterNeverLost
<1>2. QED
  BY <1>1, WaitersAreKept, PTL

-----------------------------------------------------------------------------
(* What a wait returns                                                     *)

ResultInv == ResultsInPlace /\ WaitResultSound

\* A registration, or a step that leaves results, channels and the log alone, takes
\* nothing away from what the waits rest on.
LEMMA ResultsStay ==
    ASSUME WaitInv, ResultInv, UNCHANGED <<state, chan, got, log>>,
           \A w \in Waiters : \/ wpc'[w] = wpc[w] /\ since'[w] = since[w]
                              \/ chan[w] = NoState /\ wpc'[w] = "wait"
                              \/ wpc'[w] = "expired" /\ since'[w] = since[w]
    PROVE  ResultInv'
<1> SUFFICES ASSUME NEW w \in Waiters
             PROVE  /\ chan'[w] # NoState => Seen(w, chan[w])'
                    /\ wpc'[w] \in {"synthesize", "register"} => Kind[w] = "state"
                    /\ wpc'[w] = "synthesize" => callStateRank(state') >= callStateRank(Target[w])
                    /\ wpc'[w] = "done" =>
                          IF Kind[w] = "state"
                          THEN callStateRank(got'[w]) >= callStateRank(Target[w])
                          ELSE /\ got'[w] = Target[w]
                               /\ \E i \in (since'[w] + 1)..Len(log') : log'[i] = got'[w]
  BY DEF ResultInv, ResultsInPlace, WaitResultSound, Seen
<1>1. CASE wpc'[w] = wpc[w] /\ since'[w] = since[w]
  BY <1>1 DEF ResultInv, ResultsInPlace, WaitResultSound, Seen
<1>2. CASE chan[w] = NoState /\ wpc'[w] = "wait"
  BY <1>2
<1>3. CASE wpc'[w] = "expired" /\ since'[w] = since[w]
  BY <1>3 DEF ResultInv, ResultsInPlace, Seen
<1>4. QED
  BY <1>1, <1>2, <1>3

\* The steps of the waiting goroutines.
LEMMA WaitersGetResults ==
    ASSUME WaitInv, ResultInv, NEW w \in Waiters,
           WaitFor(w) \/ WaiterStep(w) \/ ContextExpires(w)
    PROVE  ResultInv'
<1> USE DEF dispatchVars
<1>t. /\ wpc \in [Waiters -> {"idle", "synthesize", "register", "wait", "done", "expired"}]
      /\ got \in [Waiters -> CallStates \cup {NoState}] /\ since \in [Waiters -> 0..MaxCallEvents]
      /\ chan \in [Waiters -> CallStates \cup {NoState}]
  BY DEF WaitInv, CallTypeOK
<1>1. CASE WaitFor(w) \/ RegisterAfterCheck(w)
  <2>1. chan[w] = NoState
    BY <1>1 DEF WaitFor, RegisterAfterCheck, WaitInv, WaitersInPlace, Registered
  <2>2. AppendWaiter(w)
    BY <1>1 DEF WaitFor, RegisterAfterCheck
  <2>3. QED
    BY <1>t, <2>1, <2>2, ResultsStay DEF AppendWaiter
<1>2. CASE CheckState(w)
  <2>1. /\ wpc'[w] = (IF callStateRank(state) >= callStateRank(Target[w])
                      THEN "synthesize" ELSE "register")
        /\ \A v \in Waiters : v # w => wpc'[v] = wpc[v]
    BY <1>t, <1>2 DEF CheckState
  <2>2. Kind[w] = "state" /\ UNCHANGED <<state, chan, got, since, log>>
    BY <1>2 DEF CheckState
  <2>3. QED
    BY <2>1, <2>2 DEF ResultInv, ResultsInPlace, WaitResultSound, Seen
<1>3. CASE SynthesizeEvent(w)
  <2>1. /\ wpc'[w] = "done" /\ got'[w] = state
        /\ \A v \in Waiters : v # w => wpc'[v] = wpc[v] /\ got'[v] = got[v]
    BY <1>t, <1>3 DEF SynthesizeEvent
  <2>2. wpc[w] = "synthesize" /\ UNCHANGED <<state, chan, since, log>>
    BY <1>3 DEF SynthesizeEvent
  <2>3. QED
    BY <2>1, <2>2 DEF ResultInv, ResultsInPlace, WaitResultSound, Seen
<1>4. CASE ReceiveEvent(w)
  <2>1. /\ wpc'[w] = "done" /\ got'[w] = chan[w] /\ chan'[w] = NoState
        /\ \A v \in Waiters : v # w => wpc'[v] = wpc[v] /\ got'[v] = got[v] /\ chan'[v] = chan[v]
    BY <1>t, <1>4 DEF ReceiveEvent
  <2>2. Seen(w, chan[w]) /\ UNCHANGED <<state, since, log>>
    BY <1>4 DEF ReceiveEvent, ResultInv, ResultsInPlace
  <2>3. callStateRank(Target[w]) \in 1..5
    BY RankType, WaitersAssumption
  <2>4. QED
    BY <2>1, <2>2, <2>3 DEF ResultInv, ResultsInPlace, WaitResultSound, Seen
<1>5. CASE ContextExpires(w)
  BY <1>t, <1>5, ResultsStay DEF ContextExpires
<1>6. QED
  BY <1>1, <1>2, <1>3, <1>4, <1>5 DEF WaiterStep

\* A longer log keeps the events seen, and the state moves forward.
LEMMA DispatchKeepsResults ==
    ASSUME WaitInv, ResultInv, NEW s \in CallStates, Dispatch(s)
    PROVE  ResultInv'
<1>1. /\ log \in Seq(CallStates) /\ log' = Append(log, s) /\ state' = s
      /\ UNCHANGED <<chan, wpc, got, since>>
  BY DEF Dispatch, WaitInv, CallTypeOK, waitVars
<1>2. Len(log') = Len(log) + 1 /\ \A i \in 1..Len(log) : log'[i] = log[i]
  BY <1>1, LogGrows
<1>3. \A w \in Waiters : \A i \in (since[w] + 1)..Len(log) :
          i \in (since[w] + 1)..Len(log') /\ log'[i] = log[i]
  BY <1>1, <1>2 DEF WaitInv, CallTypeOK
<1>4. \A w \in Waiters : \A r : Seen(w, r) => Seen(w, r)'
  BY <1>1, <1>3 DEF Seen
<1>5. callStateRank(s) >= callStateRank(state)
  BY StatesGoForward DEF Dispatch, WaitInv
<1>6. /\ callStateRank(s) \in 1..5 /\ callStateRank(state) \in 1..5
      /\ \A w \in Waiters : callStateRank(Target[w]) \in 1..5
  <2>1. state \in CallStates /\ \A w \in Waiters : Target[w] \in CallStates
    BY WaitersAssumption DEF WaitInv, CallTypeOK
  <2>2. QED
    BY <2>1, RankType
<1>7. ResultsInPlace'
  BY <1>1, <1>4, <1>5, <1>6 DEF ResultInv, ResultsInPlace
<1>8. WaitResultSound'
  <2> SUFFICES ASSUME NEW w \in Waiters, wpc[w] = "done"
               PROVE  IF Kind[w] = "state" THEN callStateRank(got[w]) >= callStateRank(Target[w])
                      ELSE /\ got[w] = Target[w]
                           /\ \E i \in (since[w] + 1)..Len(log') : log'[i] = got[w]
    BY <1>1 DEF WaitResultSound
  <2>1. IF Kind[w] = "state" THEN callStateRank(got[w]) >= callStateRank(Target[w])
        ELSE got[w] = Target[w] /\ \E i \in (since[w] + 1)..Len(log) : log[i] = got[w]
    BY DEF ResultInv, WaitResultSound
  <2>2. QED
    BY <1>3, <2>1
<1>9. QED
  BY <1>7, <1>8 DEF ResultInv

\* A predicate is evaluated: what goes into the channel is the last event, which
\* came after the candidate had registered.
LEMMA EvaluateKeepsResults ==
    ASSUME WaitInv, ResultInv, NEW w \in Waiters, EvaluatePredicate(w)
    PROVE  ResultInv'
<1>1. /\ UNCHANGED <<state, wpc, got, since, log>>
      /\ \A v \in Waiters : v # w => chan'[v] = chan[v]
      /\ \/ chan'[w] = chan[w]
         \/ chan'[w] = log[Len(log)] /\ Target[w] = log[Len(log)]
  BY DEF EvaluatePredicate, WaitInv, CallTypeOK, waitVars
<1>2. Len(log) \in (since[w] + 1)..Len(log)
  BY DEF EvaluatePredicate, WaitInv, CallTypeOK, WaitersInPlace
<1>3. QED
  BY <1>1, <1>2 DEF ResultInv, ResultsInPlace, WaitResultSound, Seen

\* WaitFor returns an event in the awaited state dispatched after it registered, a
\* typed wait that state or a later one, although it looks at the state twice and
\* registers in between with the lock released.
THEOREM WaitResultsAreSound == CallSpec => []WaitResultSound
<1>1. CallInit => ResultInv
  BY DEF CallInit, ResultInv, ResultsInPlace, WaitResultSound
<1>2. WaitInv /\ ResultInv /\ [CallNext]_callVars => ResultInv'
  <2> SUFFICES ASSUME WaitInv, ResultInv, [CallNext]_callVars PROVE ResultInv'
    OBVIOUS
  <2>1. CASE PruneWaiters \/ RunHandlers \/ (\E h \in Handlers : On(h)) \/ UNCHANGED callVars
    BY <2>1, ResultsStay
       DEF PruneWaiters, RunHandlers, On, callVars, waitVars, handlerVars, dispatchVars
  <2>2. QED
    BY <2>1, WaitersGetResults, DispatchKeepsResults, EvaluateKeepsResults
       DEF CallNext, DispatchStep
<1>3. ResultInv => WaitResultSound
  BY DEF ResultInv
<1>4. QED
  BY <1>1, <1>2, <1>3, WaitersAreKept, PTL DEF CallSpec

-----------------------------------------------------------------------------
(* The handlers                                                            *)

\* A handler that is registered now has got nothing, and is owed nothing of the
\* event under dispatch, whose snapshot was taken before.
LEMMA OnKeeps ==
    ASSUME WaitInv, HandlersInPlace, NEW h \in Handlers, On(h)
    PROVE  HandlersInPlace'
<1>1. /\ hsince'[h] = Len(log) /\ handlers' = handlers \cup {h}
      /\ \A g \in Handlers : g # h => hsince'[g] = hsince[g]
      /\ UNCHANGED <<handled, log, dpc, callees>>
  BY DEF On, WaitInv, CallTypeOK, dispatchVars
<1>2. Len(log) \in Nat /\ ~Owed(h) /\ handled[h] = <<>>
  BY DEF On, WaitInv, CallTypeOK, HandlersInPlace, Owed
<1>3. SubSeq(log, Len(log) + 1, Len(log)) = <<>>
  BY <1>2, SubSeqEmpty
<1>4. \A g \in Handlers : Owed(g)' <=> Owed(g)
  BY <1>1 DEF Owed
<1>5. ASSUME NEW g \in Handlers
      PROVE  /\ hsince'[g] <= Len(log')
             /\ g \notin handlers' => handled'[g] = <<>>
             /\ g \in handlers' /\ dpc' # "idle" =>
                   IF g \in callees' THEN hsince'[g] < Len(log') ELSE hsince'[g] = Len(log')
             /\ g \in handlers' =>
                   handled'[g] =
                       SubSeq(log', hsince'[g] + 1, Len(log') - (IF Owed(g)' THEN 1 ELSE 0))
  <2>1. CASE g = h
    <3>1. /\ ~Owed(g)' /\ hsince'[g] = Len(log) /\ log' = log /\ handled'[g] = <<>>
          /\ Len(log') - 0 = Len(log)
      BY <1>1, <1>2, <1>4, <2>1
    <3>2. handled'[g] = SubSeq(log', hsince'[g] + 1, Len(log') - (IF Owed(g)' THEN 1 ELSE 0))
      BY <1>3, <3>1
    <3>3. QED
      BY <1>2, <3>1, <3>2 DEF Owed
  <2>2. CASE g # h
    BY <1>1, <1>4, <2>2 DEF HandlersInPlace
  <2>3. QED
    BY <2>1, <2>2
<1>6. QED
  BY <1>1, <1>5 DEF HandlersInPlace

\* The first lock section: all handlers of the snapshot are owed the new event.
LEMMA DispatchOwes ==
    ASSUME WaitInv, HandlersInPlace, NEW s \in CallStates, Dispatch(s)
    PROVE  HandlersInPlace'
<1>1. /\ log \in Seq(CallStates) /\ log' = Append(log, s) /\ Len(log) \in Nat
      /\ hsince \in [Handlers -> Nat]
      /\ dpc = "idle" /\ dpc' = "deliver" /\ callees' = handlers
      /\ UNCHANGED <<handlers, hsince, handled>>
  BY DEF Dispatch, WaitInv, CallTypeOK, handlerVars
<1>2. Len(log') = Len(log) + 1
  BY <1>1, LogGrows
<1>3. \A h \in handlers : SubSeq(log', hsince[h] + 1, Len(log)) = handled[h]
  BY <1>1, GotBefore DEF HandlersInPlace, Owed, WaitInv, CallTypeOK
<1>4. \A h \in Handlers : Owed(h)' <=> h \in handlers
  BY <1>1 DEF Owed
<1>5. QED
  BY <1>1, <1>2, <1>3, <1>4 DEF HandlersInPlace

\* The handlers of the snapshot are called with the event they are owed.
LEMMA HandlersRun ==
    ASSUME WaitInv, HandlersInPlace, RunHandlers
    PROVE  HandlersInPlace'
<1>1. /\ log \in Seq(CallStates) /\ hsince \in [Handlers -> Nat]
      /\ dpc = "handlers" /\ dpc' = "idle" /\ UNCHANGED <<handlers, hsince, log, callees>>
      /\ \A h \in Handlers :
            handled'[h] = IF h \in callees THEN Append(handled[h], log[Len(log)]) ELSE handled[h]
  BY DEF RunHandlers, WaitInv, CallTypeOK
<1>2. \A h \in Handlers : (Owed(h) <=> h \in callees) /\ ~Owed(h)'
  BY <1>1 DEF Owed
<1>3. ASSUME NEW h \in handlers, h \in callees
      PROVE  handled'[h] = SubSeq(log, hsince[h] + 1, Len(log))
  <2>1. h \in Handlers /\ hsince[h] \in Nat /\ hsince[h] < Len(log)
    BY <1>1, <1>3 DEF WaitInv, CallTypeOK, HandlersInPlace
  <2>2. handled[h] = SubSeq(log, hsince[h] + 1, Len(log) - 1)
    BY <1>2, <1>3, <2>1 DEF HandlersInPlace
  <2>3. QED
    BY <1>1, <1>3, <2>1, <2>2, GetsLast
<1>4. \A h \in Handlers : h \notin handlers => h \notin callees
  BY <1>1 DEF HandlersInPlace
<1>5. Len(log) \in Nat
  BY <1>1
<1>6. QED
  BY <1>1, <1>2, <1>3, <1>4, <1>5 DEF HandlersInPlace

\* A handler has been called with every event since On registered it, once and in
\* order, however the registrations fall between the steps of dispatchEvent.
THEOREM HandlersMissNothing == CallSpec => []HandlersSeeEveryEvent
<1>1. CallInit => HandlersInPlace
  BY DEF CallInit, HandlersInPlace
<1>2. WaitInv /\ HandlersInPlace /\ [CallNext]_callVars => HandlersInPlace'
  <2> SUFFICES ASSUME WaitInv, HandlersInPlace, [CallNext]_callVars PROVE HandlersInPlace'
    OBVIOUS
  <2>1. ASSUME UNCHANGED <<handlerVars, log, callees>>, (dpc' = "idle") <=> (dpc = "idle")
        PROVE  HandlersInPlace'
    BY <2>1 DEF HandlersInPlace, Owed, handlerVars
  <2>2. ASSUME NEW w \in Waiters, WaitFor(w) \/ WaiterStep(w) \/ ContextExpires(w)
        PROVE  HandlersInPlace'
    BY <2>1, <2>2 DEF WaitFor, WaiterStep, ContextExpires, CheckState, SynthesizeEvent,
                     RegisterAfterCheck, ReceiveEvent, AppendWaiter, dispatchVars
  <2>3. ASSUME NEW w \in Waiters, EvaluatePredicate(w) PROVE HandlersInPlace'
    BY <2>1, <2>3 DEF EvaluatePredicate
  <2>4. CASE PruneWaiters
    BY <2>1, <2>4 DEF PruneWaiters
  <2>5. CASE UNCHANGED callVars
    BY <2>1, <2>5 DEF callVars, dispatchVars
  <2>6. QED
    BY <2>2, <2>3, <2>4, <2>5, OnKeeps, DispatchOwes, HandlersRun DEF CallNext, DispatchStep
<1>3. WaitInv /\ HandlersInPlace => HandlersSeeEveryEvent
  <2> SUFFICES ASSUME WaitInv, HandlersInPlace, dpc = "idle", NEW h \in handlers
               PROVE  handled[h] = SubSeq(log, hsince[h] + 1, Len(log))
    BY DEF HandlersSeeEveryEvent
  <2>1. h \in Handlers /\ ~Owed(h) /\ Len(log) - 0 = Len(log)
    BY DEF WaitInv, CallTypeOK, Owed
  <2>2. QED
    BY <2>1 DEF HandlersInPlace
<1>4. QED
  BY <1>1, <1>2, <1>3, WaitersAreKept, PTL DEF CallSpec
=============================================================================
