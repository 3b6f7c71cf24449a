----------------------------- MODULE RelayCall ------------------------------
(***************************************************************************)
(* One Call of pkg/relay/call.go: dispatchEvent, on the read loop, against *)
(* goroutines in WaitFor, WaitForEnded, waitForState and On. dispatchEvent *)
(* takes the call's mutex twice, around the predicates it runs unlocked;   *)
(* waitForState reads the state and registers its waiter in two separate   *)
(* lock sections. The events are calling.call.state events, in the order   *)
(* in which the server sends them.                                         *)
(***************************************************************************)
EXTENDS Naturals, Sequences

CONSTANTS Waiters,     \* WaitFor calls: a goroutine and its one-slot channel each
          Kind,        \* "event": WaitFor and WaitForEnded; "state": waitForState
          Target,      \* the call_state that satisfies the waiter's predicate
          Handlers,    \* functions given to On
          SkipsStates, \* the server may skip states (a call that is never answered)
          MaxCallEvents    \* bound on the state events of the call

\* callStateOrder
callStateOrder == <<"created", "ringing", "answered", "ending", "ended">>
CallStates == {"created", "ringing", "answered", "ending", "ended"}
callStateRank(s) == CHOOSE i \in 1..5 : callStateOrder[i] = s

NoState == "none"

ASSUME WaitersAssumption == /\ Kind \in [Waiters -> {"event", "state"}]
                            /\ Target \in [Waiters -> CallStates]
ASSUME BoundsAssumption == MaxCallEvents \in Nat /\ SkipsStates \in BOOLEAN

VARIABLES
    state,       \* Call.state
    waiters,     \* Call.waiters
    wpc,         \* where each WaitFor call is
    chan,        \* content of its channel
    got,         \* the call_state it returned
    since,       \* history: how many events had been dispatched when it registered
    handlers,    \* Call.eventHandlers
    hsince, handled, \* history: the same for a handler, and the events it was called with
    log,         \* history: the events dispatched so far
    dpc,         \* where dispatchEvent is
    candidates, matched, callees  \* its locals

waitVars == <<wpc, got, since>>
handlerVars == <<handlers, hsince, handled>>
dispatchVars == <<log, dpc, candidates, matched, callees>>
callVars == <<state, waiters, chan, waitVars, handlerVars, dispatchVars>>

CallInit ==
    /\ state = "created"
    /\ waiters = {} /\ handlers = {}
    /\ wpc = [w \in Waiters |-> "idle"]
    /\ chan = [w \in Waiters |-> NoState]
    /\ got = [w \in Waiters |-> NoState]
    /\ since = [w \in Waiters |-> 0]
    /\ hsince = [h \in Handlers |-> 0]
    /\ handled = [h \in Handlers |-> <<>>]
    /\ log = <<>>
    /\ dpc = "idle" /\ candidates = {} /\ matched = {} /\ callees = {}

-----------------------------------------------------------------------------
(* The waiting goroutines                                                  *)

\* c.waiters = append(c.waiters, ...), under the lock
AppendWaiter(w) ==
    /\ waiters' = waiters \cup {w}
    /\ wpc' = [wpc EXCEPT ![w] = "wait"]
    /\ since' = [since EXCEPT ![w] = Len(log)]
    /\ UNCHANGED <<state, chan, got, handlerVars, dispatchVars>>

\* WaitFor, or WaitForEnded, which does not look at the state
WaitFor(w) ==
    /\ wpc[w] = "idle" /\ Kind[w] = "event"
    /\ AppendWaiter(w)

\* waitForState: already at or past the target?
CheckState(w) ==
    /\ wpc[w] = "idle" /\ Kind[w] = "state"
    /\ wpc' = [wpc EXCEPT ![w] = IF callStateRank(state) >= callStateRank(Target[w])
                                 THEN "synthesize" ELSE "register"]
    /\ UNCHANGED <<state, waiters, chan, got, since, handlerVars, dispatchVars>>

\* ... then return an event made from the state, read once more
SynthesizeEvent(w) ==
    /\ wpc[w] = "synthesize"
    /\ wpc' = [wpc EXCEPT ![w] = "done"]
    /\ got' = [got EXCEPT ![w] = state]
    /\ UNCHANGED <<state, waiters, chan, since, handlerVars, dispatchVars>>

\* ... else WaitFor
RegisterAfterCheck(w) ==
    /\ wpc[w] = "register"
    /\ AppendWaiter(w)

\* case ev := <-ch
ReceiveEvent(w) ==
    /\ wpc[w] = "wait" /\ chan[w] # NoState
    /\ wpc' = [wpc EXCEPT ![w] = "done"]
    /\ got' = [got EXCEPT ![w] = chan[w]]
    /\ chan' = [chan EXCEPT ![w] = NoState]
    /\ UNCHANGED <<state, waiters, since, handlerVars, dispatchVars>>

\* case <-ctx.Done(): the waiter stays in c.waiters
ContextExpires(w) ==
    /\ wpc[w] = "wait"
    /\ wpc' = [wpc EXCEPT ![w] = "expired"]
    /\ UNCHANGED <<state, waiters, chan, got, since, handlerVars, dispatchVars>>

On(h) ==
    /\ h \notin handlers
    /\ handlers' = handlers \cup {h}
    /\ hsince' = [hsince EXCEPT ![h] = Len(log)]
    /\ UNCHANGED <<state, waiters, chan, waitVars, handled, dispatchVars>>

-----------------------------------------------------------------------------
(* dispatchEvent                                                           *)

\* What the server may send after the states in log: forward, or a repetition.
MaySend(s) == LET last == callStateRank(IF log = <<>> THEN "created" ELSE log[Len(log)]) IN
    /\ callStateRank(s) >= last
    /\ SkipsStates \/ callStateRank(s) <= last + 1

\* First lock section: set the state, copy the handlers and the waiters.
Dispatch(s) ==
    /\ dpc = "idle" /\ Len(log) < MaxCallEvents /\ MaySend(s)
    /\ state' = s
    /\ log' = Append(log, s)
    /\ candidates' = waiters
    /\ matched' = {}
    /\ callees' = handlers
    /\ dpc' = "deliver"
    /\ UNCHANGED <<waiters, chan, waitVars, handlerVars>>

\* Variation: the predicate is not consulted.
EvaluatePredicate_Any(w) ==
    /\ dpc = "deliver" /\ w \in candidates
    /\ candidates' = candidates \ {w}
    /\ matched' = matched \cup {w}
    /\ chan' = [chan EXCEPT ![w] = IF @ = NoState THEN log[Len(log)] ELSE @]
    /\ UNCHANGED <<state, waiters, waitVars, handlerVars, log, dpc, callees>>

\* Variation: only the first waiter that matches gets the event.
EvaluatePredicate_FirstOnly(w) ==
    /\ dpc = "deliver" /\ w \in candidates
    /\ candidates' = candidates \ {w}
    /\ IF Target[w] = log[Len(log)] /\ matched = {}
       THEN /\ matched' = {w}
            /\ chan' = [chan EXCEPT ![w] = IF @ = NoState THEN log[Len(log)] ELSE @]
       ELSE UNCHANGED <<matched, chan>>
    /\ UNCHANGED <<state, waiters, waitVars, handlerVars, log, dpc, callees>>

\* Run one predicate, unlocked; offer the event to its channel without blocking.
EvaluatePredicate(w) ==
    /\ dpc = "deliver" /\ w \in candidates
    /\ candidates' = candidates \ {w}
    /\ IF Target[w] = log[Len(log)]
       THEN /\ matched' = matched \cup {w}
            /\ chan' = [chan EXCEPT ![w] = IF @ = NoState THEN log[Len(log)] ELSE @]
       ELSE UNCHANGED <<matched, chan>>
    /\ UNCHANGED <<state, waiters, waitVars, handlerVars, log, dpc, callees>>

\* Variation: a match empties the list.
PruneWaiters_All ==
    /\ dpc = "deliver" /\ candidates = {}
    /\ waiters' = IF matched = {} THEN waiters ELSE {}
    /\ dpc' = "handlers"
    /\ UNCHANGED <<state, chan, waitVars, handlerVars, log, candidates, matched, callees>>

\* Second lock section: remove the matched waiters from the current list.
PruneWaiters ==
    /\ dpc = "deliver" /\ candidates = {}
    /\ waiters' = waiters \ matched
    /\ dpc' = "handlers"
    /\ UNCHANGED <<state, chan, waitVars, handlerVars, log, candidates, matched, callees>>

\* Variation: an event taken by a waiter is not handed to the handlers.
RunHandlers_UnlessMatched ==
    /\ dpc = "handlers"
    /\ handled' = [h \in Handlers |-> IF h \in callees /\ matched = {}
                                  THEN Append(handled[h], log[Len(log)]) ELSE handled[h]]
    /\ dpc' = "idle"
    /\ UNCHANGED <<state, waiters, chan, waitVars, handlers, hsince, log, candidates, matched, callees>>

\* for _, h := range handlers { h(event) }
RunHandlers ==
    /\ dpc = "handlers"
    /\ handled' = [h \in Handlers |-> IF h \in callees THEN Append(handled[h], log[Len(log)]) ELSE handled[h]]
    /\ dpc' = "idle"
    /\ UNCHANGED <<state, waiters, chan, waitVars, handlers, hsince, log, candidates, matched, callees>>

-----------------------------------------------------------------------------
WaiterStep(w) == \/ CheckState(w) \/ SynthesizeEvent(w) \/ RegisterAfterCheck(w)
                 \/ ReceiveEvent(w)

DispatchStep == (\E w \in Waiters : EvaluatePredicate(w)) \/ PruneWaiters \/ RunHandlers

CallNext == \/ \E w \in Waiters : WaitFor(w) \/ WaiterStep(w) \/ ContextExpires(w)
        \/ \E h \in Handlers : On(h)
        \/ \E s \in CallStates : Dispatch(s)
        \/ DispatchStep

CallSpec == CallInit /\ [][CallNext]_callVars

\* Goroutines that can move do; nothing is assumed of the server or of contexts.
CallFairness == WF_callVars(DispatchStep) /\ \A w \in Waiters : WF_callVars(WaiterStep(w))

CallFairSpec == CallSpec /\ CallFairness

-----------------------------------------------------------------------------
CallTypeOK ==
    /\ state \in CallStates
    /\ waiters \subseteq Waiters /\ handlers \subseteq Handlers
    /\ wpc \in [Waiters -> {"idle", "synthesize", "register", "wait", "done", "expired"}]
    /\ chan \in [Waiters -> CallStates \cup {NoState}]
    /\ got \in [Waiters -> CallStates \cup {NoState}]
    /\ since \in [Waiters -> 0..MaxCallEvents]
    /\ hsince \in [Handlers -> 0..MaxCallEvents]
    /\ handled \in [Handlers -> Seq(CallStates)]
    /\ log \in Seq(CallStates)
    /\ dpc \in {"idle", "deliver", "handlers"}
    /\ candidates \subseteq Waiters /\ matched \subseteq Waiters
    /\ callees \subseteq Handlers

\* A goroutine that is waiting with nothing in its channel is still in the list,
\* and no event it waits for was dispatched since it registered: neither the
\* snapshot nor the rebuilding of the list between two lock sections loses it.
WaiterNeverLost == \A w \in Waiters :
    wpc[w] = "wait" /\ chan[w] = NoState /\ dpc = "idle" =>
        /\ w \in waiters
        /\ \A i \in (since[w] + 1)..Len(log) : log[i] # Target[w]

\* What a wait returns satisfies it: for WaitFor an event in the awaited state
\* dispatched after it registered, for a typed wait that state or a later one.
WaitResultSound == \A w \in Waiters :
    wpc[w] = "done" =>
        IF Kind[w] = "state" THEN callStateRank(got[w]) >= callStateRank(Target[w])
        ELSE got[w] = Target[w] /\ \E i \in (since[w] + 1)..Len(log) : log[i] = got[w]

\* Between dispatches, a handler has been called once, and in order, with every
\* event dispatched since On registered it.
HandlersSeeEveryEvent ==
    dpc = "idle" => \A h \in handlers : handled[h] = SubSeq(log, hsince[h] + 1, Len(log))

\* A waiter registered in time for its event returns (or its context expires).
RegisteredWaiterReturns == \A w \in Waiters :
    dpc = "deliver" /\ w \in candidates /\ wpc[w] = "wait" /\ Target[w] = state
        ~> wpc[w] # "wait"

=============================================================================
