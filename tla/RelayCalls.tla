----------------------------- MODULE RelayCalls -----------------------------
(***************************************************************************)
(* The call registry of pkg/relay/client.go: DialContext registers its tag *)
(* in pendingDials and waits; handleCallingEvent, on the read loop, creates*)
(* calls from receive, dial and state events, answers the waiting dial and *)
(* prunes ended calls. A server with any number of legs per dial sends the *)
(* events; a dropped connection loses the ones in flight. Only the read    *)
(* loop writes Client.calls, so what it does with an event is two steps:   *)
(* the lookup in pendingDials and the rest.                                *)
(***************************************************************************)
EXTENDS Naturals, Sequences, FiniteSets

CONSTANTS Dials,          \* DialContext calls
          Tags,           \* their tags: one uuid each, unless WithDialTag repeats one
          TagOf,          \* the tag of each dial
          Calls,          \* the call ids the server may create
          LegTag,         \* the tag a call carries: a dial's, or NoTag when inbound
          ServerStates,   \* the call states this server reports after "created"
          MaxActiveCalls, \* Client.maxActiveCalls
          MaxEvents       \* bound on the events in flight

NoTag == "noTag"
NoDial == "noDial"
NoEvent == [type |-> "none", call |-> "none", tag |-> NoTag, state |-> "none"]
NothingHeld == [event |-> NoEvent, dial |-> NoDial]

ASSUME TagsAssumption == TagOf \in [Dials -> Tags] /\ NoTag \notin Tags
ASSUME CallsAssumption == LegTag \in [Calls -> Tags \cup {NoTag}]
ASSUME StatesAssumption == ServerStates \subseteq {"ringing", "answered", "ending", "ended"}
ASSUME NamesAssumption == {"failed", "rpcErr", "gaveUp", "none"} \cap Calls = {} /\ NoDial \notin Dials
ASSUME CapAssumption == MaxActiveCalls \in Nat \ {0} /\ MaxEvents \in Nat \ {0}

VARIABLES
    dpc,           \* where each DialContext is
    result,        \* what it returned: a call, an error, or "none" yet
    chan,          \* content of its one-slot channel
    pendingDials,  \* Client.pendingDials: tag -> dial
    calls,         \* Client.calls: id -> Call.state, "none" when not registered
    events,        \* calling.* events in flight, in socket order
    held,          \* the event the read loop is handling, with what it looked up
    srv,           \* the server's state of each call
    asked,         \* tags the server was asked to dial
    verdicts,      \* the dial outcomes the server has announced for each tag
    dropped        \* history: events were lost with a connection

dialVars == <<dpc, result, chan>>
serverVars == <<srv, asked, verdicts>>
vars == <<dialVars, pendingDials, calls, events, held, serverVars, dropped>>

\* callStateOrder, below it "none": not (yet) there
States == <<"none", "created", "ringing", "answered", "ending", "ended">>
CallStates == {"created", "ringing", "answered", "ending", "ended"}
callStateRank(s) == CHOOSE i \in 1..6 : States[i] = s

Registered == {c \in Calls : calls[c] # "none"}
Inbound == {c \in Calls : LegTag[c] = NoTag}

ReceiveEvent(c) == [type |-> "receive", call |-> c, tag |-> NoTag, state |-> "created"]
StateEvent(c, s) == [type |-> "state", call |-> c, tag |-> LegTag[c], state |-> s]
DialEvent(t, c) == [type |-> "dial", call |-> c, tag |-> t, state |-> "answered"]
DialFailure(t) == [type |-> "dial", call |-> "none", tag |-> t, state |-> "failed"]
Events == {ReceiveEvent(c) : c \in Calls}
            \cup {StateEvent(c, s) : c \in Calls, s \in CallStates}
            \cup {DialEvent(t, c) : t \in Tags, c \in Calls}
            \cup {DialFailure(t) : t \in Tags}

Init ==
    /\ dpc = [d \in Dials |-> "idle"]
    /\ result = [d \in Dials |-> "none"]
    /\ chan = [d \in Dials |-> "none"]
    /\ pendingDials = [t \in Tags |-> NoDial]
    /\ calls = [c \in Calls |-> "none"]
    /\ events = <<>>
    /\ held = NothingHeld
    /\ srv = [c \in Calls |-> "none"]
    /\ asked = {}
    /\ verdicts = [t \in Tags |-> {}]
    /\ dropped = FALSE

-----------------------------------------------------------------------------
(* DialContext                                                             *)

\* c.pendingDials[tag] = ch, then execute("calling.dial")
DialRegisters(d) ==
    /\ dpc[d] = "idle"
    /\ dpc' = [dpc EXCEPT ![d] = "exec"]
    /\ pendingDials' = [pendingDials EXCEPT ![TagOf[d]] = d]
    /\ UNCHANGED <<result, chan, calls, events, held, serverVars, dropped>>

\* execute returns "Dialing"
DialAccepted(d) ==
    /\ dpc[d] = "exec" /\ TagOf[d] \in asked
    /\ dpc' = [dpc EXCEPT ![d] = "wait"]
    /\ UNCHANGED <<result, chan, pendingDials, calls, events, held, serverVars, dropped>>

Returns(d, r) ==
    /\ dpc' = [dpc EXCEPT ![d] = "cleanup"]
    /\ result' = [result EXCEPT ![d] = r]

\* execute fails, though the server may have taken the request
DialRefused(d) ==
    /\ dpc[d] = "exec"
    /\ Returns(d, "rpcErr")
    /\ UNCHANGED <<chan, pendingDials, calls, events, held, serverVars, dropped>>

\* case call := <-ch, nil standing for a failed dial
DialReceives(d) ==
    /\ dpc[d] = "wait" /\ chan[d] # "none"
    /\ Returns(d, chan[d])
    /\ chan' = [chan EXCEPT ![d] = "none"]
    /\ UNCHANGED <<pendingDials, calls, events, held, serverVars, dropped>>

\* The caller's context, the client's context, or the dial timer
DialGivesUp(d) ==
    /\ dpc[d] = "wait"
    /\ Returns(d, "gaveUp")
    /\ UNCHANGED <<chan, pendingDials, calls, events, held, serverVars, dropped>>

\* The deferred delete(c.pendingDials, tag), whoever owns the entry
DialUnregisters(d) ==
    /\ dpc[d] = "cleanup"
    /\ dpc' = [dpc EXCEPT ![d] = "done"]
    /\ pendingDials' = [pendingDials EXCEPT ![TagOf[d]] = NoDial]
    /\ UNCHANGED <<result, chan, calls, events, held, serverVars, dropped>>

-----------------------------------------------------------------------------
(* handleCallingEvent, on the read loop                                    *)

\* Variation: the dial is not looked up by the event's tag.
TakeEvent_IgnoresTag ==
    /\ held = NothingHeld /\ events # <<>>
    /\ \E t \in Tags : held' = [event |-> Head(events), dial |-> pendingDials[t]]
    /\ events' = Tail(events)
    /\ UNCHANGED <<dialVars, pendingDials, calls, serverVars, dropped>>

\* Read an event and look its tag up in pendingDials, under the read lock.
TakeEvent ==
    /\ held = NothingHeld /\ events # <<>>
    /\ LET e == Head(events) IN
       held' = [event |-> e,
                dial |-> IF e.tag \in Tags /\ e.type # "receive" THEN pendingDials[e.tag] ELSE NoDial]
    /\ events' = Tail(events)
    /\ UNCHANGED <<dialVars, pendingDials, calls, serverVars, dropped>>

Handling(type) == held.event.type = type

\* An inbound call is registered unless the cap is reached.
HandleReceive ==
    /\ Handling("receive")
    /\ calls' = IF Cardinality(Registered) >= MaxActiveCalls THEN calls
                ELSE [calls EXCEPT ![held.event.call] = "created"]
    /\ held' = NothingHeld
    /\ UNCHANGED <<dialVars, pendingDials, events, serverVars, dropped>>

\* No pending dial for the tag: a stale event, dispatched and otherwise ignored
HandleStaleDial ==
    /\ Handling("dial") /\ held.dial = NoDial
    /\ held' = NothingHeld
    /\ UNCHANGED <<dialVars, pendingDials, calls, events, serverVars, dropped>>

\* select { case ch <- v: default: }
Offer(d, v) == chan' = [chan EXCEPT ![d] = IF @ = "none" THEN v ELSE @]

\* Variation: a fresh Call replaces the one that is there.
HandleDialAnswered_Recreates ==
    /\ Handling("dial") /\ held.dial # NoDial /\ held.event.state = "answered"
    /\ calls' = [calls EXCEPT ![held.event.call] = "created"]
    /\ Offer(held.dial, held.event.call)
    /\ held' = NothingHeld
    /\ UNCHANGED <<dpc, result, pendingDials, events, serverVars, dropped>>

\* "answered": register the winner unless it is there, and hand it to the dial.
HandleDialAnswered ==
    /\ Handling("dial") /\ held.dial # NoDial /\ held.event.state = "answered"
    /\ calls' = [calls EXCEPT ![held.event.call] = IF @ = "none" THEN "answered" ELSE @]
    /\ Offer(held.dial, held.event.call)
    /\ held' = NothingHeld
    /\ UNCHANGED <<dpc, result, pendingDials, events, serverVars, dropped>>

HandleDialFailed ==
    /\ Handling("dial") /\ held.dial # NoDial /\ held.event.state = "failed"
    /\ Offer(held.dial, "failed")
    /\ held' = NothingHeld
    /\ UNCHANGED <<dpc, result, pendingDials, calls, events, serverVars, dropped>>

\* A state event of a pending dial's leg not seen before: create the call,
\* dispatch and return, whatever the state.
HandleStateOfNewLeg ==
    /\ Handling("state") /\ held.dial # NoDial /\ calls[held.event.call] = "none"
    /\ calls' = [calls EXCEPT ![held.event.call] = held.event.state]
    /\ held' = NothingHeld
    /\ UNCHANGED <<dialVars, pendingDials, events, serverVars, dropped>>

\* Variation: the call is pruned on "ending".
HandleState_PrunesOnEnding ==
    /\ Handling("state") /\ calls[held.event.call] # "none"
    /\ calls' = [calls EXCEPT ![held.event.call] =
                     IF held.event.state \in {"ending", "ended"} THEN "none" ELSE held.event.state]
    /\ held' = NothingHeld
    /\ UNCHANGED <<dialVars, pendingDials, events, serverVars, dropped>>

\* Variation: ended calls are not pruned.
HandleState_KeepsEnded ==
    /\ Handling("state") /\ calls[held.event.call] # "none"
    /\ calls' = [calls EXCEPT ![held.event.call] = held.event.state]
    /\ held' = NothingHeld
    /\ UNCHANGED <<dialVars, pendingDials, events, serverVars, dropped>>

\* Route a state event to its call: dispatchEvent sets the state, "ended" prunes.
HandleState ==
    /\ Handling("state") /\ calls[held.event.call] # "none"
    /\ calls' = [calls EXCEPT ![held.event.call] =
                     IF held.event.state = "ended" THEN "none" ELSE held.event.state]
    /\ held' = NothingHeld
    /\ UNCHANGED <<dialVars, pendingDials, events, serverVars, dropped>>

\* An unknown call of no pending dial
HandleStateOfUnknownCall ==
    /\ Handling("state") /\ held.dial = NoDial /\ calls[held.event.call] = "none"
    /\ held' = NothingHeld
    /\ UNCHANGED <<dialVars, pendingDials, calls, events, serverVars, dropped>>

-----------------------------------------------------------------------------
(* The server and the connection                                           *)

Room(n) == Len(events) + n <= MaxEvents

ServerTakesDial(d) ==
    /\ dpc[d] = "exec"
    /\ asked' = asked \cup {TagOf[d]}
    /\ UNCHANGED <<dialVars, pendingDials, calls, events, held, srv, verdicts, dropped>>

\* A new inbound call, or a new leg of an accepted dial
ServerCreates(c) ==
    /\ srv[c] = "none" /\ Room(1)
    /\ c \in Inbound \/ LegTag[c] \in asked
    /\ srv' = [srv EXCEPT ![c] = "created"]
    /\ events' = Append(events, IF c \in Inbound THEN ReceiveEvent(c) ELSE StateEvent(c, "created"))
    /\ UNCHANGED <<dialVars, pendingDials, calls, held, asked, verdicts, dropped>>

\* A call moves forward, skipping states if it likes.
ServerAdvances(c, s) ==
    /\ srv[c] # "none" /\ callStateRank(s) > callStateRank(srv[c]) /\ Room(1)
    /\ srv' = [srv EXCEPT ![c] = s]
    /\ events' = Append(events, StateEvent(c, s))
    /\ UNCHANGED <<dialVars, pendingDials, calls, held, asked, verdicts, dropped>>

\* The winner is announced after its state event ...
ServerAnnouncesWinner(c) ==
    /\ srv[c] = "answered" /\ c \notin Inbound /\ c \notin verdicts[LegTag[c]] /\ Room(1)
    /\ verdicts' = [verdicts EXCEPT ![LegTag[c]] = @ \cup {c}]
    /\ events' = Append(events, DialEvent(LegTag[c], c))
    /\ UNCHANGED <<dialVars, pendingDials, calls, held, srv, asked, dropped>>

\* ... or before it.
ServerAnnouncesWinnerFirst(c) ==
    /\ srv[c] \in {"created", "ringing"} /\ c \notin Inbound /\ Room(2)
    /\ srv' = [srv EXCEPT ![c] = "answered"]
    /\ verdicts' = [verdicts EXCEPT ![LegTag[c]] = @ \cup {c}]
    /\ events' = events \o <<DialEvent(LegTag[c], c), StateEvent(c, "answered")>>
    /\ UNCHANGED <<dialVars, pendingDials, calls, held, asked, dropped>>

ServerAnnouncesFailure(t) ==
    /\ t \in asked /\ "failed" \notin verdicts[t] /\ Room(1)
    /\ verdicts' = [verdicts EXCEPT ![t] = @ \cup {"failed"}]
    /\ events' = Append(events, DialFailure(t))
    /\ UNCHANGED <<dialVars, pendingDials, calls, held, srv, asked, dropped>>

\* The connection drops; reconnect() brings the client back, the events are gone.
LinkDrops ==
    /\ events # <<>>
    /\ events' = <<>>
    /\ dropped' = TRUE
    /\ UNCHANGED <<dialVars, pendingDials, calls, held, serverVars>>

-----------------------------------------------------------------------------
DialStep(d) == \/ DialRegisters(d) \/ DialAccepted(d) \/ DialRefused(d)
               \/ DialReceives(d) \/ DialGivesUp(d) \/ DialUnregisters(d)

ReaderStep == \/ TakeEvent \/ HandleReceive \/ HandleStaleDial \/ HandleDialAnswered
              \/ HandleDialFailed \/ HandleStateOfNewLeg \/ HandleState
              \/ HandleStateOfUnknownCall

ServerStep == \/ \E d \in Dials : ServerTakesDial(d)
              \/ \E t \in Tags : ServerAnnouncesFailure(t)
              \/ \E c \in Calls : \/ ServerCreates(c)
                                  \/ \E s \in ServerStates : ServerAdvances(c, s)
                                  \/ ServerAnnouncesWinner(c)
                                  \/ ServerAnnouncesWinnerFirst(c)

Next == (\E d \in Dials : DialStep(d)) \/ ReaderStep \/ ServerStep \/ LinkDrops

Spec == Init /\ [][Next]_vars

-----------------------------------------------------------------------------
Results == Calls \cup {"failed", "rpcErr", "gaveUp", "none"}

TypeOK ==
    /\ dpc \in [Dials -> {"idle", "exec", "wait", "cleanup", "done"}]
    /\ result \in [Dials -> Results]
    /\ chan \in [Dials -> Calls \cup {"failed", "none"}]
    /\ pendingDials \in [Tags -> Dials \cup {NoDial}]
    /\ calls \in [Calls -> CallStates \cup {"none"}]
    /\ events \in Seq(Events)
    /\ held \in [event : Events \cup {NoEvent}, dial : Dials \cup {NoDial}]
    /\ srv \in [Calls -> CallStates \cup {"none"}]
    /\ asked \subseteq Tags
    /\ verdicts \in [Tags -> SUBSET (Calls \cup {"failed"})]
    /\ dropped \in BOOLEAN

\* A dial returns an answered leg of its own tag that the server announced, and
\* reports a failure only if the server announced one: late, duplicate and
\* contradictory dial events never cross over to another dial.
DialOutcomeSound == \A d \in Dials :
    result[d] \in Calls \cup {"failed"} => result[d] \in verdicts[TagOf[d]]

\* A dial that waits is still the one its tag leads to (tags being distinct), so
\* an outcome that is announced and not lost reaches it.
WaitingDialIsPending == \A d \in Dials : dpc[d] = "wait" => pendingDials[TagOf[d]] = d

\* The outcome of a dial is its own, and one that may still come reaches it.
DialsSound == DialOutcomeSound /\ WaitingDialIsPending

\* The call a dial returned stays registered, so that its events reach it, until
\* the server has ended it.
WinnerStaysRegistered == \A d \in Dials : LET c == result[d] IN
    c \in Calls => calls[c] # "none" \/ srv[c] = "ended"

\* The end of c is still on its way to the registry.
EndInFlight(c) == \/ \E i \in 1..Len(events) : events[i] = StateEvent(c, "ended")
                  \/ held.event = StateEvent(c, "ended")

\* A call that has ended does not stay in the registry (where it would count
\* against the cap for ever), as long as no connection was lost.
NoZombieCalls == \A c \in Registered : srv[c] = "ended" /\ ~dropped => EndInFlight(c)

\* The state of a registered call never goes backwards, whichever of the dial
\* and state events comes first.
StateNeverRegresses == [][\A c \in Registered :
    calls'[c] # "none" => callStateRank(calls'[c]) >= callStateRank(calls[c])]_vars

=============================================================================
