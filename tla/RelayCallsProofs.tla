-------------------------- MODULE RelayCallsProofs --------------------------
(***************************************************************************)
(* Proofs about RelayCalls for any number of dials, tags, legs and inbound *)
(* calls, any cap and any number of events in flight.                      *)
(***************************************************************************)
EXTENDS RelayCalls, TLAPS

\* Every dial has a tag of its own: the uuid DialContext makes, unless the caller
\* repeats one with WithDialTag. Assumed where it is named, nowhere else.
DistinctTags == \A d, e \in Dials : TagOf[d] = TagOf[e] => d = e

\* Every event on its way to the registry: in the socket, or in the read loop.
InFlight == {events[i] : i \in 1..Len(events)} \cup {held.event}

-----------------------------------------------------------------------------
(* The invariants                                                          *)

\* The outcome a dial event carries is one the server announced for its tag.
Outcome(e) == IF e.state = "failed" THEN "failed" ELSE e.call
Announced(e) == e.type = "dial" => Outcome(e) \in verdicts[e.tag]

\* A dial is found under its own tag only, and what is offered to it was announced
\* for that tag.
OutcomesInPlace ==
    /\ \A t \in Tags : pendingDials[t] # NoDial => TagOf[pendingDials[t]] = t
    /\ held.dial # NoDial => TagOf[held.dial] = held.event.tag
    /\ \A e \in InFlight : Announced(e)
    /\ \A d \in Dials : chan[d] # "none" => chan[d] \in verdicts[TagOf[d]]

\* With distinct tags, a dial owns its entry from its registration to its cleanup.
EntriesOwned == \A d \in Dials :
    dpc[d] \in {"exec", "wait", "cleanup"} => pendingDials[TagOf[d]] = d

\* Of two events about one call the earlier has the earlier state, but for the two
\* that say "answered".
Before(e, f) ==
    e.call \in Calls /\ e.call = f.call =>
        \/ callStateRank(e.state) < callStateRank(f.state)
        \/ e.state = "answered" /\ f.state = "answered"

\* The socket keeps the order in which the server went through the states of a
\* call; what is in flight lies between the registry's state and the server's.
LineOrdered ==
    /\ \A i, j \in 1..Len(events) : i < j => Before(events[i], events[j])
    /\ \A i \in 1..Len(events) : Before(held.event, events[i])
    /\ \A e \in InFlight : e.call \in Calls =>
          /\ callStateRank(calls[e.call]) <= callStateRank(e.state)
          /\ callStateRank(e.state) <= callStateRank(srv[e.call])
    /\ \A c \in Calls : callStateRank(calls[c]) <= callStateRank(srv[c])

\* A call handed to a dial is there, unless the server has ended it.
Alive(c) == calls[c] # "none" \/ srv[c] = "ended"
WinnersInPlace ==
    \A d \in Dials : \A c \in Calls : c \in {chan[d], result[d]} => Alive(c)

\* The first event of a leg has not been handled, and will register it.
Unheard(c) == \/ \E i \in 1..Len(events) : events[i].call = c /\ events[i].state = "created"
              \/ held.event.call = c /\ held.event.state = "created" /\ held.dial # NoDial

\* The registry is through with the call.
Finished(c) == srv[c] = "ended" /\ ~EndInFlight(c)

\* A leg is asked for before it is there, by a dial that has registered (with
\* distinct tags, by every dial of the tag); an event is about the call its tag says.
LegsInPlace ==
    /\ \A u \in asked : \A d \in Dials : TagOf[d] = u => dpc[d] # "idle"
    /\ \A c \in Calls \ Inbound : srv[c] # "none" => LegTag[c] \in asked
    /\ held.event.type = "receive" => held.dial = NoDial
    /\ \A e \in InFlight : /\ e.type = "receive" => e.call \in Inbound
                           /\ e.type = "dial" /\ e.call \in Calls => e.tag = LegTag[e.call]

\* A leg was heard of, is not registered and has not ended: it came after its dial
\* had given up.
Unclaimed(c) == /\ c \notin Inbound /\ srv[c] # "none" /\ calls[c] = "none"
                /\ ~Unheard(c) /\ ~Finished(c)

\* As long as nothing is lost, a call whose end was handled is gone and nothing
\* more comes for it, and an unclaimed leg stays so, its dial being gone for good.
EndsFollowed == \A c \in Calls :
    /\ Finished(c) => calls[c] = "none" /\ \A e \in InFlight : e.call # c
    /\ Unclaimed(c) => /\ pendingDials[LegTag[c]] = NoDial
                       /\ held.event.call = c => held.dial = NoDial

RegistryFollows == LegsInPlace /\ (~dropped => EndsFollowed)

-----------------------------------------------------------------------------
(* The operators                                                           *)

\* The rank of a call state is its place in callStateOrder.
LEMMA Ranks ==
    /\ callStateRank("none") = 1 /\ callStateRank("created") = 2 /\ callStateRank("ringing") = 3
    /\ callStateRank("answered") = 4 /\ callStateRank("ending") = 5 /\ callStateRank("ended") = 6
  BY DEF callStateRank, States

\* What an event in flight looks like.
LEMMA EventShape ==
    ASSUME NEW e \in Events
    PROVE  /\ e.type \in {"receive", "state", "dial"}
           /\ e.type = "receive" => e.call \in Calls /\ e.tag = NoTag /\ e.state = "created"
           /\ e.type = "state" => /\ e.call \in Calls /\ e.state \in CallStates
                                  /\ e = StateEvent(e.call, e.state) /\ e.tag = LegTag[e.call]
           /\ e.type = "dial" => /\ e.tag \in Tags
                                 /\ \/ e.call \in Calls /\ e.state = "answered"
                                    \/ e.call = "none" /\ e.state = "failed"
           /\ e.call \in Calls => e.state \in CallStates
<1> USE NamesAssumption DEF CallStates
<1>1. CASE \E c \in Calls : e = ReceiveEvent(c)
  BY <1>1 DEF ReceiveEvent
<1>2. CASE \E c \in Calls, s \in CallStates : e = StateEvent(c, s)
  BY <1>2 DEF StateEvent
<1>3. CASE \E u \in Tags, c \in Calls : e = DialEvent(u, c)
  BY <1>3 DEF DialEvent
<1>4. CASE \E u \in Tags : e = DialFailure(u)
  BY <1>4 DEF DialFailure
<1>5. QED
  BY <1>1, <1>2, <1>3, <1>4 DEF Events

\* NoEvent is no event, and is about no call.
LEMMA NoEventShape ==
    /\ NoEvent.type = "none" /\ NoEvent.call \notin Calls /\ NoEvent \notin Events
    /\ NothingHeld.event = NoEvent /\ NothingHeld.dial = NoDial
<1>1. NoEvent.type = "none" /\ NoEvent.call \notin Calls
  BY NamesAssumption DEF NoEvent
<1>2. NoEvent \notin Events
  BY <1>1, EventShape
<1>3. QED
  BY <1>1, <1>2 DEF NothingHeld

\* The events the server makes.
LEMMA EventsMade ==
    /\ \A c \in Calls : ReceiveEvent(c) \in Events
    /\ \A c \in Calls, s \in CallStates : StateEvent(c, s) \in Events
    /\ \A u \in Tags, c \in Calls : DialEvent(u, c) \in Events
    /\ \A u \in Tags : DialFailure(u) \in Events
  BY DEF Events

\* The tag of a leg is the tag of some dial.
LEMMA LegsHaveTags == \A c \in Calls : c \notin Inbound => LegTag[c] \in Tags
  BY CallsAssumption DEF Inbound

-----------------------------------------------------------------------------
(* What a step does to the events in flight                                *)

\* The read loop takes the first event and looks its tag up.
LEMMA Taken ==
    ASSUME TypeOK, TakeEvent
    PROVE  /\ held = NothingHeld /\ Len(events) \in Nat /\ Len(events) >= 1
           /\ held'.event = events[1] /\ held'.event \in Events
           /\ held'.dial = IF held'.event.tag \in Tags /\ held'.event.type # "receive"
                           THEN pendingDials[held'.event.tag] ELSE NoDial
           /\ held' \in [event : Events \cup {NoEvent}, dial : Dials \cup {NoDial}]
           /\ events' \in Seq(Events) /\ Len(events') = Len(events) - 1
           /\ \A i \in 1..Len(events') : i + 1 \in 1..Len(events) /\ events'[i] = events[i + 1]
           /\ InFlight' \subseteq InFlight /\ InFlight \subseteq InFlight' \cup {NoEvent}
<1>1. /\ held = NothingHeld /\ events # <<>> /\ events \in Seq(Events) /\ events' = Tail(events)
      /\ held' = [event |-> Head(events),
                  dial |-> IF Head(events).tag \in Tags /\ Head(events).type # "receive"
                           THEN pendingDials[Head(events).tag] ELSE NoDial]
  BY DEF TakeEvent, TypeOK
<1>2. /\ Len(events) \in Nat /\ Len(events) >= 1 /\ Head(events) = events[1]
      /\ events[1] \in Events /\ events' \in Seq(Events) /\ Len(events') = Len(events) - 1
  BY <1>1
<1>3. \A i \in 1..Len(events') : i + 1 \in 1..Len(events) /\ events'[i] = events[i + 1]
  BY <1>1, <1>2
<1>4. /\ held'.event = events[1]
      /\ held'.dial = IF held'.event.tag \in Tags /\ held'.event.type # "receive"
                      THEN pendingDials[held'.event.tag] ELSE NoDial
  BY <1>1, <1>2
<1>5. held'.dial \in Dials \cup {NoDial}
  BY <1>4 DEF TypeOK
<1>6. held' \in [event : Events \cup {NoEvent}, dial : Dials \cup {NoDial}]
  BY <1>1, <1>2, <1>4, <1>5
<1>7. InFlight' \subseteq InFlight
  BY <1>2, <1>3, <1>4 DEF InFlight
<1>8. InFlight \subseteq InFlight' \cup {NoEvent}
  <2> SUFFICES ASSUME NEW i \in 1..Len(events) PROVE events[i] \in InFlight'
    BY <1>1, NoEventShape DEF InFlight
  <2>1. CASE i = 1
    BY <1>4, <2>1 DEF InFlight
  <2>2. CASE i # 1
    <3>1. i - 1 \in 1..Len(events') /\ events'[i - 1] = events[i]
      BY <1>2, <1>3, <2>2
    <3>2. QED
      BY <3>1 DEF InFlight
  <2>3. QED
    BY <2>1, <2>2
<1>9. QED
  BY <1>1, <1>2, <1>3, <1>4, <1>6, <1>7, <1>8

\* The read loop is through with the event it held.
LEMMA Handled ==
    ASSUME held' = NothingHeld, events' = events
    PROVE  /\ InFlight' \subseteq InFlight \cup {NoEvent}
           /\ InFlight \subseteq InFlight' \cup {held.event}
           /\ \A e \in InFlight' : e # NoEvent => \E i \in 1..Len(events) : e = events[i]
  BY NoEventShape DEF InFlight

\* The server sends one event.
LEMMA SentOne ==
    ASSUME TypeOK, NEW e \in Events, events' = Append(events, e), held' = held
    PROVE  /\ Len(events) \in Nat /\ Len(events') = Len(events) + 1 /\ events' \in Seq(Events)
           /\ events'[Len(events')] = e /\ \A i \in 1..Len(events) : events'[i] = events[i]
           /\ InFlight' = InFlight \cup {e}
<1>1. events \in Seq(Events)
  BY DEF TypeOK
<1>2. /\ Len(events) \in Nat /\ Len(events') = Len(events) + 1 /\ events' \in Seq(Events)
      /\ events'[Len(events')] = e /\ \A i \in 1..Len(events) : events'[i] = events[i]
  BY <1>1
<1>3. \A i \in 1..Len(events') : i \in 1..Len(events) \/ i = Len(events')
  BY <1>2
<1>4. 1..Len(events) \subseteq 1..Len(events') /\ Len(events') \in 1..Len(events')
  BY <1>2
<1>5. InFlight' \subseteq InFlight \cup {e}
  BY <1>2, <1>3 DEF InFlight
<1>6. InFlight \cup {e} \subseteq InFlight'
  BY <1>2, <1>4 DEF InFlight
<1>7. QED
  BY <1>2, <1>5, <1>6

\* The server sends two events at once.
LEMMA SentTwo ==
    ASSUME TypeOK, NEW d \in Events, NEW e \in Events, events' = events \o <<d, e>>, held' = held
    PROVE  /\ Len(events) \in Nat /\ Len(events') = Len(events) + 2 /\ events' \in Seq(Events)
           /\ events'[Len(events) + 1] = d /\ events'[Len(events) + 2] = e
           /\ \A i \in 1..Len(events) : events'[i] = events[i]
           /\ InFlight' = InFlight \cup {d, e}
<1>1. events \in Seq(Events) /\ <<d, e>> \in Seq(Events)
  BY DEF TypeOK
<1>2. /\ Len(events) \in Nat /\ Len(events') = Len(events) + 2 /\ events' \in Seq(Events)
      /\ events'[Len(events) + 1] = d /\ events'[Len(events) + 2] = e
      /\ \A i \in 1..Len(events) : events'[i] = events[i]
  BY <1>1
<1>3. \A i \in 1..Len(events') :
          i \in 1..Len(events) \/ i = Len(events) + 1 \/ i = Len(events) + 2
  BY <1>2
<1>4. /\ 1..Len(events) \subseteq 1..Len(events')
      /\ Len(events) + 1 \in 1..Len(events') /\ Len(events) + 2 \in 1..Len(events')
  BY <1>2
<1>5. InFlight' \subseteq InFlight \cup {d, e}
  BY <1>2, <1>3 DEF InFlight
<1>6. InFlight \cup {d, e} \subseteq InFlight'
  BY <1>2, <1>4 DEF InFlight
<1>7. QED
  BY <1>2, <1>5, <1>6

\* The event the read loop handles is one the server sent.
LEMMA HeldIsEvent ==
    ASSUME TypeOK, held.event.type # "none"
    PROVE  held.event \in Events /\ held.event \in InFlight
  BY NoEventShape DEF TypeOK, InFlight

-----------------------------------------------------------------------------
(* Types                                                                   *)

\* The steps of DialContext.
LEMMA DialTypes ==
    ASSUME TypeOK, NEW d \in Dials, DialStep(d)
    PROVE  TypeOK'
<1>0. TagOf[d] \in Tags
  BY TagsAssumption
<1> USE DEF serverVars, TypeOK, Returns, Results
<1>1. CASE DialRegisters(d)
  BY <1>0, <1>1 DEF DialRegisters
<1>2. CASE DialAccepted(d)
  BY <1>2 DEF DialAccepted
<1>3. CASE DialRefused(d)
  BY <1>3 DEF DialRefused
<1>4. CASE DialReceives(d)
  BY <1>4 DEF DialReceives
<1>5. CASE DialGivesUp(d)
  BY <1>5 DEF DialGivesUp
<1>6. CASE DialUnregisters(d)
  BY <1>0, <1>6 DEF DialUnregisters
<1>7. QED
  BY <1>1, <1>2, <1>3, <1>4, <1>5, <1>6 DEF DialStep

\* What handleCallingEvent does to the registry: it leaves it alone, prunes the
\* call, or puts it into the state the event reports; and that the winner of a
\* dial is there when it is offered to the dial.
LEMMA HandlerEffect ==
    ASSUME TypeOK, ReaderStep, ~TakeEvent
    PROVE  /\ held.event \in Events /\ held.event \in InFlight
           /\ held' = NothingHeld
           /\ UNCHANGED <<dpc, result, pendingDials, events, srv, asked, verdicts, dropped>>
           /\ calls' \in [Calls -> CallStates \cup {"none"}]
           /\ \A c \in Calls : c # held.event.call => calls'[c] = calls[c]
           /\ held.event.call \in Calls =>
                 \/ calls'[held.event.call] = calls[held.event.call]
                 \/ calls'[held.event.call] = held.event.state
                 \/ calls'[held.event.call] = "none" /\ held.event.state = "ended"
           /\ \/ chan' = chan
              \/ /\ held.event.type = "dial" /\ held.dial \in Dials
                 /\ Offer(held.dial, Outcome(held.event))
                 /\ Outcome(held.event) \in Calls => calls'[Outcome(held.event)] # "none"
<1> USE DEF Handling, serverVars, dialVars
<1>0. held.event.type # "none"
  BY DEF ReaderStep, HandleReceive, HandleStaleDial, HandleDialAnswered, HandleDialFailed,
         HandleStateOfNewLeg, HandleState, HandleStateOfUnknownCall
<1>1. held.event \in Events /\ held.event \in InFlight
  BY <1>0, HeldIsEvent
<1>2. held.dial \in Dials \cup {NoDial} /\ calls \in [Calls -> CallStates \cup {"none"}]
  BY DEF TypeOK
<1> DEFINE c == held.event.call
           s == held.event.state
<1>3. /\ held' = NothingHeld
      /\ UNCHANGED <<dpc, result, pendingDials, events, srv, asked, verdicts, dropped>>
  BY DEF ReaderStep, HandleReceive, HandleStaleDial, HandleDialAnswered, HandleDialFailed,
         HandleStateOfNewLeg, HandleState, HandleStateOfUnknownCall
<1>4. CASE HandleReceive
  <2>1. c \in Calls /\ s = "created" /\ "created" \in CallStates
    BY <1>1, <1>4, EventShape DEF HandleReceive, CallStates
  <2>2. chan' = chan /\ (calls' = calls \/ calls' = [calls EXCEPT ![c] = s])
    BY <1>4, <2>1 DEF HandleReceive
  <2>3. QED
    BY <1>1, <1>2, <1>3, <2>1, <2>2
<1>5. CASE HandleStaleDial \/ HandleStateOfUnknownCall
  BY <1>1, <1>2, <1>3, <1>5 DEF HandleStaleDial, HandleStateOfUnknownCall
<1>6. CASE HandleDialAnswered
  <2>1. c \in Calls /\ s = "answered" /\ "answered" \in CallStates /\ Outcome(held.event) = c
    BY <1>1, <1>6, EventShape DEF HandleDialAnswered, CallStates, Outcome
  <2>2. /\ calls' = [calls EXCEPT ![c] = IF @ = "none" THEN s ELSE @]
        /\ held.dial \in Dials /\ Offer(held.dial, c) /\ held.event.type = "dial"
    BY <1>2, <1>6, <2>1 DEF HandleDialAnswered
  <2>3. calls'[c] # "none"
    BY <1>2, <2>1, <2>2
  <2>4. QED
    BY <1>1, <1>2, <1>3, <2>1, <2>2, <2>3
<1>7. CASE HandleDialFailed
  <2>1. Outcome(held.event) = "failed" /\ "failed" \notin Calls
    BY <1>7, NamesAssumption DEF HandleDialFailed, Outcome
  <2>2. QED
    BY <1>1, <1>2, <1>3, <1>7, <2>1 DEF HandleDialFailed
<1>8. CASE HandleStateOfNewLeg \/ HandleState
  <2>1. c \in Calls /\ s \in CallStates
    BY <1>1, <1>8, EventShape DEF HandleStateOfNewLeg, HandleState
  <2>2. /\ chan' = chan
        /\ \/ calls' = [calls EXCEPT ![c] = s]
           \/ s = "ended" /\ calls' = [calls EXCEPT ![c] = "none"]
    BY <1>8 DEF HandleStateOfNewLeg, HandleState
  <2>3. QED
    BY <1>1, <1>2, <1>3, <2>1, <2>2
<1>9. QED
  BY <1>4, <1>5, <1>6, <1>7, <1>8 DEF ReaderStep

\* What the server's sending of events about c does: the call moves forward, and
\* every event it sends is one of the kinds below.
LEMMA ServerEffect ==
    ASSUME TypeOK, NEW c \in Calls,
           \/ ServerCreates(c) \/ (\E s \in ServerStates : ServerAdvances(c, s))
           \/ ServerAnnouncesWinner(c)
    PROVE  \E e \in Events :
              /\ e.call = c /\ events' = Append(events, e)
              /\ srv' \in [Calls -> CallStates \cup {"none"}] /\ srv'[c] = e.state
              /\ \A b \in Calls : b # c => srv'[b] = srv[b]
              /\ \/ srv[c] = "none" /\ e.state = "created" /\ e.type # "dial"
                    /\ (c \in Inbound \/ LegTag[c] \in asked)
                    /\ (e.type = "receive" => c \in Inbound)
                 \/ srv[c] # "none" /\ callStateRank(srv[c]) < callStateRank(e.state)
                    /\ e = StateEvent(c, e.state)
                 \/ srv[c] = "answered" /\ e = DialEvent(LegTag[c], c) /\ c \notin Inbound
              /\ IF e.type = "dial" THEN /\ LegTag[c] \in Tags
                                         /\ verdicts' = [verdicts EXCEPT ![LegTag[c]] = @ \cup {c}]
                                    ELSE verdicts' = verdicts
              /\ UNCHANGED <<dialVars, pendingDials, calls, held, asked, dropped>>
<1>0. srv \in [Calls -> CallStates \cup {"none"}] /\ {"created", "answered"} \subseteq CallStates
  BY DEF TypeOK, CallStates
<1>1. CASE ServerCreates(c)
  <2> DEFINE e == IF c \in Inbound THEN ReceiveEvent(c) ELSE StateEvent(c, "created")
  <2>1. /\ e \in Events /\ e.call = c /\ e.state = "created" /\ e.type # "dial"
        /\ e.type = "receive" => c \in Inbound
    BY <1>0, EventsMade DEF ReceiveEvent, StateEvent
  <2>2. /\ events' = Append(events, e) /\ srv[c] = "none" /\ srv' = [srv EXCEPT ![c] = "created"]
        /\ (c \in Inbound \/ LegTag[c] \in asked)
        /\ UNCHANGED <<dialVars, pendingDials, calls, held, asked, verdicts, dropped>>
    BY <1>1 DEF ServerCreates
  <2> HIDE DEF e
  <2>3. QED
    BY <1>0, <2>1, <2>2
<1>2. ASSUME NEW s \in ServerStates, ServerAdvances(c, s)
      PROVE  \E e \in Events :
                /\ e.call = c /\ events' = Append(events, e)
                /\ srv' \in [Calls -> CallStates \cup {"none"}] /\ srv'[c] = e.state
                /\ \A b \in Calls : b # c => srv'[b] = srv[b]
                /\ srv[c] # "none" /\ callStateRank(srv[c]) < callStateRank(e.state)
                /\ e = StateEvent(c, e.state) /\ e.type # "dial" /\ verdicts' = verdicts
                /\ UNCHANGED <<dialVars, pendingDials, calls, held, asked, dropped>>
  <2>1. s \in CallStates /\ callStateRank(s) \in Nat /\ callStateRank(srv[c]) \in Nat
    BY <1>0, Ranks, StatesAssumption DEF CallStates
  <2>2. StateEvent(c, s) \in Events
    BY <2>1, EventsMade
  <2>3. /\ StateEvent(c, s).call = c /\ StateEvent(c, s).state = s
        /\ StateEvent(c, s).type # "dial"
    BY DEF StateEvent
  <2>4. /\ events' = Append(events, StateEvent(c, s)) /\ srv[c] # "none"
        /\ srv' = [srv EXCEPT ![c] = s] /\ callStateRank(srv[c]) < callStateRank(s)
        /\ UNCHANGED <<dialVars, pendingDials, calls, held, asked, verdicts, dropped>>
    BY <1>2, <2>1 DEF ServerAdvances
  <2>5. QED
    BY <1>0, <2>1, <2>2, <2>3, <2>4
<1>3. CASE ServerAnnouncesWinner(c)
  <2>1. LegTag[c] \in Tags /\ c \notin Inbound
    BY <1>3, LegsHaveTags DEF ServerAnnouncesWinner
  <2>2. DialEvent(LegTag[c], c) \in Events
    BY <2>1, EventsMade
  <2>3. LET e == DialEvent(LegTag[c], c) IN e.call = c /\ e.state = "answered" /\ e.type = "dial"
    BY DEF DialEvent
  <2>4. QED
    BY <1>0, <1>3, <2>1, <2>2, <2>3 DEF ServerAnnouncesWinner
<1>4. QED
  BY <1>1, <1>2, <1>3

\* What the server's announcement of a winner before its state event does.
LEMMA WinnerFirstEffect ==
    ASSUME TypeOK, NEW c \in Calls, ServerAnnouncesWinnerFirst(c)
    PROVE  /\ LegTag[c] \in Tags /\ c \notin Inbound /\ srv[c] \in {"created", "ringing"}
           /\ DialEvent(LegTag[c], c) \in Events /\ StateEvent(c, "answered") \in Events
           /\ events' = events \o <<DialEvent(LegTag[c], c), StateEvent(c, "answered")>>
           /\ srv' \in [Calls -> CallStates \cup {"none"}] /\ srv'[c] = "answered"
           /\ \A b \in Calls : b # c => srv'[b] = srv[b]
           /\ verdicts' = [verdicts EXCEPT ![LegTag[c]] = @ \cup {c}]
           /\ UNCHANGED <<dialVars, pendingDials, calls, held, asked, dropped>>
<1>1. LegTag[c] \in Tags /\ c \notin Inbound /\ "answered" \in CallStates
  BY LegsHaveTags DEF ServerAnnouncesWinnerFirst, CallStates
<1>2. DialEvent(LegTag[c], c) \in Events /\ StateEvent(c, "answered") \in Events
  BY <1>1, EventsMade
<1>3. srv \in [Calls -> CallStates \cup {"none"}]
  BY DEF TypeOK
<1>4. QED
  BY <1>1, <1>2, <1>3 DEF ServerAnnouncesWinnerFirst

\* Every variable of the registry keeps its type.
THEOREM RegistryTypes == Spec => []TypeOK
<1>1. Init => TypeOK
  <2> SUFFICES ASSUME Init PROVE TypeOK
    OBVIOUS
  <2>1. held \in [event : Events \cup {NoEvent}, dial : Dials \cup {NoDial}]
    BY DEF Init, NothingHeld
  <2>2. events \in Seq(Events)
    BY DEF Init
  <2>3. QED
    BY <2>1, <2>2 DEF Init, TypeOK, Results
<1>2. TypeOK /\ [Next]_vars => TypeOK'
  <2> SUFFICES ASSUME TypeOK, [Next]_vars PROVE TypeOK'
    OBVIOUS
  <2>1. CASE TakeEvent
    <3>1. /\ held' \in [event : Events \cup {NoEvent}, dial : Dials \cup {NoDial}]
          /\ events' \in Seq(Events)
      BY <2>1, Taken
    <3>2. QED
      BY <2>1, <3>1 DEF TakeEvent, TypeOK, dialVars, serverVars, Results
  <2>2. CASE ReaderStep /\ ~TakeEvent
    <3>1. /\ held' = NothingHeld /\ held.event \in Events
          /\ UNCHANGED <<dpc, result, pendingDials, events, srv, asked, verdicts, dropped>>
          /\ calls' \in [Calls -> CallStates \cup {"none"}]
          /\ \/ chan' = chan
             \/ /\ held.event.type = "dial" /\ held.dial \in Dials
                /\ Offer(held.dial, Outcome(held.event))
      BY <2>2, HandlerEffect
    <3>2. held' \in [event : Events \cup {NoEvent}, dial : Dials \cup {NoDial}]
      BY <3>1 DEF NothingHeld
    <3>3. held.event.type = "dial" => Outcome(held.event) \in Calls \cup {"failed"}
      BY <3>1, EventShape DEF Outcome
    <3>4. chan' \in [Dials -> Calls \cup {"failed", "none"}]
      BY <3>1, <3>3 DEF Offer, TypeOK
    <3>5. QED
      BY <3>1, <3>2, <3>4 DEF TypeOK, Results
  <2>3. ASSUME NEW d \in Dials, ServerTakesDial(d) PROVE TypeOK'
    BY <2>3, TagsAssumption DEF ServerTakesDial, TypeOK, dialVars, Results
  <2>4. ASSUME NEW u \in Tags, ServerAnnouncesFailure(u) PROVE TypeOK'
    <3>1. events' \in Seq(Events)
      BY <2>4, EventsMade DEF ServerAnnouncesFailure, TypeOK
    <3>2. QED
      BY <2>4, <3>1 DEF ServerAnnouncesFailure, TypeOK, dialVars, Results
  <2>5. ASSUME NEW c \in Calls,
               \/ ServerCreates(c) \/ (\E s \in ServerStates : ServerAdvances(c, s))
               \/ ServerAnnouncesWinner(c)
        PROVE  TypeOK'
    <3>1. PICK e \in Events :
              /\ events' = Append(events, e) /\ srv' \in [Calls -> CallStates \cup {"none"}]
              /\ IF e.type = "dial" THEN /\ LegTag[c] \in Tags
                                         /\ verdicts' = [verdicts EXCEPT ![LegTag[c]] = @ \cup {c}]
                                    ELSE verdicts' = verdicts
              /\ UNCHANGED <<dialVars, pendingDials, calls, held, asked, dropped>>
      BY <2>5, ServerEffect
    <3>2. events' \in Seq(Events) /\ verdicts' \in [Tags -> SUBSET (Calls \cup {"failed"})]
      BY <3>1 DEF TypeOK
    <3>3. QED
      BY <3>1, <3>2 DEF TypeOK, dialVars, Results
  <2>6. ASSUME NEW c \in Calls, ServerAnnouncesWinnerFirst(c) PROVE TypeOK'
    <3>1. events' \in Seq(Events)
      BY <2>6, WinnerFirstEffect, SentTwo
    <3>2. /\ srv' \in [Calls -> CallStates \cup {"none"}]
          /\ LegTag[c] \in Tags /\ verdicts' = [verdicts EXCEPT ![LegTag[c]] = @ \cup {c}]
          /\ UNCHANGED <<dialVars, pendingDials, calls, held, asked, dropped>>
      BY <2>6, WinnerFirstEffect
    <3>3. verdicts' \in [Tags -> SUBSET (Calls \cup {"failed"})]
      BY <3>2 DEF TypeOK
    <3>4. QED
      BY <3>1, <3>2, <3>3 DEF TypeOK, dialVars, Results
  <2>7. CASE LinkDrops
    BY <2>7 DEF LinkDrops, TypeOK, dialVars, serverVars, Results
  <2>8. CASE UNCHANGED vars
    BY <2>8 DEF vars, TypeOK, dialVars, serverVars, Results
  <2>9. QED
    BY <2>1, <2>2, <2>3, <2>4, <2>5, <2>6, <2>7, <2>8, DialTypes DEF Next, ServerStep, ReaderStep
<1>3. QED
  BY <1>1, <1>2, PTL DEF Spec

-----------------------------------------------------------------------------
(* The outcome of a dial                                                   *)

OutcomeInv == OutcomesInPlace /\ DialOutcomeSound

\* The server may announce more outcomes, and send events with announced ones:
\* what the dials hold and have returned stays sound.
LEMMA MoreVerdicts ==
    ASSUME TypeOK, OutcomeInv, UNCHANGED <<dialVars, pendingDials, held>>,
           \A u \in Tags : verdicts[u] \subseteq verdicts'[u],
           \A e \in InFlight' : e \in InFlight \/ Announced(e)'
    PROVE  OutcomeInv'
<1>1. \A d \in Dials : TagOf[d] \in Tags
  BY TagsAssumption
<1>2. \A e \in InFlight : e.type = "dial" => e.tag \in Tags
  BY EventShape, NoEventShape DEF InFlight, TypeOK
<1>3. \A e \in InFlight : Announced(e)'
  BY <1>2 DEF OutcomeInv, OutcomesInPlace, Announced, Outcome
<1>4. QED
  BY <1>1, <1>3 DEF OutcomeInv, OutcomesInPlace, DialOutcomeSound, dialVars

\* DialContext puts itself under its own tag, and returns what its channel holds.
LEMMA DialOutcomes ==
    ASSUME TypeOK, OutcomeInv, NEW d \in Dials, DialStep(d)
    PROVE  OutcomeInv'
<1>0. /\ UNCHANGED <<events, held, verdicts>> /\ TagOf[d] \in Tags
      /\ {"rpcErr", "gaveUp", "none", "failed"} \cap Calls = {}
  BY TagsAssumption, NamesAssumption
     DEF DialStep, DialRegisters, DialAccepted, DialRefused, DialReceives, DialGivesUp,
         DialUnregisters, serverVars
<1>1. \A e \in InFlight' : Announced(e)'
  BY <1>0 DEF OutcomeInv, OutcomesInPlace, InFlight, Announced
<1>2. CASE DialRegisters(d) \/ DialUnregisters(d) \/ DialAccepted(d)
  <2>1. UNCHANGED <<result, chan>>
    BY <1>2 DEF DialRegisters, DialUnregisters, DialAccepted
  <2>2. \A u \in Tags : pendingDials'[u] # NoDial => TagOf[pendingDials'[u]] = u
    BY <1>0, <1>2 DEF DialRegisters, DialUnregisters, DialAccepted, OutcomeInv, OutcomesInPlace,
                     TypeOK
  <2>3. QED
    BY <1>0, <1>1, <2>1, <2>2 DEF OutcomeInv, OutcomesInPlace, DialOutcomeSound
<1>3. CASE DialRefused(d) \/ DialGivesUp(d)
  <2>1. /\ UNCHANGED <<chan, pendingDials>> /\ result'[d] \notin Calls \cup {"failed"}
        /\ \A e \in Dials : e # d => result'[e] = result[e]
    BY <1>0, <1>3 DEF DialRefused, DialGivesUp, Returns, TypeOK
  <2>2. QED
    BY <1>0, <1>1, <2>1 DEF OutcomeInv, OutcomesInPlace, DialOutcomeSound
<1>4. CASE DialReceives(d)
  <2>1. /\ UNCHANGED pendingDials /\ chan[d] # "none" /\ result'[d] = chan[d] /\ chan'[d] = "none"
        /\ \A e \in Dials : e # d => result'[e] = result[e] /\ chan'[e] = chan[e]
    BY <1>4 DEF DialReceives, Returns, TypeOK
  <2>2. QED
    BY <1>0, <1>1, <2>1 DEF OutcomeInv, OutcomesInPlace, DialOutcomeSound
<1>5. QED
  BY <1>2, <1>3, <1>4 DEF DialStep

\* The read loop finds a dial by the tag of the event, and offers it the outcome
\* the event carries.
LEMMA ReaderOutcomes ==
    ASSUME TypeOK, OutcomeInv, ReaderStep
    PROVE  OutcomeInv'
<1>1. CASE TakeEvent
  <2>1. /\ InFlight' \subseteq InFlight
        /\ held'.dial = IF held'.event.tag \in Tags /\ held'.event.type # "receive"
                        THEN pendingDials[held'.event.tag] ELSE NoDial
    BY <1>1, Taken
  <2>2. UNCHANGED <<result, chan, pendingDials, verdicts>>
    BY <1>1 DEF TakeEvent, dialVars, serverVars
  <2>3. \A e \in InFlight' : Announced(e)'
    BY <2>1, <2>2 DEF OutcomeInv, OutcomesInPlace, Announced
  <2>4. held'.dial # NoDial => TagOf[held'.dial] = held'.event.tag
    BY <2>1 DEF OutcomeInv, OutcomesInPlace
  <2>5. QED
    BY <2>2, <2>3, <2>4 DEF OutcomeInv, OutcomesInPlace, DialOutcomeSound
<1>2. CASE ~TakeEvent
  <2>1. /\ held.event \in InFlight /\ held' = NothingHeld
        /\ UNCHANGED <<result, pendingDials, events, verdicts>>
        /\ \/ chan' = chan
           \/ /\ held.event.type = "dial" /\ held.dial \in Dials
              /\ Offer(held.dial, Outcome(held.event))
    BY <1>2, HandlerEffect
  <2>2. InFlight' \subseteq InFlight \cup {NoEvent} /\ NoEvent.type # "dial" /\ held'.dial = NoDial
    BY <2>1, Handled, NoEventShape
  <2>3. \A e \in InFlight' : Announced(e)'
    BY <2>1, <2>2 DEF OutcomeInv, OutcomesInPlace, Announced
  <2>4. ASSUME NEW d \in Dials, chan'[d] # "none" PROVE chan'[d] \in verdicts[TagOf[d]]
    <3>1. CASE chan'[d] = chan[d]
      BY <2>4, <3>1 DEF OutcomeInv, OutcomesInPlace
    <3>2. CASE chan'[d] # chan[d]
      <4>1. /\ held.event.type = "dial" /\ held.dial \in Dials
            /\ Offer(held.dial, Outcome(held.event))
        BY <2>1, <3>2
      <4>2. d = held.dial /\ chan'[d] = Outcome(held.event)
        BY <3>2, <4>1 DEF Offer, TypeOK
      <4>3. TagOf[held.dial] = held.event.tag
        BY <4>1, NamesAssumption DEF OutcomeInv, OutcomesInPlace
      <4>4. Announced(held.event)
        BY <2>1 DEF OutcomeInv, OutcomesInPlace
      <4>5. QED
        BY <4>1, <4>2, <4>3, <4>4 DEF Announced
    <3>3. QED
      BY <3>1, <3>2
  <2>5. QED
    BY <2>1, <2>2, <2>3, <2>4 DEF OutcomeInv, OutcomesInPlace, DialOutcomeSound
<1>3. QED
  BY <1>1, <1>2

\* The server announces an outcome before, or in the step in which, it sends it.
LEMMA ServerOutcomes ==
    ASSUME TypeOK, OutcomeInv, ServerStep \/ LinkDrops
    PROVE  OutcomeInv'
<1>1. ASSUME NEW d \in Dials, ServerTakesDial(d) PROVE OutcomeInv'
  BY <1>1, MoreVerdicts DEF ServerTakesDial, InFlight
<1>2. ASSUME NEW u \in Tags, ServerAnnouncesFailure(u) PROVE OutcomeInv'
  <2> DEFINE e == DialFailure(u)
  <2>1. /\ e \in Events /\ events' = Append(events, e) /\ UNCHANGED <<dialVars, pendingDials, held>>
        /\ verdicts' = [verdicts EXCEPT ![u] = @ \cup {"failed"}]
    BY <1>2, EventsMade DEF ServerAnnouncesFailure
  <2>2. InFlight' = InFlight \cup {e}
    BY <2>1, SentOne
  <2>3. /\ \A v \in Tags : verdicts[v] \subseteq verdicts'[v]
        /\ "failed" \in verdicts'[u]
    BY <2>1 DEF TypeOK
  <2>4. Announced(e)'
    BY <2>3 DEF Announced, Outcome, DialFailure
  <2>5. QED
    BY <2>1, <2>2, <2>3, <2>4, MoreVerdicts
<1>3. ASSUME NEW c \in Calls,
             \/ ServerCreates(c) \/ (\E s \in ServerStates : ServerAdvances(c, s))
             \/ ServerAnnouncesWinner(c)
      PROVE  OutcomeInv'
  <2>1. PICK e \in Events :
            /\ e.call = c /\ events' = Append(events, e)
            /\ \/ e.type # "dial"
               \/ e = StateEvent(c, e.state)
               \/ e = DialEvent(LegTag[c], c)
            /\ IF e.type = "dial" THEN /\ LegTag[c] \in Tags
                                       /\ verdicts' = [verdicts EXCEPT ![LegTag[c]] = @ \cup {c}]
                                  ELSE verdicts' = verdicts
            /\ UNCHANGED <<dialVars, pendingDials, held>>
    BY <1>3, ServerEffect
  <2>2. InFlight' = InFlight \cup {e}
    BY <2>1, SentOne
  <2>3. /\ \A v \in Tags : verdicts[v] \subseteq verdicts'[v]
        /\ e.type = "dial" => c \in verdicts'[LegTag[c]]
    BY <2>1 DEF TypeOK
  <2>4. Announced(e)'
    BY <2>1, <2>3 DEF Announced, Outcome, DialEvent, StateEvent
  <2>5. QED
    BY <2>1, <2>2, <2>3, <2>4, MoreVerdicts
<1>4. ASSUME NEW c \in Calls, ServerAnnouncesWinnerFirst(c) PROVE OutcomeInv'
  <2> DEFINE d == DialEvent(LegTag[c], c)
             e == StateEvent(c, "answered")
  <2>1. /\ d \in Events /\ e \in Events /\ events' = events \o <<d, e>> /\ LegTag[c] \in Tags
        /\ verdicts' = [verdicts EXCEPT ![LegTag[c]] = @ \cup {c}]
        /\ UNCHANGED <<dialVars, pendingDials, held>>
    BY <1>4, WinnerFirstEffect
  <2>2. InFlight' = InFlight \cup {d, e}
    BY <2>1, SentTwo
  <2>3. /\ \A v \in Tags : verdicts[v] \subseteq verdicts'[v]
        /\ c \in verdicts'[LegTag[c]]
    BY <2>1 DEF TypeOK
  <2>4. Announced(d)' /\ Announced(e)'
    BY <2>3 DEF Announced, Outcome, DialEvent, StateEvent
  <2>5. QED
    BY <2>1, <2>2, <2>3, <2>4, MoreVerdicts
<1>5. CASE LinkDrops
  <2>1. InFlight' \subseteq InFlight
    BY <1>5 DEF LinkDrops, InFlight
  <2>2. QED
    BY <1>5, <2>1, MoreVerdicts DEF LinkDrops, serverVars
<1>6. QED
  BY <1>1, <1>2, <1>3, <1>4, <1>5 DEF ServerStep

\* Outcomes stay with the tag they were announced for.
THEOREM OutcomesStayInPlace == Spec => []OutcomeInv
<1>1. Init => OutcomeInv
  <2> SUFFICES ASSUME Init PROVE OutcomeInv
    OBVIOUS
  <2>1. InFlight = {NoEvent} /\ held.dial = NoDial
    BY NoEventShape DEF Init, InFlight
  <2>2. "none" \notin Calls \cup {"failed"} /\ NoEvent.type # "dial"
    BY NamesAssumption, NoEventShape
  <2>3. QED
    BY <2>1, <2>2 DEF Init, OutcomeInv, OutcomesInPlace, DialOutcomeSound, Announced
<1>2. TypeOK /\ OutcomeInv /\ [Next]_vars => OutcomeInv'
  <2> SUFFICES ASSUME TypeOK, OutcomeInv, [Next]_vars PROVE OutcomeInv'
    OBVIOUS
  <2>1. CASE UNCHANGED vars
    BY <2>1, MoreVerdicts DEF vars, InFlight, serverVars
  <2>2. QED
    BY <2>1, DialOutcomes, ReaderOutcomes, ServerOutcomes DEF Next
<1>3. QED
  BY <1>1, <1>2, RegistryTypes, PTL DEF Spec

\* A dial returns a leg of its own tag that the server announced as its winner, and
\* a failure only if one was announced: for any number of dials, also with
\* repeated tags, and for late, lost and contradictory dial events.
THEOREM DialOutcomesAreSound == Spec => []DialOutcomeSound
<1>1. OutcomeInv => DialOutcomeSound
  BY DEF OutcomeInv
<1>2. QED
  BY <1>1, OutcomesStayInPlace, PTL

\* With a tag of its own no dial takes the entry of another away, by registering
\* or by the deferred delete.
LEMMA EntriesStayOwned ==
    ASSUME DistinctTags, TypeOK, EntriesOwned, [Next]_vars
    PROVE  EntriesOwned'
<1>0. \A d \in Dials : TagOf[d] \in Tags
  BY TagsAssumption
<1>1. ASSUME NEW d \in Dials, DialStep(d) PROVE EntriesOwned'
  <2>1. /\ dpc'[d] # dpc[d] /\ \A e \in Dials : e # d => dpc'[e] = dpc[e]
        /\ \A e \in Dials : e # d => pendingDials'[TagOf[e]] = pendingDials[TagOf[e]]
    BY <1>0, <1>1 DEF DistinctTags, DialStep, DialRegisters, DialAccepted, DialRefused,
                     DialReceives, DialGivesUp, DialUnregisters, Returns, TypeOK
  <2>2. dpc'[d] \in {"exec", "wait", "cleanup"} => pendingDials'[TagOf[d]] = d
    BY <1>0, <1>1 DEF EntriesOwned, DialStep, DialRegisters, DialAccepted, DialRefused,
                     DialReceives, DialGivesUp, DialUnregisters, Returns, TypeOK
  <2>3. QED
    BY <2>1, <2>2 DEF EntriesOwned
<1>2. ASSUME UNCHANGED <<dpc, pendingDials>> PROVE EntriesOwned'
  BY <1>2 DEF EntriesOwned
<1>3. CASE TakeEvent
  BY <1>2, <1>3 DEF TakeEvent, dialVars
<1>4. CASE ReaderStep /\ ~TakeEvent
  BY <1>2, <1>4, HandlerEffect
<1>5. CASE ServerStep \/ LinkDrops
  BY <1>2, <1>5 DEF ServerStep, ServerTakesDial, ServerAnnouncesFailure, ServerCreates,
                    ServerAdvances, ServerAnnouncesWinner, ServerAnnouncesWinnerFirst, LinkDrops,
                    dialVars
<1>6. CASE UNCHANGED vars
  BY <1>2, <1>6 DEF vars, dialVars
<1>7. QED
  BY <1>1, <1>3, <1>4, <1>5, <1>6 DEF Next

\* The outcome of a dial is its own, and a dial that waits is still the one its tag
\* leads to, so that an outcome that comes reaches it: for any number of dials
\* with tags of their own.
THEOREM DialsAreSound ==
    ASSUME DistinctTags
    PROVE  Spec => []DialsSound
<1>1. Init => EntriesOwned
  BY DEF Init, EntriesOwned
<1>2. TypeOK /\ EntriesOwned /\ [Next]_vars => EntriesOwned'
  BY EntriesStayOwned
<1>3. DialOutcomeSound /\ EntriesOwned => DialsSound
  BY DEF EntriesOwned, DialsSound, WaitingDialIsPending
<1>4. QED
  BY <1>1, <1>2, <1>3, RegistryTypes, DialOutcomesAreSound, PTL DEF Spec

-----------------------------------------------------------------------------
(* The order of the events of a call                                       *)

\* Ranks of what a call and its events can be in.
LEMMA RankFacts ==
    ASSUME TypeOK
    PROVE  /\ \A c \in Calls : callStateRank(calls[c]) \in 1..6 /\ callStateRank(srv[c]) \in 1..6
           /\ \A e \in InFlight : e.call \in Calls => callStateRank(e.state) \in 2..6
           /\ \A c \in Calls : callStateRank(srv[c]) = 6 => srv[c] = "ended"
           /\ \A c \in Calls : callStateRank(srv[c]) > 1 => srv[c] # "none"
<1>1. \A c \in Calls : /\ calls[c] \in {"none", "created", "ringing", "answered", "ending", "ended"}
                       /\ srv[c] \in {"none", "created", "ringing", "answered", "ending", "ended"}
  BY DEF TypeOK, CallStates
<1>2. \A e \in InFlight : e.call \in Calls =>
          e.state \in {"created", "ringing", "answered", "ending", "ended"}
  BY EventShape, NoEventShape DEF InFlight, TypeOK, CallStates
<1>3. QED
  BY <1>1, <1>2, Ranks

\* The read loop takes the first event.
LEMMA TakeKeepsOrder ==
    ASSUME TypeOK, LineOrdered, TakeEvent
    PROVE  LineOrdered'
<1>1. UNCHANGED <<calls, srv>>
  BY DEF TakeEvent, serverVars
<1>2. /\ Len(events) \in Nat /\ Len(events) >= 1 /\ held'.event = events[1]
      /\ Len(events') = Len(events) - 1 /\ InFlight' \subseteq InFlight
      /\ \A i \in 1..Len(events') : i + 1 \in 1..Len(events) /\ events'[i] = events[i + 1]
  BY Taken
<1>3. ASSUME NEW i \in 1..Len(events'), NEW j \in 1..Len(events'), i < j
      PROVE  Before(events'[i], events'[j])
  <2>1. i + 1 \in 1..Len(events) /\ j + 1 \in 1..Len(events) /\ i + 1 < j + 1
    BY <1>2, <1>3
  <2>2. QED
    BY <1>2, <2>1 DEF LineOrdered
<1>4. ASSUME NEW i \in 1..Len(events') PROVE Before(held'.event, events'[i])
  <2>1. 1 \in 1..Len(events) /\ i + 1 \in 1..Len(events) /\ 1 < i + 1
    BY <1>2, <1>4
  <2>2. QED
    BY <1>2, <2>1 DEF LineOrdered
<1>5. QED
  BY <1>1, <1>2, <1>3, <1>4 DEF LineOrdered, Before

\* The read loop handles an event: the registry's state moves to the event's at
\* most, which the events behind it are not behind of.
LEMMA HandlingKeepsOrder ==
    ASSUME TypeOK, LineOrdered, ReaderStep, ~TakeEvent
    PROVE  LineOrdered'
<1> DEFINE h == held.event
<1>1. /\ h \in InFlight /\ held' = NothingHeld /\ UNCHANGED <<events, srv>>
      /\ calls' \in [Calls -> CallStates \cup {"none"}]
      /\ \A c \in Calls : c # h.call => calls'[c] = calls[c]
      /\ h.call \in Calls => \/ calls'[h.call] = calls[h.call]
                             \/ calls'[h.call] = h.state
                             \/ calls'[h.call] = "none"
  BY HandlerEffect
<1>2. /\ NoEvent.call \notin Calls /\ held'.event = NoEvent
      /\ \A e \in InFlight' : e # NoEvent => \E i \in 1..Len(events) : e = events[i]
  BY <1>1, Handled, NoEventShape
<1>3. /\ \A c \in Calls : callStateRank(calls[c]) \in 1..6 /\ callStateRank(srv[c]) \in 1..6
      /\ \A e \in InFlight : e.call \in Calls => callStateRank(e.state) \in 2..6
      /\ callStateRank("none") = 1 /\ callStateRank("answered") = 4
  BY RankFacts, Ranks
<1>4. ASSUME NEW c \in Calls PROVE callStateRank(calls'[c]) <= callStateRank(srv[c])
  BY <1>1, <1>3 DEF LineOrdered
<1>5. ASSUME NEW e \in InFlight', e.call \in Calls
      PROVE  /\ callStateRank(calls'[e.call]) <= callStateRank(e.state)
             /\ callStateRank(e.state) <= callStateRank(srv[e.call])
  <2>1. e # NoEvent
    BY <1>2, <1>5
  <2>2. PICK i \in 1..Len(events) : e = events[i]
    BY <1>2, <2>1
  <2>3. e \in InFlight /\ Before(h, e)
    BY <2>2 DEF InFlight, LineOrdered
  <2>4. callStateRank(calls[e.call]) <= callStateRank(e.state)
        /\ callStateRank(e.state) <= callStateRank(srv[e.call])
    BY <1>5, <2>3 DEF LineOrdered
  <2>5. e.call = h.call => callStateRank(h.state) <= callStateRank(e.state)
    BY <1>1, <1>3, <1>5, <2>3 DEF Before
  <2>6. QED
    BY <1>1, <1>3, <1>5, <2>3, <2>4, <2>5
<1>6. \A i \in 1..Len(events) : Before(held'.event, events[i])
  BY <1>2 DEF Before
<1>7. QED
  BY <1>1, <1>4, <1>5, <1>6 DEF LineOrdered, Before

\* The server sends an event about c that reports its new state, or repeats
\* "answered", behind all the others.
LEMMA SendingKeepsOrder ==
    ASSUME TypeOK, LineOrdered, NEW c \in Calls, NEW e \in Events, e.call = c,
           events' = Append(events, e), UNCHANGED <<held, calls>>,
           srv'[c] = e.state, \A b \in Calls : b # c => srv'[b] = srv[b],
           \/ callStateRank(srv[c]) < callStateRank(e.state)
           \/ srv[c] = "answered" /\ e.state = "answered"
    PROVE  LineOrdered'
<1>1. /\ Len(events) \in Nat /\ Len(events') = Len(events) + 1 /\ InFlight' = InFlight \cup {e}
      /\ events'[Len(events')] = e /\ \A i \in 1..Len(events) : events'[i] = events[i]
  BY SentOne
<1>2. /\ \A b \in Calls : callStateRank(calls[b]) \in 1..6 /\ callStateRank(srv[b]) \in 1..6
      /\ \A f \in InFlight : f.call \in Calls => callStateRank(f.state) \in 2..6
  BY RankFacts
<1>3. callStateRank(e.state) \in 2..6
  BY EventShape, Ranks DEF CallStates
<1>4. ASSUME NEW f \in InFlight PROVE Before(f, e)
  <2>1. CASE f.call = c
    <3>1. callStateRank(f.state) <= callStateRank(srv[c])
      BY <2>1 DEF LineOrdered
    <3>2. f.state \in CallStates
      BY <2>1, EventShape, NoEventShape DEF InFlight, TypeOK
    <3>3. QED
      BY <1>2, <1>3, <2>1, <3>1, <3>2, Ranks DEF Before, CallStates
  <2>2. CASE f.call # c
    BY <2>2 DEF Before
  <2>3. QED
    BY <2>1, <2>2
<1>5. callStateRank(srv[c]) <= callStateRank(srv'[c])
  BY <1>2, <1>3
<1>6. ASSUME NEW i \in 1..Len(events'), NEW j \in 1..Len(events'), i < j
      PROVE  Before(events'[i], events'[j])
  <2>1. i \in 1..Len(events) /\ events'[i] = events[i] /\ events[i] \in InFlight
    BY <1>1, <1>6 DEF InFlight
  <2>2. j \in 1..Len(events) \/ j = Len(events')
    BY <1>1
  <2>3. CASE j \in 1..Len(events)
    BY <1>1, <1>6, <2>1, <2>3 DEF LineOrdered
  <2>4. CASE j = Len(events')
    BY <1>1, <1>4, <2>1, <2>4
  <2>5. QED
    BY <2>2, <2>3, <2>4
<1>7. ASSUME NEW i \in 1..Len(events') PROVE Before(held'.event, events'[i])
  <2>1. i \in 1..Len(events) \/ i = Len(events')
    BY <1>1
  <2>2. held.event \in InFlight
    BY DEF InFlight
  <2>3. QED
    BY <1>1, <1>4, <2>1, <2>2 DEF LineOrdered
<1>8. ASSUME NEW f \in InFlight', f.call \in Calls
      PROVE  /\ callStateRank(calls'[f.call]) <= callStateRank(f.state)
             /\ callStateRank(f.state) <= callStateRank(srv'[f.call])
  <2>1. CASE f \in InFlight
    BY <1>2, <1>3, <1>5, <1>8, <2>1 DEF LineOrdered
  <2>2. CASE f = e
    <3>1. callStateRank(calls[c]) <= callStateRank(srv[c])
      BY DEF LineOrdered
    <3>2. QED
      BY <1>2, <1>3, <1>5, <2>2, <3>1
  <2>3. QED
    BY <1>1, <1>8, <2>1, <2>2
<1>9. ASSUME NEW b \in Calls PROVE callStateRank(calls'[b]) <= callStateRank(srv'[b])
  <2>1. callStateRank(calls[b]) <= callStateRank(srv[b])
    BY DEF LineOrdered
  <2>2. QED
    BY <1>2, <1>3, <1>5, <2>1
<1>10. QED
  BY <1>6, <1>7, <1>8, <1>9 DEF LineOrdered, Before

\* The server announces a winner and reports it answered, in this order.
LEMMA WinnerFirstKeepsOrder ==
    ASSUME TypeOK, LineOrdered, NEW c \in Calls, ServerAnnouncesWinnerFirst(c)
    PROVE  LineOrdered'
<1> DEFINE d == DialEvent(LegTag[c], c)
           e == StateEvent(c, "answered")
<1>1. /\ d \in Events /\ e \in Events /\ events' = events \o <<d, e>>
      /\ srv[c] \in {"created", "ringing"} /\ srv'[c] = "answered"
      /\ (\A b \in Calls : b # c => srv'[b] = srv[b]) /\ UNCHANGED <<held, calls>>
  BY WinnerFirstEffect
<1>2. d.call = c /\ d.state = "answered" /\ e.call = c /\ e.state = "answered"
  BY DEF DialEvent, StateEvent
<1> HIDE DEF d, e
<1>3. /\ Len(events) \in Nat /\ Len(events') = Len(events) + 2 /\ InFlight' = InFlight \cup {d, e}
      /\ events'[Len(events) + 1] = d /\ events'[Len(events) + 2] = e
      /\ \A i \in 1..Len(events) : events'[i] = events[i]
  BY <1>1, SentTwo
<1>4. /\ \A b \in Calls : callStateRank(calls[b]) \in 1..6 /\ callStateRank(srv[b]) \in 1..6
      /\ \A f \in InFlight : f.call \in Calls => callStateRank(f.state) \in 2..6
      /\ callStateRank("answered") = 4 /\ callStateRank(srv[c]) < 4
  BY <1>1, RankFacts, Ranks
<1>5. \A f \in InFlight : Before(f, d) /\ Before(f, e)
  BY <1>2, <1>4 DEF LineOrdered, Before
<1>6. Before(d, e)
  BY <1>2 DEF Before
<1>7. ASSUME NEW i \in 1..Len(events'), NEW j \in 1..Len(events'), i < j
      PROVE  Before(events'[i], events'[j])
  <2>1. /\ i \in 1..Len(events) \/ (i = Len(events) + 1 /\ j = Len(events) + 2)
        /\ j \in 1..Len(events) \/ j \in {Len(events) + 1, Len(events) + 2}
    BY <1>3, <1>7
  <2>2. \A k \in 1..Len(events) : events[k] \in InFlight
    BY DEF InFlight
  <2>3. CASE i \in 1..Len(events) /\ j \in 1..Len(events)
    BY <1>3, <1>7, <2>3 DEF LineOrdered
  <2>4. CASE i \in 1..Len(events) /\ j \in {Len(events) + 1, Len(events) + 2}
    BY <1>3, <1>5, <2>2, <2>4
  <2>5. CASE i = Len(events) + 1 /\ j = Len(events) + 2
    BY <1>3, <1>6, <2>5
  <2>6. QED
    BY <2>1, <2>3, <2>4, <2>5
<1>8. ASSUME NEW i \in 1..Len(events') PROVE Before(held'.event, events'[i])
  <2>1. i \in 1..Len(events) \/ i = Len(events) + 1 \/ i = Len(events) + 2
    BY <1>3
  <2>2. held' = held /\ held.event \in InFlight
    BY <1>1 DEF InFlight
  <2>3. QED
    BY <1>3, <1>5, <2>1, <2>2 DEF LineOrdered
<1>9. ASSUME NEW f \in InFlight', f.call \in Calls
      PROVE  /\ callStateRank(calls'[f.call]) <= callStateRank(f.state)
             /\ callStateRank(f.state) <= callStateRank(srv'[f.call])
  <2>1. CASE f \in InFlight
    <3>1. /\ callStateRank(calls[f.call]) <= callStateRank(f.state)
          /\ callStateRank(f.state) <= callStateRank(srv[f.call])
      BY <1>9, <2>1 DEF LineOrdered
    <3>2. QED
      BY <1>1, <1>4, <1>9, <2>1, <3>1
  <2>2. CASE f \in {d, e}
    <3>1. callStateRank(calls[c]) <= callStateRank(srv[c])
      BY DEF LineOrdered
    <3>2. QED
      BY <1>1, <1>2, <1>4, <2>2, <3>1
  <2>3. QED
    BY <1>3, <1>9, <2>1, <2>2
<1>10. ASSUME NEW b \in Calls PROVE callStateRank(calls'[b]) <= callStateRank(srv'[b])
  <2>1. callStateRank(calls[b]) <= callStateRank(srv[b])
    BY DEF LineOrdered
  <2>2. QED
    BY <1>1, <1>4, <2>1
<1>11. QED
  BY <1>7, <1>8, <1>9, <1>10 DEF LineOrdered, Before

\* The announcement of a failure is about no call.
LEMMA FailureKeepsOrder ==
    ASSUME TypeOK, LineOrdered, NEW u \in Tags, ServerAnnouncesFailure(u)
    PROVE  LineOrdered'
<1> DEFINE e == DialFailure(u)
<1>1. e \in Events /\ events' = Append(events, e) /\ UNCHANGED <<held, calls, srv>>
  BY EventsMade DEF ServerAnnouncesFailure
<1>2. e.call \notin Calls
  BY NamesAssumption DEF DialFailure
<1> HIDE DEF e
<1>3. /\ Len(events) \in Nat /\ Len(events') = Len(events) + 1 /\ InFlight' = InFlight \cup {e}
      /\ events'[Len(events')] = e /\ \A i \in 1..Len(events) : events'[i] = events[i]
  BY <1>1, SentOne
<1>4. \A f : Before(f, e)
  BY <1>2 DEF Before
<1>5. ASSUME NEW i \in 1..Len(events'), NEW j \in 1..Len(events'), i < j
      PROVE  Before(events'[i], events'[j])
  <2>1. i \in 1..Len(events) /\ (j \in 1..Len(events) \/ j = Len(events'))
    BY <1>3, <1>5
  <2>2. QED
    BY <1>3, <1>4, <1>5, <2>1 DEF LineOrdered
<1>6. ASSUME NEW i \in 1..Len(events') PROVE Before(held'.event, events'[i])
  <2>1. i \in 1..Len(events) \/ i = Len(events')
    BY <1>3
  <2>2. QED
    BY <1>1, <1>3, <1>4, <2>1 DEF LineOrdered
<1>7. QED
  BY <1>1, <1>2, <1>3, <1>5, <1>6 DEF LineOrdered, Before

\* The events of a call reach the registry in the order of its states, and the
\* registry's state is behind them: whatever is lost, sent late or sent twice.
THEOREM EventsStayOrdered == Spec => []LineOrdered
<1>1. Init => LineOrdered
  <2> SUFFICES ASSUME Init PROVE LineOrdered
    OBVIOUS
  <2>1. InFlight = {NoEvent} /\ NoEvent.call \notin Calls /\ Len(events) = 0
    BY NoEventShape DEF Init, InFlight
  <2>2. \A c \in Calls : callStateRank(calls[c]) <= callStateRank(srv[c])
    BY Ranks DEF Init
  <2>3. QED
    BY <2>1, <2>2 DEF LineOrdered
<1>2. TypeOK /\ LineOrdered /\ [Next]_vars => LineOrdered'
  <2> SUFFICES ASSUME TypeOK, LineOrdered, [Next]_vars PROVE LineOrdered'
    OBVIOUS
  <2>1. ASSUME UNCHANGED <<events, held, calls, srv>> PROVE LineOrdered'
    BY <2>1 DEF LineOrdered, Before, InFlight
  <2>2. ASSUME NEW d \in Dials, DialStep(d) \/ ServerTakesDial(d) PROVE LineOrdered'
    BY <2>1, <2>2 DEF DialStep, DialRegisters, DialAccepted, DialRefused, DialReceives,
                     DialGivesUp, DialUnregisters, ServerTakesDial, serverVars
  <2>3. ASSUME NEW c \in Calls,
               \/ ServerCreates(c) \/ (\E s \in ServerStates : ServerAdvances(c, s))
               \/ ServerAnnouncesWinner(c)
        PROVE  LineOrdered'
    <3>1. PICK e \in Events :
              /\ e.call = c /\ events' = Append(events, e) /\ srv'[c] = e.state
              /\ \A b \in Calls : b # c => srv'[b] = srv[b]
              /\ \/ srv[c] = "none" /\ e.state = "created"
                 \/ callStateRank(srv[c]) < callStateRank(e.state)
                 \/ srv[c] = "answered" /\ e = DialEvent(LegTag[c], c)
              /\ UNCHANGED <<held, calls>>
      BY <2>3, ServerEffect
    <3>2. \/ callStateRank(srv[c]) < callStateRank(e.state)
          \/ srv[c] = "answered" /\ e.state = "answered"
      BY <3>1, Ranks DEF DialEvent
    <3>3. QED
      BY <3>1, <3>2, SendingKeepsOrder
  <2>4. CASE LinkDrops
    <3>1. Len(events') = 0 /\ InFlight' \subseteq InFlight /\ UNCHANGED <<held, calls, srv>>
      BY <2>4 DEF LinkDrops, InFlight, serverVars
    <3>2. QED
      BY <3>1 DEF LineOrdered
  <2>5. CASE UNCHANGED vars
    BY <2>1, <2>5 DEF vars, serverVars
  <2>6. QED
    BY <2>2, <2>3, <2>4, <2>5, TakeKeepsOrder, HandlingKeepsOrder, WinnerFirstKeepsOrder,
       FailureKeepsOrder DEF Next, ServerStep, ReaderStep
<1>3. QED
  BY <1>1, <1>2, RegistryTypes, PTL DEF Spec

\* The state of a registered call never goes backwards: for any number of calls
\* and dials, whichever of the dial and state events comes first.
THEOREM StatesDoNotRegress == Spec => StateNeverRegresses
<1>1. TypeOK /\ LineOrdered /\ [Next]_vars =>
          [\A c \in Registered :
              calls'[c] # "none" => callStateRank(calls'[c]) >= callStateRank(calls[c])]_vars
  <2> SUFFICES ASSUME TypeOK, LineOrdered, Next, NEW c \in Registered, calls'[c] # "none"
               PROVE  callStateRank(calls'[c]) >= callStateRank(calls[c])
    OBVIOUS
  <2>1. c \in Calls /\ callStateRank(calls[c]) \in 1..6
    BY RankFacts DEF Registered
  <2>2. CASE calls'[c] = calls[c]
    BY <2>1, <2>2
  <2>3. CASE calls'[c] # calls[c]
    <3>1. ReaderStep /\ ~TakeEvent
      BY <2>3 DEF Next, DialStep, DialRegisters, DialAccepted, DialRefused, DialReceives,
                  DialGivesUp, DialUnregisters, TakeEvent, ServerStep, ServerTakesDial,
                  ServerAnnouncesFailure, ServerCreates, ServerAdvances, ServerAnnouncesWinner,
                  ServerAnnouncesWinnerFirst, LinkDrops
    <3>2. held.event \in InFlight /\ held.event.call = c /\ calls'[c] = held.event.state
      BY <2>1, <2>3, <3>1, HandlerEffect
    <3>3. callStateRank(calls[c]) <= callStateRank(held.event.state)
      BY <2>1, <3>2 DEF LineOrdered
    <3>4. callStateRank(held.event.state) \in 2..6
      BY <2>1, <3>2, RankFacts
    <3>5. QED
      BY <2>1, <3>2, <3>3, <3>4
  <2>4. QED
    BY <2>2, <2>3
<1>2. QED
  BY <1>1, RegistryTypes, EventsStayOrdered, PTL DEF Spec, StateNeverRegresses

-----------------------------------------------------------------------------
(* The winner stays registered                                             *)

\* A call that is there stays there until the server has ended it, since only its
\* "ended" event prunes it; and what has ended stays ended.
LEMMA AliveStays ==
    ASSUME TypeOK, LineOrdered, Next, NEW c \in Calls, Alive(c)
    PROVE  Alive(c)'
<1>1. CASE ReaderStep /\ ~TakeEvent
  <2>1. /\ held.event \in InFlight /\ srv' = srv
        /\ \/ calls'[c] = calls[c]
           \/ held.event.call = c /\ calls'[c] = held.event.state
           \/ held.event.call = c /\ held.event.state = "ended"
    BY <1>1, HandlerEffect
  <2>2. CASE calls'[c] = calls[c]
    BY <2>1, <2>2 DEF Alive
  <2>3. CASE held.event.call = c /\ calls'[c] = held.event.state
    <3>1. calls'[c] # "none"
      BY <2>1, <2>3, RankFacts, Ranks
    <3>2. QED
      BY <3>1 DEF Alive
  <2>4. CASE held.event.call = c /\ held.event.state = "ended"
    <3>1. callStateRank(srv[c]) = 6
      BY <2>1, <2>4, RankFacts, Ranks DEF LineOrdered
    <3>2. QED
      BY <2>1, <3>1, RankFacts DEF Alive
  <2>5. QED
    BY <2>1, <2>2, <2>3, <2>4
<1>2. CASE \E b \in Calls :
              \/ ServerCreates(b) \/ (\E s \in ServerStates : ServerAdvances(b, s))
              \/ ServerAnnouncesWinner(b)
  <2>1. PICK b \in Calls : \/ ServerCreates(b) \/ (\E s \in ServerStates : ServerAdvances(b, s))
                           \/ ServerAnnouncesWinner(b)
    BY <1>2
  <2>2. calls' = calls /\ (srv[c] = "ended" => srv'[c] = "ended")
    <3>1. PICK e \in Events :
              /\ e.call = b /\ \A a \in Calls : a # b => srv'[a] = srv[a]
              /\ \/ srv[b] = "none" \/ callStateRank(srv[b]) < callStateRank(e.state)
                 \/ srv[b] = "answered"
              /\ calls' = calls
      BY <2>1, ServerEffect
    <3>2. callStateRank(e.state) \in 2..6
      BY <3>1, EventShape, Ranks DEF CallStates
    <3>3. srv[b] # "ended"
      BY <3>1, <3>2, Ranks
    <3>4. QED
      BY <3>1, <3>3
  <2>3. QED
    BY <2>2 DEF Alive
<1>3. CASE \E b \in Calls : ServerAnnouncesWinnerFirst(b)
  BY <1>3, WinnerFirstEffect DEF Alive
<1>4. CASE UNCHANGED <<calls, srv>>
  BY <1>4 DEF Alive
<1>5. QED
  BY <1>1, <1>2, <1>3, <1>4
     DEF Next, DialStep, DialRegisters, DialAccepted, DialRefused, DialReceives, DialGivesUp,
         DialUnregisters, ReaderStep, TakeEvent, ServerStep, ServerTakesDial,
         ServerAnnouncesFailure, LinkDrops, serverVars

\* The call a dial returned stays registered, so that its events reach it, until
\* the server has ended it: for any number of dials and legs.
THEOREM WinnersStayRegistered == Spec => []WinnerStaysRegistered
<1>1. Init => WinnersInPlace
  BY NamesAssumption DEF Init, WinnersInPlace
<1>2. TypeOK /\ LineOrdered /\ WinnersInPlace /\ [Next]_vars => WinnersInPlace'
  <2> SUFFICES ASSUME TypeOK, LineOrdered, WinnersInPlace, [Next]_vars,
                      NEW d \in Dials, NEW c \in Calls, c \in {chan'[d], result'[d]}
               PROVE  Alive(c)'
    BY DEF WinnersInPlace
  <2>1. CASE UNCHANGED vars
    BY <2>1 DEF vars, dialVars, serverVars, WinnersInPlace, Alive
  <2>2. CASE Next /\ c \in {chan[d], result[d]}
    BY <2>2, AliveStays DEF WinnersInPlace
  <2>3. CASE Next /\ c \notin {chan[d], result[d]}
    <3>1. ASSUME NEW e \in Dials, DialStep(e) PROVE FALSE
      BY <2>3, <3>1, NamesAssumption
         DEF DialStep, DialRegisters, DialAccepted, DialRefused, DialReceives, DialGivesUp,
             DialUnregisters, Returns, TypeOK
    <3>2. ReaderStep /\ ~TakeEvent
      BY <2>3, <3>1
         DEF Next, TakeEvent, ServerStep, ServerTakesDial, ServerAnnouncesFailure, ServerCreates,
             ServerAdvances, ServerAnnouncesWinner, ServerAnnouncesWinnerFirst, LinkDrops, dialVars
    <3>3. /\ result' = result
          /\ \/ chan' = chan
             \/ /\ held.dial \in Dials /\ Offer(held.dial, Outcome(held.event))
                /\ Outcome(held.event) \in Calls => calls'[Outcome(held.event)] # "none"
      BY <3>2, HandlerEffect
    <3>4. c = Outcome(held.event) /\ calls'[c] # "none"
      BY <2>3, <3>3 DEF Offer, TypeOK
    <3>5. QED
      BY <3>4 DEF Alive
  <2>4. QED
    BY <2>1, <2>2, <2>3
<1>3. WinnersInPlace => WinnerStaysRegistered
  BY DEF WinnersInPlace, WinnerStaysRegistered, Alive
<1>4. QED
  BY <1>1, <1>2, <1>3, RegistryTypes, EventsStayOrdered, PTL DEF Spec

-----------------------------------------------------------------------------
(* No call outlives its end                                                *)

\* The end of a call is in flight when its event is.
LEMMA EndIsEvent == \A c \in Calls : EndInFlight(c) <=> StateEvent(c, "ended") \in InFlight
  BY DEF EndInFlight, InFlight

\* What the read loop does with an event of a call, seen from the call's end.
LEMMA HandlerAndEnd ==
    ASSUME TypeOK, LegsInPlace, ReaderStep, ~TakeEvent, held.event.call \in Calls
    PROVE  /\ calls'[held.event.call] = "none" /\ held.event.state # "ended" => held.dial = NoDial
           /\ held.event.state = "ended" =>
                 /\ held.event = StateEvent(held.event.call, "ended")
                 /\ \/ calls'[held.event.call] = "none"
                    \/ held.dial # NoDial /\ calls[held.event.call] = "none"
<1> USE DEF Handling
<1> DEFINE c == held.event.call
           s == held.event.state
<1>1. held.event \in Events /\ calls \in [Calls -> CallStates \cup {"none"}]
  BY HandlerEffect DEF TypeOK
<1>2. s \in CallStates /\ s # "none"
  BY <1>1, EventShape DEF CallStates
<1>3. s = "ended" => held.event = StateEvent(c, "ended")
  BY <1>1, EventShape
<1>4. CASE HandleReceive
  BY <1>1, <1>3, <1>4, EventShape DEF HandleReceive, LegsInPlace
<1>5. CASE HandleStaleDial
  BY <1>1, <1>3, <1>5, EventShape DEF HandleStaleDial
<1>6. CASE HandleDialAnswered
  BY <1>1, <1>3, <1>6 DEF HandleDialAnswered
<1>7. CASE HandleDialFailed
  BY <1>2, <1>7 DEF HandleDialFailed, CallStates
<1>8. CASE HandleStateOfNewLeg
  BY <1>1, <1>2, <1>3, <1>8 DEF HandleStateOfNewLeg
<1>9. CASE HandleState
  BY <1>1, <1>2, <1>3, <1>9 DEF HandleState
<1>10. CASE HandleStateOfUnknownCall
  BY <1>1, <1>2, <1>3, <1>10 DEF HandleStateOfUnknownCall
<1>11. QED
  BY <1>4, <1>5, <1>6, <1>7, <1>8, <1>9, <1>10 DEF ReaderStep

\* DialContext: the entry of a leg's tag can only go.
LEMMA DialFollows ==
    ASSUME TypeOK, RegistryFollows, NEW d \in Dials, DialStep(d)
    PROVE  RegistryFollows'
<1>0. UNCHANGED <<events, held, calls, srv, asked, dropped>> /\ TagOf[d] \in Tags
  BY TagsAssumption
     DEF DialStep, DialRegisters, DialAccepted, DialRefused, DialReceives, DialGivesUp,
         DialUnregisters, serverVars
<1>1. \A e \in Dials : dpc[e] # "idle" => dpc'[e] # "idle"
  BY DEF DialStep, DialRegisters, DialAccepted, DialRefused, DialReceives, DialGivesUp,
         DialUnregisters, Returns, TypeOK
<1>2. LegsInPlace'
  BY <1>0, <1>1 DEF RegistryFollows, LegsInPlace, InFlight
<1>3. \A u \in Tags : pendingDials[u] = NoDial /\ u \in asked => pendingDials'[u] = NoDial
  BY <1>0 DEF DialStep, DialRegisters, DialAccepted, DialRefused, DialReceives, DialGivesUp,
              DialUnregisters, Returns, RegistryFollows, LegsInPlace, TypeOK
<1>4. ASSUME EndsFollowed PROVE EndsFollowed'
  <2> SUFFICES ASSUME NEW c \in Calls
               PROVE  /\ Finished(c)' => calls'[c] = "none" /\ \A e \in InFlight' : e.call # c
                      /\ Unclaimed(c)' => /\ pendingDials'[LegTag[c]] = NoDial
                                          /\ held'.event.call = c => held'.dial = NoDial
    BY DEF EndsFollowed
  <2>1. (Finished(c)' <=> Finished(c)) /\ InFlight' = InFlight /\ (Unclaimed(c)' <=> Unclaimed(c))
    BY <1>0 DEF Finished, Unclaimed, Unheard, EndInFlight, InFlight
  <2>2. Unclaimed(c) => LegTag[c] \in Tags /\ LegTag[c] \in asked
    BY LegsHaveTags DEF Unclaimed, RegistryFollows, LegsInPlace
  <2>3. QED
    BY <1>0, <1>3, <1>4, <2>1, <2>2 DEF EndsFollowed
<1>5. QED
  BY <1>0, <1>2, <1>4 DEF RegistryFollows

\* The read loop takes an event: the first one of a leg registers it unless its
\* dial is gone, and an unclaimed leg's event finds no dial.
LEMMA TakeFollows ==
    ASSUME TypeOK, RegistryFollows, TakeEvent
    PROVE  RegistryFollows'
<1> DEFINE e == held'.event
<1>0. UNCHANGED <<dpc, pendingDials, calls, srv, asked, dropped>>
  BY DEF TakeEvent, dialVars, serverVars
<1>1. /\ held = NothingHeld /\ Len(events) \in Nat /\ Len(events) >= 1
      /\ e = events[1] /\ e \in Events
      /\ held'.dial = IF e.tag \in Tags /\ e.type # "receive" THEN pendingDials[e.tag] ELSE NoDial
      /\ Len(events') = Len(events) - 1
      /\ \A i \in 1..Len(events') : i + 1 \in 1..Len(events) /\ events'[i] = events[i + 1]
      /\ InFlight' \subseteq InFlight /\ InFlight \subseteq InFlight' \cup {NoEvent}
  BY Taken
<1>2. e \in InFlight
  BY <1>1 DEF InFlight
<1>3. LegsInPlace'
  BY <1>0, <1>1 DEF RegistryFollows, LegsInPlace
<1>4. ASSUME EndsFollowed PROVE EndsFollowed'
  <2> SUFFICES ASSUME NEW c \in Calls
               PROVE  /\ Finished(c)' => calls'[c] = "none" /\ \A f \in InFlight' : f.call # c
                      /\ Unclaimed(c)' => /\ pendingDials'[LegTag[c]] = NoDial
                                          /\ e.call = c => held'.dial = NoDial
    BY DEF EndsFollowed
  <2>1. EndInFlight(c)' <=> EndInFlight(c)
    <3>1. StateEvent(c, "ended") # NoEvent
      BY NoEventShape DEF StateEvent
    <3>2. StateEvent(c, "ended")' = StateEvent(c, "ended")
      BY DEF StateEvent
    <3>3. EndInFlight(c)' <=> StateEvent(c, "ended") \in InFlight'
      BY DEF EndInFlight, InFlight
    <3>4. QED
      BY <1>1, <3>1, <3>3, EndIsEvent
  <2>2. Finished(c)' <=> Finished(c)
    BY <1>0, <2>1 DEF Finished
  <2>3. ASSUME Unclaimed(c)'
        PROVE  pendingDials[LegTag[c]] = NoDial /\ (e.call = c => held'.dial = NoDial)
    <3>1. /\ c \notin Inbound /\ srv[c] # "none" /\ calls[c] = "none" /\ ~Finished(c)
          /\ ~Unheard(c)' /\ LegTag[c] \in Tags
      BY <1>0, <2>2, <2>3, LegsHaveTags DEF Unclaimed
    <3>2. e.call = c => e.type # "receive" /\ e.tag = LegTag[c]
      BY <1>1, <1>2, <3>1, EventShape DEF RegistryFollows, LegsInPlace
    <3>3. e.call = c => held'.dial = pendingDials[LegTag[c]]
      BY <1>1, <3>1, <3>2
    <3>4. CASE Unheard(c)
      <4>1. PICK i \in 1..Len(events) : events[i].call = c /\ events[i].state = "created"
        BY <1>1, <3>4, NoEventShape DEF Unheard
      <4>2. ASSUME i # 1 PROVE FALSE
        <5>1. i - 1 \in 1..Len(events') /\ events'[i - 1] = events[i]
          BY <1>1, <4>2
        <5>2. QED
          BY <3>1, <4>1, <5>1 DEF Unheard
      <4>3. e.call = c /\ e.state = "created"
        BY <1>1, <4>1, <4>2
      <4>4. held'.dial = NoDial
        BY <3>1, <4>3 DEF Unheard
      <4>5. QED
        BY <3>3, <4>3, <4>4
    <3>5. CASE ~Unheard(c)
      BY <1>4, <3>1, <3>3, <3>5 DEF Unclaimed, EndsFollowed
    <3>6. QED
      BY <3>4, <3>5
  <2>4. QED
    BY <1>0, <1>1, <1>4, <2>2, <2>3 DEF EndsFollowed
<1>5. QED
  BY <1>0, <1>3, <1>4 DEF RegistryFollows

\* The read loop handles an event: the end of a call is the last event about it,
\* and finds it registered or unclaimed.
LEMMA HandlingFollows ==
    ASSUME TypeOK, LineOrdered, OutcomesInPlace, RegistryFollows, ReaderStep, ~TakeEvent
    PROVE  RegistryFollows'
<1> DEFINE h == held.event
<1>0. /\ h \in InFlight /\ held' = NothingHeld
      /\ UNCHANGED <<dpc, pendingDials, events, srv, asked, dropped>>
      /\ \A c \in Calls : c # h.call => calls'[c] = calls[c]
      /\ h.call \in Calls => \/ calls'[h.call] = calls[h.call] \/ calls'[h.call] = h.state
                             \/ calls'[h.call] = "none"
  BY HandlerEffect
<1>1. /\ held'.event = NoEvent /\ held'.dial = NoDial /\ NoEvent.type = "none"
      /\ NoEvent.call \notin Calls /\ InFlight' \subseteq InFlight \cup {NoEvent}
      /\ \A e \in InFlight' : e # NoEvent => \E i \in 1..Len(events) : e = events[i]
  BY <1>0, Handled, NoEventShape
<1>2. LegsInPlace'
  BY <1>0, <1>1 DEF RegistryFollows, LegsInPlace
<1>3. ASSUME EndsFollowed PROVE EndsFollowed'
  <2> SUFFICES ASSUME NEW c \in Calls
               PROVE  /\ Finished(c)' => calls'[c] = "none" /\ \A e \in InFlight' : e.call # c
                      /\ Unclaimed(c)' => /\ pendingDials'[LegTag[c]] = NoDial
                                          /\ held'.event.call = c => held'.dial = NoDial
    BY DEF EndsFollowed
  <2>0. /\ EndInFlight(c)' <=> \E i \in 1..Len(events) : events[i] = StateEvent(c, "ended")
        /\ Unheard(c)' <=>
              \E i \in 1..Len(events) : events[i].call = c /\ events[i].state = "created"
    BY <1>0, <1>1 DEF EndInFlight, Unheard, StateEvent
  <2>1. CASE c # h.call
    <3>1. (EndInFlight(c)' <=> EndInFlight(c)) /\ (Unheard(c)' <=> Unheard(c))
      BY <2>0, <2>1 DEF EndInFlight, Unheard, StateEvent
    <3>2. (Finished(c)' <=> Finished(c)) /\ (Unclaimed(c)' <=> Unclaimed(c)) /\ calls'[c] = calls[c]
      BY <1>0, <2>1, <3>1 DEF Finished, Unclaimed
    <3>3. QED
      BY <1>0, <1>1, <1>3, <3>2 DEF EndsFollowed
  <2>2. CASE c = h.call /\ h.state = "ended"
    <3>1. /\ h = StateEvent(c, "ended")
          /\ calls'[c] = "none" \/ (held.dial # NoDial /\ calls[c] = "none")
      BY <2>2, HandlerAndEnd DEF RegistryFollows
    <3>2. callStateRank(srv[c]) = 6 /\ srv[c] = "ended"
      BY <1>0, <2>2, RankFacts, Ranks DEF LineOrdered
    <3>3. ASSUME NEW i \in 1..Len(events) PROVE events[i].call # c
      <4>1. Before(h, events[i]) /\ events[i] \in InFlight
        BY DEF LineOrdered, InFlight
      <4>2. events[i].call = c => callStateRank(events[i].state) \in 2..6
        BY <4>1, RankFacts
      <4>3. QED
        BY <2>2, <4>1, <4>2, Ranks DEF Before
    <3>4. ~EndInFlight(c)'
      BY <2>0, <3>3 DEF StateEvent
    <3>5. \A e \in InFlight' : e.call # c
      BY <1>1, <3>3
    <3>6. calls'[c] = "none"
      <4> SUFFICES ASSUME held.dial # NoDial, calls[c] = "none" PROVE FALSE
        BY <3>1
      <4>1. EndInFlight(c) /\ ~Unheard(c)
        BY <2>2, <3>1, <3>3 DEF EndInFlight, Unheard
      <4>2. c \in Inbound
        BY <1>3, <2>2, <3>2, <4>1 DEF EndsFollowed, Unclaimed, Finished
      <4>3. TagOf[held.dial] \in Tags /\ held.event.tag = NoTag
        BY <3>1, <4>2, TagsAssumption DEF StateEvent, Inbound, TypeOK
      <4>4. held.dial = NoDial
        BY <4>3, TagsAssumption DEF OutcomesInPlace
      <4>5. QED
        BY <4>4
    <3>7. Finished(c)'
      BY <1>0, <3>2, <3>4 DEF Finished
    <3>8. QED
      BY <3>5, <3>6, <3>7 DEF Unclaimed
  <2>3. CASE c = h.call /\ h.state # "ended"
    <3>1. (EndInFlight(c)' <=> EndInFlight(c)) /\ (Finished(c)' <=> Finished(c))
      BY <1>0, <2>0, <2>3 DEF EndInFlight, StateEvent, Finished
    <3>2. ~Finished(c)
      BY <1>0, <1>3, <2>3 DEF EndsFollowed
    <3>3. ASSUME Unclaimed(c)' PROVE pendingDials[LegTag[c]] = NoDial
      <4>1. calls'[c] = "none" /\ ~Unheard(c)' /\ c \notin Inbound /\ srv[c] # "none"
        BY <1>0, <3>3 DEF Unclaimed
      <4>2. held.dial = NoDial
        BY <2>3, <4>1, HandlerAndEnd DEF RegistryFollows
      <4>3. calls[c] = "none"
        <5>1. h.state # "none"
          BY <1>0, <2>3, RankFacts, Ranks
        <5>2. QED
          BY <1>0, <2>3, <4>1, <5>1, HandlerEffect
      <4>4. ~Unheard(c)
        BY <2>0, <4>1, <4>2 DEF Unheard
      <4>5. QED
        BY <1>3, <3>2, <4>1, <4>3, <4>4 DEF EndsFollowed, Unclaimed
    <3>4. QED
      BY <1>0, <1>1, <3>1, <3>2, <3>3
  <2>4. QED
    BY <2>1, <2>2, <2>3
<1>4. QED
  BY <1>0, <1>2, <1>3 DEF RegistryFollows

\* The server sends events: a call they do not concern is as it was, and one they
\* concern has moved forward, its end with an event.
LEMMA SendingFollows ==
    ASSUME TypeOK, EndsFollowed, InFlight \subseteq InFlight',
           UNCHANGED <<pendingDials, calls, held>>,
           \A i \in 1..Len(events) : i \in 1..Len(events') /\ events'[i] = events[i],
           \A b \in Calls :
              \/ srv'[b] = srv[b] /\ \A e \in InFlight' : e.call = b => e \in InFlight
              \/ srv[b] \notin {"none", "ended"}
                 /\ (srv'[b] = "ended" => StateEvent(b, "ended") \in InFlight')
              \/ Unheard(b)' /\ srv'[b] # "ended"
    PROVE  EndsFollowed'
<1> SUFFICES ASSUME NEW c \in Calls
             PROVE  /\ Finished(c)' => calls'[c] = "none" /\ \A e \in InFlight' : e.call # c
                    /\ Unclaimed(c)' => /\ pendingDials'[LegTag[c]] = NoDial
                                        /\ held'.event.call = c => held'.dial = NoDial
  BY DEF EndsFollowed
<1>1. EndInFlight(c)' <=> StateEvent(c, "ended") \in InFlight'
  BY DEF EndInFlight, InFlight, StateEvent
<1>2. Unheard(c) => Unheard(c)'
  BY DEF Unheard
<1>3. CASE srv'[c] = srv[c] /\ \A e \in InFlight' : e.call = c => e \in InFlight
  <2>1. EndInFlight(c)' <=> EndInFlight(c)
    BY <1>1, <1>3, EndIsEvent DEF StateEvent
  <2>2. (Finished(c)' <=> Finished(c)) /\ (Unclaimed(c)' => Unclaimed(c))
    BY <1>2, <1>3, <2>1 DEF Finished, Unclaimed
  <2>3. QED
    BY <1>3, <2>2 DEF EndsFollowed
<1>4. CASE /\ srv[c] \notin {"none", "ended"}
           /\ srv'[c] = "ended" => StateEvent(c, "ended") \in InFlight'
  <2>1. ~Finished(c) /\ ~Finished(c)'
    BY <1>1, <1>4 DEF Finished
  <2>2. Unclaimed(c)' => Unclaimed(c)
    BY <1>2, <1>4, <2>1 DEF Unclaimed
  <2>3. QED
    BY <2>1, <2>2 DEF EndsFollowed
<1>5. CASE Unheard(c)' /\ srv'[c] # "ended"
  BY <1>5 DEF Finished, Unclaimed
<1>6. QED
  BY <1>3, <1>4, <1>5

\* The server and the connection: a leg is asked for by a dial that has registered.
LEMMA ServerFollows ==
    ASSUME DistinctTags, TypeOK, RegistryFollows, ServerStep \/ LinkDrops
    PROVE  RegistryFollows'
<1>1. ASSUME NEW d \in Dials, ServerTakesDial(d) PROVE RegistryFollows'
  <2>1. /\ UNCHANGED <<dpc, pendingDials, calls, events, held, srv, dropped>>
        /\ dpc[d] = "exec" /\ asked' = asked \cup {TagOf[d]}
    BY <1>1 DEF ServerTakesDial, dialVars
  <2>2. LegsInPlace'
    BY <2>1 DEF DistinctTags, RegistryFollows, LegsInPlace, InFlight
  <2>3. EndsFollowed => EndsFollowed'
    BY <2>1 DEF EndsFollowed, Finished, Unclaimed, Unheard, EndInFlight, InFlight
  <2>4. QED
    BY <2>1, <2>2, <2>3 DEF RegistryFollows
<1>2. ASSUME NEW t \in Tags, ServerAnnouncesFailure(t) PROVE RegistryFollows'
  <2>1. /\ events' = Append(events, DialFailure(t)) /\ DialFailure(t) \in Events
        /\ UNCHANGED <<dpc, pendingDials, calls, held, srv, asked, dropped>>
    BY <1>2, EventsMade DEF ServerAnnouncesFailure, dialVars
  <2>2. /\ Len(events) \in Nat /\ Len(events') = Len(events) + 1
        /\ \A i \in 1..Len(events) : events'[i] = events[i]
        /\ InFlight' = InFlight \cup {DialFailure(t)}
    BY <2>1, SentOne
  <2>3. DialFailure(t).call \notin Calls /\ DialFailure(t).type = "dial"
    BY NamesAssumption DEF DialFailure
  <2>4. LegsInPlace'
    BY <2>1, <2>2, <2>3 DEF RegistryFollows, LegsInPlace
  <2>5. EndsFollowed => EndsFollowed'
    <3>1. \A b \in Calls :
              srv'[b] = srv[b] /\ \A e \in InFlight' : e.call = b => e \in InFlight
      BY <2>1, <2>2, <2>3
    <3>2. \A i \in 1..Len(events) : i \in 1..Len(events')
      BY <2>2
    <3>3. QED
      BY <2>1, <2>2, <3>1, <3>2, SendingFollows
  <2>6. QED
    BY <2>1, <2>4, <2>5 DEF RegistryFollows
<1>3. ASSUME NEW c \in Calls,
             \/ ServerCreates(c) \/ (\E s \in ServerStates : ServerAdvances(c, s))
             \/ ServerAnnouncesWinner(c)
      PROVE  RegistryFollows'
  <2>1. PICK e \in Events :
            /\ e.call = c /\ events' = Append(events, e) /\ srv'[c] = e.state
            /\ \A b \in Calls : b # c => srv'[b] = srv[b]
            /\ \/ srv[c] = "none" /\ e.state = "created" /\ e.type # "dial"
                  /\ (c \in Inbound \/ LegTag[c] \in asked)
                  /\ (e.type = "receive" => c \in Inbound)
               \/ srv[c] # "none" /\ callStateRank(srv[c]) < callStateRank(e.state)
                  /\ e = StateEvent(c, e.state)
               \/ srv[c] = "answered" /\ e = DialEvent(LegTag[c], c) /\ c \notin Inbound
            /\ UNCHANGED <<dialVars, pendingDials, calls, held, asked, dropped>>
    BY <1>3, ServerEffect
  <2>2. /\ Len(events) \in Nat /\ Len(events') = Len(events) + 1
        /\ events'[Len(events')] = e /\ \A i \in 1..Len(events) : events'[i] = events[i]
        /\ InFlight' = InFlight \cup {e}
    BY <2>1, SentOne
  <2>3. callStateRank(e.state) \in 2..6
    BY <2>1, EventShape, Ranks DEF CallStates
  <2>4. /\ e.type = "receive" => c \in Inbound
        /\ e.type = "dial" => e.tag = LegTag[c]
        /\ c \notin Inbound => LegTag[c] \in asked
    BY <2>1 DEF StateEvent, DialEvent, RegistryFollows, LegsInPlace
  <2>5. LegsInPlace'
    BY <2>1, <2>2, <2>4 DEF dialVars, RegistryFollows, LegsInPlace
  <2>6. EndsFollowed => EndsFollowed'
    <3>1. \A i \in 1..Len(events) : i \in 1..Len(events')
      BY <2>2
    <3>2. CASE srv[c] = "none" /\ e.state = "created"
      <4>1. Len(events') \in 1..Len(events')
        BY <2>2
      <4>2. Unheard(c)' /\ srv'[c] # "ended"
        BY <2>1, <2>2, <3>2, <4>1 DEF Unheard
      <4>3. \A b \in Calls :
                \/ srv'[b] = srv[b] /\ \A f \in InFlight' : f.call = b => f \in InFlight
                \/ Unheard(b)' /\ srv'[b] # "ended"
        BY <2>1, <2>2, <4>2
      <4>4. QED
        BY <2>1, <2>2, <3>1, <4>3, SendingFollows
    <3>3. CASE srv[c] # "none"
      <4>1. srv[c] # "ended" /\ (srv'[c] = "ended" => StateEvent(c, "ended") \in {e})
        BY <2>1, <2>3, <3>3, Ranks DEF DialEvent
      <4>2. \A b \in Calls :
                \/ srv'[b] = srv[b] /\ \A f \in InFlight' : f.call = b => f \in InFlight
                \/ srv[b] \notin {"none", "ended"}
                   /\ (srv'[b] = "ended" => StateEvent(b, "ended") \in InFlight')
        BY <2>1, <2>2, <3>3, <4>1
      <4>3. QED
        BY <2>1, <2>2, <3>1, <4>2, SendingFollows
    <3>4. QED
      BY <2>1, <3>2, <3>3
  <2>7. QED
    BY <2>1, <2>5, <2>6 DEF RegistryFollows
<1>4. ASSUME NEW c \in Calls, ServerAnnouncesWinnerFirst(c) PROVE RegistryFollows'
  <2> DEFINE d == DialEvent(LegTag[c], c)
             e == StateEvent(c, "answered")
  <2>1. /\ c \notin Inbound /\ srv[c] \in {"created", "ringing"} /\ d \in Events /\ e \in Events
        /\ events' = events \o <<d, e>> /\ srv'[c] = "answered"
        /\ \A b \in Calls : b # c => srv'[b] = srv[b]
        /\ UNCHANGED <<dpc, pendingDials, calls, held, asked, dropped>>
    BY <1>4, WinnerFirstEffect DEF dialVars
  <2>2. d.call = c /\ d.type = "dial" /\ d.tag = LegTag[c] /\ e.call = c /\ e.type = "state"
    BY DEF DialEvent, StateEvent
  <2> HIDE DEF d, e
  <2>3. /\ Len(events) \in Nat /\ Len(events') = Len(events) + 2
        /\ \A i \in 1..Len(events) : events'[i] = events[i]
        /\ InFlight' = InFlight \cup {d, e}
    BY <2>1, SentTwo
  <2>4. LegsInPlace'
    BY <2>1, <2>2, <2>3 DEF RegistryFollows, LegsInPlace
  <2>5. EndsFollowed => EndsFollowed'
    <3>1. \A i \in 1..Len(events) : i \in 1..Len(events')
      BY <2>3
    <3>2. \A b \in Calls :
              \/ srv'[b] = srv[b] /\ \A f \in InFlight' : f.call = b => f \in InFlight
              \/ srv[b] \notin {"none", "ended"} /\ srv'[b] # "ended"
      BY <2>1, <2>2, <2>3
    <3>3. QED
      BY <2>1, <2>3, <3>1, <3>2, SendingFollows
  <2>6. QED
    BY <2>1, <2>4, <2>5 DEF RegistryFollows
<1>5. CASE LinkDrops
  <2>1. /\ dropped' /\ InFlight' \subseteq InFlight
        /\ UNCHANGED <<dpc, held, srv, asked>>
    BY <1>5 DEF LinkDrops, InFlight, dialVars, serverVars
  <2>2. LegsInPlace'
    BY <2>1 DEF RegistryFollows, LegsInPlace
  <2>3. QED
    BY <2>1, <2>2 DEF RegistryFollows
<1>6. QED
  BY <1>1, <1>2, <1>3, <1>4, <1>5 DEF ServerStep

\* A call that has ended is pruned by its "ended" event, unless it was lost with a
\* connection: for any number of dials with tags of their own, and of legs that
\* come before, after and without the dial that asked for them.
THEOREM NoCallOutlivesItsEnd ==
    ASSUME DistinctTags
    PROVE  Spec => []NoZombieCalls
<1>1. Init => RegistryFollows
  <2> SUFFICES ASSUME Init PROVE RegistryFollows
    OBVIOUS
  <2>1. InFlight = {NoEvent} /\ NoEvent.type = "none" /\ held.dial = NoDial
    BY NoEventShape DEF Init, InFlight
  <2>2. asked = {} /\ \A c \in Calls : srv[c] = "none"
    BY DEF Init
  <2>3. LegsInPlace
    BY <2>1, <2>2 DEF LegsInPlace, Init, NothingHeld
  <2>4. EndsFollowed
    BY <2>2 DEF EndsFollowed, Finished, Unclaimed
  <2>5. QED
    BY <2>3, <2>4 DEF RegistryFollows
<1>2. TypeOK /\ LineOrdered /\ OutcomeInv /\ RegistryFollows /\ [Next]_vars => RegistryFollows'
  <2> SUFFICES ASSUME TypeOK, LineOrdered, OutcomeInv, RegistryFollows, [Next]_vars
               PROVE  RegistryFollows'
    OBVIOUS
  <2>1. CASE UNCHANGED vars
    BY <2>1 DEF vars, dialVars, serverVars, RegistryFollows, LegsInPlace, EndsFollowed, Finished,
                Unclaimed, Unheard, EndInFlight, InFlight
  <2>2. QED
    BY <2>1, DialFollows, TakeFollows, HandlingFollows, ServerFollows DEF Next, OutcomeInv
<1>3. TypeOK /\ RegistryFollows => NoZombieCalls
  BY DEF RegistryFollows, EndsFollowed, Finished, NoZombieCalls, Registered
<1>4. QED
  BY <1>1, <1>2, <1>3, RegistryTypes, EventsStayOrdered, OutcomesStayInPlace, PTL DEF Spec
=============================================================================
