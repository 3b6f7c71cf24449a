---------------------------- MODULE RelayAction -----------------------------
(***************************************************************************)
(* Actions of pkg/relay/action.go and the verbs of call.go that start them.*)
(* Play, PlayAndCollect, Detect, ... register an Action under its control  *)
(* id and run the RPC in a goroutine of their own; resolve() is called by  *)
(* that goroutine when the RPC fails and by the read loop when a terminal  *)
(* event arrives, and both may happen: the server can have started what    *)
(* the client gave up on.                                                  *)
(***************************************************************************)
EXTENDS Naturals, FiniteSets

CONSTANTS Actions,    \* one element per started action, naming its control id
          Type,       \* the kind of each action
          Partials,   \* the server sends partial collect results (PartialResults)
          MaxEvents   \* bound on the events for one action

\* play also stands for record; collect for the standalone collect.
Types == {"play", "playAndCollect", "collect", "detect", "ai"}

ASSUME ActionsAssumption == Type \in [Actions -> Types]
ASSUME BoundsAssumption == MaxEvents \in Nat /\ Partials \in BOOLEAN

\* Events the server sends for a control id: event type and what tells them apart.
CollectEvents == {<<"collect", "final">>} \cup (IF Partials THEN {<<"collect", "partial">>} ELSE {})
EventsOf(type) ==
    CASE type = "play" -> {<<"play", s>> : s \in {"playing", "finished", "error"}}
      [] type = "playAndCollect" -> {<<"play", "playing">>, <<"play", "finished">>} \cup CollectEvents
      [] type = "collect" -> CollectEvents
      [] type = "detect" -> {<<"detect", "result">>, <<"detect", "finished">>}
      [] type = "ai" -> {<<"ai", "ended">>}

NoEvent == <<"none", "none">>
VerbError == <<"verb", "error">>    \* the event made up from the RPC's error
AllEvents == UNION {EventsOf(t) : t \in Types}

VARIABLES
    verb,       \* where the goroutine of the RPC is
    reader,     \* where the read loop is: [action, event, at]
    completed, result,   \* Action.completed, Action.result
    callback,   \* Action.onCompleted: "unset", "set", or the callback was "taken" by resolve
    ran,        \* history: how often the callback has run
    closed,     \* how often done has been closed: a second time panics
    waiting,    \* a goroutine in Action.Wait
    sent        \* history: events the server has sent for each action

resolveVars == <<completed, result, callback, ran, closed>>
vars == <<verb, reader, resolveVars, waiting, sent>>

Idle == [action |-> "none", event |-> NoEvent, at |-> "idle"]

Init ==
    /\ verb = [a \in Actions |-> "idle"]
    /\ reader = Idle
    /\ completed = [a \in Actions |-> FALSE]
    /\ result = [a \in Actions |-> NoEvent]
    /\ callback = [a \in Actions |-> "unset"]
    /\ ran = [a \in Actions |-> 0]
    /\ closed = [a \in Actions |-> 0]
    /\ waiting = [a \in Actions |-> "idle"]
    /\ sent = [a \in Actions |-> {}]

-----------------------------------------------------------------------------
(* The caller                                                              *)

\* newXAction, the OnCompleted option, registerAction, go execVerb(...)
StartVerb(a) ==
    /\ verb[a] = "idle"
    /\ verb' = [verb EXCEPT ![a] = "exec"]
    /\ \E set \in {"set", "unset"} : callback' = [callback EXCEPT ![a] = set]
    /\ UNCHANGED <<reader, completed, result, ran, closed, waiting, sent>>

\* OnCompleted at any later time
OnCompleted(a) ==
    /\ verb[a] # "idle" /\ callback[a] = "unset"
    /\ callback' = [callback EXCEPT ![a] = "set"]
    /\ UNCHANGED <<verb, reader, completed, result, ran, closed, waiting, sent>>

Wait(a) ==
    /\ verb[a] # "idle" /\ waiting[a] = "idle"
    /\ waiting' = [waiting EXCEPT ![a] = "waiting"]
    /\ UNCHANGED <<verb, reader, resolveVars, sent>>

\* case <-a.done
WaitReturns(a) ==
    /\ waiting[a] = "waiting" /\ closed[a] > 0
    /\ waiting' = [waiting EXCEPT ![a] = "returned"]
    /\ UNCHANGED <<verb, reader, resolveVars, sent>>

-----------------------------------------------------------------------------
(* resolve(), in three steps: the lock section, the callback, the close    *)

\* The lock section of the resolver that finds the action not completed.
Claim(a, e) ==
    /\ completed' = [completed EXCEPT ![a] = TRUE]
    /\ result' = [result EXCEPT ![a] = e]
    /\ callback' = [callback EXCEPT ![a] = IF @ = "set" THEN "taken" ELSE @]
    /\ UNCHANGED <<ran, closed>>

\* cb(event), when one was set at the time of the lock section
RunCallback(a) ==
    /\ ran' = [ran EXCEPT ![a] = IF callback[a] = "taken" THEN @ + 1 ELSE @]
    /\ UNCHANGED <<completed, result, callback, closed>>

CloseDone(a) ==
    /\ closed' = [closed EXCEPT ![a] = @ + 1]
    /\ UNCHANGED <<completed, result, callback, ran>>

-----------------------------------------------------------------------------
(* The goroutine of the verb                                               *)

VerbGoto(a, p) == verb' = [verb EXCEPT ![a] = p] /\ UNCHANGED <<reader, waiting, sent>>

VerbSucceeds(a) == verb[a] = "exec" /\ VerbGoto(a, "done") /\ UNCHANGED resolveVars

\* execVerb swallows a 404 or 410; the AI verbs call execute themselves.
VerbGone(a) ==
    /\ verb[a] = "exec" /\ Type[a] # "ai"
    /\ VerbGoto(a, "done") /\ UNCHANGED resolveVars

VerbFails(a) == verb[a] = "exec" /\ VerbGoto(a, "resolve") /\ UNCHANGED resolveVars

\* Variation: completed is not looked at.
VerbResolves_Unchecked(a) ==
    /\ verb[a] = "resolve"
    /\ VerbGoto(a, "callback") /\ Claim(a, VerbError)

\* Variation: the callback is forgotten.
VerbResolves_SkipsCallback(a) ==
    /\ verb[a] = "resolve"
    /\ IF completed[a] THEN VerbGoto(a, "done") /\ UNCHANGED resolveVars
       ELSE VerbGoto(a, "close") /\ Claim(a, VerbError)

VerbResolves(a) ==
    /\ verb[a] = "resolve"
    /\ IF completed[a] THEN VerbGoto(a, "done") /\ UNCHANGED resolveVars
       ELSE VerbGoto(a, "callback") /\ Claim(a, VerbError)

VerbRunsCallback(a) == verb[a] = "callback" /\ VerbGoto(a, "close") /\ RunCallback(a)

VerbCloses(a) == verb[a] = "close" /\ VerbGoto(a, "done") /\ CloseDone(a)

-----------------------------------------------------------------------------
(* The read loop: resolveAction                                            *)

\* Variation: the event type is not compared with terminalEvent.
Terminal_AnyType(type, e) == e[2] \in {"finished", "error", "final", "result", "ended"}

\* matchesTerminal, and the special case of detect
Terminal(type, e) ==
    CASE type = "play" -> e[1] = "play" /\ e[2] \in {"finished", "error"}
      [] type \in {"playAndCollect", "collect"} -> e[1] = "collect"
      [] type = "detect" -> e = <<"detect", "result">>
      [] type = "ai" -> e[1] = "ai"

ReaderGoto(r) == reader' = r /\ UNCHANGED <<verb, waiting>>

\* An event for a registered control id; one that is not terminal is dropped here.
ReaderRoutes(a, e) ==
    /\ reader = Idle /\ verb[a] # "idle"
    /\ e \in EventsOf(Type[a]) /\ Cardinality(sent[a] \cup {e}) <= MaxEvents
    /\ sent' = [sent EXCEPT ![a] = @ \cup {e}]
    /\ ReaderGoto(IF Terminal(Type[a], e) THEN [action |-> a, event |-> e, at |-> "resolve"]
                  ELSE Idle)
    /\ UNCHANGED resolveVars

ReaderAt(p) == reader.at = p /\ UNCHANGED sent

ReaderResolves == LET a == reader.action IN
    /\ ReaderAt("resolve")
    /\ IF completed[a] THEN ReaderGoto(Idle) /\ UNCHANGED resolveVars
       ELSE ReaderGoto([reader EXCEPT !.at = "callback"]) /\ Claim(a, reader.event)

\* Variation: the callback returns and done is not closed.
ReaderRunsCallback_NoClose ==
    /\ ReaderAt("callback")
    /\ ReaderGoto(Idle)
    /\ RunCallback(reader.action)

ReaderRunsCallback ==
    /\ ReaderAt("callback")
    /\ ReaderGoto([reader EXCEPT !.at = "close"])
    /\ RunCallback(reader.action)

ReaderCloses == ReaderAt("close") /\ ReaderGoto(Idle) /\ CloseDone(reader.action)

-----------------------------------------------------------------------------
VerbStep(a) == \/ VerbSucceeds(a) \/ VerbGone(a) \/ VerbFails(a)
               \/ VerbResolves(a) \/ VerbRunsCallback(a) \/ VerbCloses(a)

ReaderStep == ReaderResolves \/ ReaderRunsCallback \/ ReaderCloses

Next == \/ \E a \in Actions : \/ StartVerb(a) \/ OnCompleted(a) \/ Wait(a) \/ WaitReturns(a)
                              \/ VerbStep(a)
                              \/ \E e \in AllEvents : ReaderRoutes(a, e)
        \/ ReaderStep

Spec == Init /\ [][Next]_vars

\* Goroutines that can move do, callbacks return; nothing is assumed of the server.
Fairness == /\ \A a \in Actions : WF_vars(VerbStep(a)) /\ WF_vars(WaitReturns(a))
            /\ WF_vars(ReaderStep)

FairSpec == Spec /\ Fairness

-----------------------------------------------------------------------------
TypeOK ==
    /\ verb \in [Actions -> {"idle", "exec", "resolve", "callback", "close", "done"}]
    /\ \/ reader = Idle
       \/ reader \in [action : Actions, event : AllEvents, at : {"resolve", "callback", "close"}]
    /\ completed \in [Actions -> BOOLEAN]
    /\ result \in [Actions -> AllEvents \cup {NoEvent, VerbError}]
    /\ callback \in [Actions -> {"unset", "set", "taken"}]
    /\ ran \in [Actions -> Nat] /\ closed \in [Actions -> Nat]
    /\ waiting \in [Actions -> {"idle", "waiting", "returned"}]
    /\ sent \in [Actions -> SUBSET AllEvents]

\* done is closed at most once, though a failing verb and a terminal event race
\* to close it: a second close would panic and take the process down.
ClosedOnce == \A a \in Actions : closed[a] <= 1

\* By the time Wait can return, the completion callback has run, exactly once, if
\* it was registered before the action completed; it never runs otherwise.
CallbackBeforeDone == \A a \in Actions :
    /\ ran[a] <= 1
    /\ closed[a] > 0 => (ran[a] = 1 <=> callback[a] = "taken")

\* The result is an event the server sent for this control id, or the error of a
\* verb that really failed; a play(finished) never completes a PlayAndCollect.
ResultSound == \A a \in Actions : completed[a] =>
    \/ result[a] = VerbError /\ verb[a] \in {"callback", "close", "done"}
    \/ result[a] \in sent[a] /\ ~(Type[a] = "playAndCollect" /\ result[a][1] = "play")

\* A completed action keeps its first result.
ResultStable == [][\A a \in Actions : completed[a] => completed'[a] /\ result'[a] = result[a]]_vars

\* A verb that fails, or a terminal event, releases whoever waits on the action.
CompletionReleasesWait == \A a \in Actions :
    waiting[a] = "waiting" /\ (verb[a] = "resolve" \/ (reader.action = a /\ reader.at = "resolve"))
        ~> waiting[a] = "returned"

-----------------------------------------------------------------------------
\* An Action is a Completion: its result, its callback, done and Wait.
ActionEnds == INSTANCE Completion WITH
    Objects <- Actions, Outcomes <- AllEvents \cup {VerbError}, Pending <- NoEvent,
    outcome <- result, notified <- ran, closed <- closed, waiter <- waiting

\* Every step of the verb and of the read loop is a step of the completion, or
\* invisible to whoever waits: one result, which stays, then the callback, then
\* one close of done, then Wait returns.
ActionsImplementCompletion == ActionEnds!Spec
=============================================================================
