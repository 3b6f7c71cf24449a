------------------------- MODULE RelayObjectProofs --------------------------
(***************************************************************************)
(* Proofs about the objects the RELAY client hands out: RelayAction for any*)
(* number of actions of any kinds and any number of events for each, and   *)
(* RelayMessage for any number of messages and of frames in flight. They   *)
(* share no state.                                                         *)
(***************************************************************************)
EXTENDS RelayAction, RelayMessage, TLAPS

-----------------------------------------------------------------------------
(* RelayAction: resolve() from both sides                                  *)

\* The goroutine of the verb, or the read loop, is between the lock section of
\* resolve and its return.
VerbAt(a, places) == verb[a] \in places
ReaderOf(a, places) == reader.action = a /\ reader.at \in places

\* One of the two resolves the action, the one that found it not completed, and
\* it has not closed done yet.
OneResolver == \A a \in Actions :
    /\ ~(VerbAt(a, {"callback", "close"}) /\ ReaderOf(a, {"callback", "close"}))
    /\ VerbAt(a, {"callback", "close"}) \/ ReaderOf(a, {"callback", "close"}) =>
          completed[a] /\ closed[a] = 0

\* The safety half of CompletionReleasesWait: whoever waits on a completed action finds
\* done closed, or one of the two is on its way to close it.
CompletedIsReleased == \A a \in Actions :
    completed[a] => \/ closed[a] = 1
                    \/ VerbAt(a, {"callback", "close"}) \/ ReaderOf(a, {"callback", "close"})

\* Nothing has happened to an action that is not completed.
OpenIsUntouched == \A a \in Actions :
    ~completed[a] => /\ result[a] = NoEvent /\ callback[a] # "taken"
                     /\ closed[a] = 0 /\ ran[a] = 0

\* No event reaches an action before the verb that registers it.
StartedFirst == \A a \in Actions :
    verb[a] = "idle" => ~completed[a] /\ ~ReaderOf(a, {"resolve", "callback", "close"})

\* The callback runs in its place: not before it, and once after it if resolve
\* took it with the lock held.
CallbackInPlace == \A a \in Actions :
    IF VerbAt(a, {"callback"}) \/ ReaderOf(a, {"callback"}) THEN ran[a] = 0
    ELSE ran[a] = IF callback[a] = "taken" THEN 1 ELSE 0

\* An event that may complete an action of this kind.
Fits(a, e) == ~(Type[a] = "playAndCollect" /\ e[1] = "play")

\* The event the read loop is resolving with was sent for its action.
ReaderEventSound ==
    reader # Idle => reader.event \in sent[reader.action] /\ Fits(reader.action, reader.event)

ActionInv == /\ TypeOK /\ OneResolver /\ CompletedIsReleased /\ OpenIsUntouched /\ StartedFirst
             /\ CallbackInPlace /\ ReaderEventSound /\ ClosedOnce /\ ResultSound

-----------------------------------------------------------------------------
\* A terminal event is of the kind that may complete the action.
LEMMA TerminalFits ==
    ASSUME NEW a \in Actions, NEW e \in AllEvents, Terminal(Type[a], e)
    PROVE  Fits(a, e)
  BY ActionsAssumption DEF Terminal, Fits, Types

\* While the read loop resolves, it does so for one of the actions.
LEMMA ReaderBusy ==
    ASSUME TypeOK, reader.at # "idle"
    PROVE  /\ reader # Idle
           /\ reader \in [action : Actions, event : AllEvents, at : {"resolve", "callback", "close"}]
  BY DEF TypeOK, Idle

\* The lock section of resolve stores values of the right kind.
LEMMA ClaimTypes ==
    ASSUME TypeOK, NEW a \in Actions, NEW e \in AllEvents \cup {VerbError}, Claim(a, e)
    PROVE  /\ completed' \in [Actions -> BOOLEAN]
           /\ result' \in [Actions -> AllEvents \cup {NoEvent, VerbError}]
           /\ callback' \in [Actions -> {"unset", "set", "taken"}]
           /\ UNCHANGED <<ran, closed>>
  BY DEF TypeOK, Claim

-----------------------------------------------------------------------------
\* The variables of the action keep their types.
THEOREM TypeCorrect == Spec => []TypeOK
<1>1. Init => TypeOK
  BY DEF Init, TypeOK
<1>2. TypeOK /\ [Next]_vars => TypeOK'
  <2> SUFFICES ASSUME TypeOK, [Next]_vars PROVE TypeOK'
    OBVIOUS
  <2> USE DEF TypeOK
  <2>1. ASSUME NEW a \in Actions, StartVerb(a) \/ OnCompleted(a) \/ Wait(a) \/ WaitReturns(a)
        PROVE  TypeOK'
    BY <2>1 DEF StartVerb, OnCompleted, Wait, WaitReturns, resolveVars
  <2>2. ASSUME NEW a \in Actions, VerbSucceeds(a) \/ VerbGone(a) \/ VerbFails(a)
        PROVE  TypeOK'
    BY <2>2 DEF VerbSucceeds, VerbGone, VerbFails, VerbGoto, resolveVars
  <2>3. ASSUME NEW a \in Actions, VerbResolves(a) PROVE TypeOK'
    BY <2>3 DEF VerbResolves, VerbGoto, Claim, resolveVars
  <2>4. ASSUME NEW a \in Actions, VerbRunsCallback(a) \/ VerbCloses(a) PROVE TypeOK'
    BY <2>4 DEF VerbRunsCallback, VerbCloses, VerbGoto, RunCallback, CloseDone
  <2>5. ASSUME NEW a \in Actions, NEW e \in AllEvents, ReaderRoutes(a, e) PROVE TypeOK'
    BY <2>5 DEF ReaderRoutes, ReaderGoto, resolveVars
  <2>6. CASE ReaderResolves
    <3>1. /\ reader.action \in Actions /\ reader.event \in AllEvents
          /\ [reader EXCEPT !.at = "callback"]
                \in [action : Actions, event : AllEvents, at : {"resolve", "callback", "close"}]
      BY <2>6, ReaderBusy DEF ReaderResolves, ReaderAt
    <3>2. CASE completed[reader.action]
      BY <2>6, <3>2 DEF ReaderResolves, ReaderAt, ReaderGoto, resolveVars
    <3>3. CASE ~completed[reader.action]
      <4>1. reader' \in [action : Actions, event : AllEvents, at : {"resolve", "callback", "close"}]
        BY <2>6, <3>1, <3>3 DEF ReaderResolves, ReaderGoto
      <4>2. /\ completed' \in [Actions -> BOOLEAN]
            /\ result' \in [Actions -> AllEvents \cup {NoEvent, VerbError}]
            /\ callback' \in [Actions -> {"unset", "set", "taken"}]
        <5>1. Claim(reader.action, reader.event)
          BY <2>6, <3>3 DEF ReaderResolves
        <5>2. QED
          BY <3>1, <5>1, ClaimTypes
      <4>3. UNCHANGED <<verb, ran, closed, waiting, sent>>
        BY <2>6, <3>3 DEF ReaderResolves, ReaderAt, ReaderGoto, Claim
      <4>4. QED
        BY <4>1, <4>2, <4>3
    <3>4. QED
      BY <3>2, <3>3
  <2>7. CASE ReaderRunsCallback \/ ReaderCloses
    BY <2>7, ReaderBusy
       DEF ReaderRunsCallback, ReaderCloses, ReaderAt, ReaderGoto, RunCallback, CloseDone
  <2>8. CASE UNCHANGED vars
    BY <2>8 DEF vars, resolveVars
  <2>9. QED
    BY <2>1, <2>2, <2>3, <2>4, <2>5, <2>6, <2>7, <2>8 DEF Next, VerbStep, ReaderStep
<1>3. QED
  BY <1>1, <1>2, PTL DEF Spec

-----------------------------------------------------------------------------
\* The inductive invariant holds in every reachable state: the goroutine of the
\* verb and the read loop never both resolve an action.
THEOREM Resolution == Spec => []ActionInv
<1> DEFINE Rest == /\ OneResolver /\ CompletedIsReleased /\ OpenIsUntouched /\ StartedFirst
                   /\ CallbackInPlace /\ ReaderEventSound /\ ClosedOnce /\ ResultSound
<1>1. Init => Rest
  BY DEF Init, OneResolver, CompletedIsReleased, OpenIsUntouched, StartedFirst, CallbackInPlace, ReaderEventSound, ClosedOnce,
         ResultSound, VerbAt, ReaderOf, Idle
<1>2. TypeOK /\ TypeOK' /\ Rest /\ [Next]_vars => Rest'
  <2> SUFFICES ASSUME TypeOK, TypeOK', Rest, [Next]_vars PROVE Rest'
    OBVIOUS
  <2> USE DEF OneResolver, CompletedIsReleased, OpenIsUntouched, StartedFirst, CallbackInPlace, ReaderEventSound, ClosedOnce,
              ResultSound, VerbAt, ReaderOf, TypeOK
  <2>1. ASSUME NEW a \in Actions, StartVerb(a) \/ OnCompleted(a) PROVE Rest'
    BY <2>1 DEF StartVerb, OnCompleted
  <2>2. ASSUME NEW a \in Actions, Wait(a) \/ WaitReturns(a) PROVE Rest'
    BY <2>2 DEF Wait, WaitReturns, resolveVars
  <2>3. ASSUME NEW a \in Actions, VerbSucceeds(a) \/ VerbGone(a) \/ VerbFails(a) PROVE Rest'
    BY <2>3 DEF VerbSucceeds, VerbGone, VerbFails, VerbGoto, resolveVars
  <2>4. ASSUME NEW a \in Actions, VerbResolves(a) PROVE Rest'
    BY <2>4 DEF VerbResolves, VerbGoto, Claim, resolveVars
  <2>5. ASSUME NEW a \in Actions, VerbRunsCallback(a) PROVE Rest'
    BY <2>5 DEF VerbRunsCallback, VerbGoto, RunCallback
  <2>6. ASSUME NEW a \in Actions, VerbCloses(a) PROVE Rest'
    BY <2>6 DEF VerbCloses, VerbGoto, CloseDone
  <2>7. ASSUME NEW a \in Actions, NEW e \in AllEvents, ReaderRoutes(a, e) PROVE Rest'
    BY <2>7, TerminalFits DEF ReaderRoutes, ReaderGoto, resolveVars, Idle
  <2>8. CASE ReaderResolves
    <3> DEFINE a == reader.action
    <3>1. a \in Actions /\ reader.at = "resolve" /\ reader # Idle
      BY <2>8, ReaderBusy DEF ReaderResolves, ReaderAt
    <3>2. CASE completed[a]
      BY <2>8, <3>1, <3>2 DEF ReaderResolves, ReaderAt, ReaderGoto, resolveVars, Idle
    <3>3. CASE ~completed[a]
      <4>1. /\ reader'.action = a /\ reader'.event = reader.event /\ reader'.at = "callback"
            /\ UNCHANGED <<verb, waiting, sent>> /\ Claim(a, reader.event)
        BY <2>8, <3>1, <3>3, ReaderBusy DEF ReaderResolves, ReaderAt, ReaderGoto
      <4>2. QED
        BY <3>1, <3>3, <4>1 DEF Claim, Fits
    <3>4. QED
      BY <3>2, <3>3
  <2>9. CASE ReaderRunsCallback
    BY <2>9, ReaderBusy DEF ReaderRunsCallback, ReaderAt, ReaderGoto, RunCallback, Idle
  <2>10. CASE ReaderCloses
    BY <2>10, ReaderBusy DEF ReaderCloses, ReaderAt, ReaderGoto, CloseDone, Idle
  <2>11. CASE UNCHANGED vars
    BY <2>11 DEF vars, resolveVars
  <2>12. QED
    BY <2>1, <2>2, <2>3, <2>4, <2>5, <2>6, <2>7, <2>8, <2>9, <2>10, <2>11
       DEF Next, VerbStep, ReaderStep
<1>3. QED
  BY <1>1, <1>2, TypeCorrect, PTL DEF Spec, ActionInv

\* The failing verb and the read loop never both close done, whatever the order in
\* which they get to resolve: the second close, which panics, does not happen.
THEOREM DoneIsClosedOnce == Spec => []ClosedOnce
<1>1. ActionInv => ClosedOnce
  BY DEF ActionInv
<1>2. QED
  BY <1>1, Resolution, PTL

\* No goroutine is left waiting on an action that is completed, whichever of the verb
\* and the read loop completed it.
THEOREM CompletedIsAlwaysReleased == Spec => []CompletedIsReleased
<1>1. ActionInv => CompletedIsReleased
  BY DEF ActionInv
<1>2. QED
  BY <1>1, Resolution, PTL

\* Whoever Wait releases finds the completion callback run, once, if it was
\* registered in time: resolve closes done after the callback.
THEOREM CallbackIsBeforeDone == Spec => []CallbackBeforeDone
<1>1. ActionInv => CallbackBeforeDone
  <2> SUFFICES ASSUME ActionInv, NEW a \in Actions
               PROVE  ran[a] <= 1 /\ (closed[a] > 0 => (ran[a] = 1 <=> callback[a] = "taken"))
    BY DEF CallbackBeforeDone
  <2>1. ran[a] \in {0, 1}
    BY DEF ActionInv, CallbackInPlace
  <2>2. ASSUME closed[a] > 0 PROVE ran[a] = IF callback[a] = "taken" THEN 1 ELSE 0
    BY <2>2 DEF ActionInv, OneResolver, CallbackInPlace, VerbAt, ReaderOf
  <2>3. QED
    BY <2>1, <2>2
<1>2. QED
  BY <1>1, Resolution, PTL

\* An action completes with an event of its own that may complete it, or with the
\* error of its verb.
THEOREM ResultIsSound == Spec => []ResultSound
<1>1. ActionInv => ResultSound
  BY DEF ActionInv
<1>2. QED
  BY <1>1, Resolution, PTL

\* The result Wait hands out is final: the loser of the race to resolve leaves it.
THEOREM ResultIsStable == Spec => ResultStable
<1>1. TypeOK /\ [Next]_vars =>
        [\A a \in Actions : completed[a] => completed'[a] /\ result'[a] = result[a]]_vars
  <2> SUFFICES ASSUME TypeOK, Next, NEW a \in Actions, completed[a]
               PROVE  completed'[a] /\ result'[a] = result[a]
    OBVIOUS
  <2> USE DEF TypeOK
  <2>1. ASSUME NEW b \in Actions, StartVerb(b) \/ OnCompleted(b) \/ Wait(b) \/ WaitReturns(b)
        PROVE  completed'[a] /\ result'[a] = result[a]
    BY <2>1 DEF StartVerb, OnCompleted, Wait, WaitReturns, resolveVars
  <2>2. ASSUME NEW b \in Actions, VerbSucceeds(b) \/ VerbGone(b) \/ VerbFails(b)
        PROVE  completed'[a] /\ result'[a] = result[a]
    BY <2>2 DEF VerbSucceeds, VerbGone, VerbFails, resolveVars
  <2>3. ASSUME NEW b \in Actions, VerbResolves(b)
        PROVE  completed'[a] /\ result'[a] = result[a]
    BY <2>3 DEF VerbResolves, Claim, resolveVars
  <2>4. ASSUME NEW b \in Actions, VerbRunsCallback(b) \/ VerbCloses(b)
        PROVE  completed'[a] /\ result'[a] = result[a]
    BY <2>4 DEF VerbRunsCallback, VerbCloses, RunCallback, CloseDone
  <2>5. ASSUME NEW b \in Actions, NEW e \in AllEvents, ReaderRoutes(b, e)
        PROVE  completed'[a] /\ result'[a] = result[a]
    BY <2>5 DEF ReaderRoutes, resolveVars
  <2>6. CASE ReaderResolves
    <3>1. reader.action \in Actions
      BY <2>6, ReaderBusy DEF ReaderResolves, ReaderAt
    <3>2. UNCHANGED resolveVars \/ (~completed[reader.action] /\ Claim(reader.action, reader.event))
      BY <2>6 DEF ReaderResolves
    <3>3. QED
      BY <3>1, <3>2 DEF Claim, resolveVars
  <2>7. CASE ReaderRunsCallback \/ ReaderCloses
    BY <2>7 DEF ReaderRunsCallback, ReaderCloses, RunCallback, CloseDone
  <2>8. QED
    BY <2>1, <2>2, <2>3, <2>4, <2>5, <2>6, <2>7 DEF Next, VerbStep, ReaderStep
<1>2. QED
  BY <1>1, TypeCorrect, PTL DEF Spec, ResultStable

-----------------------------------------------------------------------------
(* RelayAction implements Completion                                       *)

\* An action has a result from the moment it is completed.
LEMMA ResultWhenCompleted ==
    ASSUME ActionInv, NEW a \in Actions
    PROVE  completed[a] <=> result[a] # NoEvent
<1>1. NoEvent \notin AllEvents \cup {VerbError}
  BY DEF NoEvent, VerbError, AllEvents, EventsOf, Types, CollectEvents
<1>2. completed[a] => result[a] \in AllEvents \cup {VerbError}
  BY DEF ActionInv, ResultSound, TypeOK
<1>3. QED
  BY <1>1, <1>2 DEF ActionInv, OpenIsUntouched

\* The three steps of resolve, by whichever of the two, are those of a completion.
LEMMA ResolveCompletes ==
    ASSUME ActionInv, NEW a \in Actions, UNCHANGED waiting
    PROVE  /\ \A e \in AllEvents \cup {VerbError} :
                 ~completed[a] /\ Claim(a, e) => ActionEnds!Settle(a, e)
           /\ VerbAt(a, {"callback"}) \/ ReaderOf(a, {"callback"}) =>
                 (RunCallback(a) => ActionEnds!Notify(a) \/ UNCHANGED ActionEnds!vars)
           /\ VerbAt(a, {"close"}) \/ ReaderOf(a, {"close"}) =>
                 (CloseDone(a) => ActionEnds!Close(a))
<1> USE DEF ActionInv, TypeOK
<1>1. ASSUME NEW e \in AllEvents \cup {VerbError}, ~completed[a], Claim(a, e)
      PROVE  ActionEnds!Settle(a, e)
  <2>1. result[a] = NoEvent /\ ran[a] = 0
    BY <1>1 DEF OpenIsUntouched
  <2>2. ran' = [ran EXCEPT ![a] = 0]
    BY <1>1, <2>1 DEF Claim
  <2>3. QED
    BY <1>1, <2>1, <2>2 DEF Claim, ActionEnds!Settle
<1>2. ASSUME VerbAt(a, {"callback"}) \/ ReaderOf(a, {"callback"}), RunCallback(a)
      PROVE  ActionEnds!Notify(a) \/ UNCHANGED ActionEnds!vars
  <2>1. completed[a] /\ closed[a] = 0 /\ ran[a] = 0
    BY <1>2 DEF OneResolver, CallbackInPlace, VerbAt, ReaderOf
  <2>2. result[a] # NoEvent
    BY <2>1, ResultWhenCompleted
  <2>3. CASE callback[a] = "taken"
    BY <1>2, <2>1, <2>2, <2>3 DEF RunCallback, ActionEnds!Notify
  <2>4. CASE callback[a] # "taken"
    BY <1>2, <2>4 DEF RunCallback, ActionEnds!vars
  <2>5. QED
    BY <2>3, <2>4
<1>3. ASSUME VerbAt(a, {"close"}) \/ ReaderOf(a, {"close"}), CloseDone(a)
      PROVE  ActionEnds!Close(a)
  <2>1. completed[a] /\ closed[a] = 0
    BY <1>3 DEF OneResolver, VerbAt, ReaderOf
  <2>2. result[a] # NoEvent
    BY <2>1, ResultWhenCompleted
  <2>3. QED
    BY <1>3, <2>1, <2>2 DEF CloseDone, ActionEnds!Close
<1>4. QED
  BY <1>1, <1>2, <1>3

\* An Action keeps the promise of Completion, for any number of actions of any
\* kinds: verbs that fail, terminal events and waiting goroutines in every order.
THEOREM ActionsComplete == Spec => ActionsImplementCompletion
<1>1. Init => ActionEnds!Init
  BY DEF Init, ActionEnds!Init
<1>2. ActionInv /\ [Next]_vars => [ActionEnds!Next]_(ActionEnds!vars)
  <2> SUFFICES ASSUME ActionInv, [Next]_vars PROVE [ActionEnds!Next]_(ActionEnds!vars)
    OBVIOUS
  <2>1. ASSUME NEW a \in Actions, StartVerb(a) \/ OnCompleted(a) PROVE UNCHANGED ActionEnds!vars
    BY <2>1 DEF StartVerb, OnCompleted, ActionEnds!vars
  <2>2. ASSUME NEW a \in Actions, Wait(a) PROVE ActionEnds!Wait(a)
    BY <2>2 DEF Wait, resolveVars, ActionEnds!Wait
  <2>3. ASSUME NEW a \in Actions, WaitReturns(a) PROVE ActionEnds!WaitReturns(a)
    <3>1. closed[a] = 1
      BY <2>3 DEF WaitReturns, ActionInv, ClosedOnce, TypeOK
    <3>2. QED
      BY <2>3, <3>1 DEF WaitReturns, resolveVars, ActionEnds!WaitReturns
  <2>4. ASSUME NEW a \in Actions, VerbSucceeds(a) \/ VerbGone(a) \/ VerbFails(a)
        PROVE  UNCHANGED ActionEnds!vars
    BY <2>4 DEF VerbSucceeds, VerbGone, VerbFails, VerbGoto, resolveVars, ActionEnds!vars
  <2>5. ASSUME NEW a \in Actions, VerbResolves(a)
        PROVE  UNCHANGED ActionEnds!vars \/ ActionEnds!Next
    <3>1. UNCHANGED waiting
      BY <2>5 DEF VerbResolves, VerbGoto
    <3>2. UNCHANGED resolveVars \/ (~completed[a] /\ Claim(a, VerbError))
      BY <2>5 DEF VerbResolves
    <3>3. UNCHANGED ActionEnds!vars \/ ActionEnds!Settle(a, VerbError)
      BY <3>1, <3>2, ResolveCompletes DEF resolveVars, ActionEnds!vars
    <3>4. QED
      BY <3>3 DEF ActionEnds!Next
  <2>6. ASSUME NEW a \in Actions, VerbRunsCallback(a) \/ VerbCloses(a)
        PROVE  UNCHANGED ActionEnds!vars \/ ActionEnds!Notify(a) \/ ActionEnds!Close(a)
    BY <2>6, ResolveCompletes DEF VerbRunsCallback, VerbCloses, VerbGoto, VerbAt
  <2>7. ASSUME NEW a \in Actions, NEW e \in AllEvents, ReaderRoutes(a, e)
        PROVE  UNCHANGED ActionEnds!vars
    BY <2>7 DEF ReaderRoutes, ReaderGoto, resolveVars, ActionEnds!vars
  <2>8. ASSUME ReaderStep
        PROVE  /\ reader.action \in Actions /\ reader.event \in AllEvents /\ UNCHANGED waiting
               /\ reader.at \in {"resolve", "callback", "close"}
    BY <2>8, ReaderBusy DEF ActionInv, ReaderStep, ReaderResolves, ReaderRunsCallback, ReaderCloses,
                           ReaderAt, ReaderGoto
  <2>9. CASE ReaderResolves
    <3>1. \/ UNCHANGED resolveVars
          \/ ~completed[reader.action] /\ Claim(reader.action, reader.event)
      BY <2>9 DEF ReaderResolves
    <3>2. UNCHANGED ActionEnds!vars \/ ActionEnds!Settle(reader.action, reader.event)
      BY <2>8, <2>9, <3>1, ResolveCompletes DEF ReaderStep, resolveVars, ActionEnds!vars
    <3>3. QED
      BY <2>8, <2>9, <3>2 DEF ReaderStep, ActionEnds!Next
  <2>10. CASE ReaderRunsCallback \/ ReaderCloses
    <3>1. \/ UNCHANGED ActionEnds!vars
          \/ ActionEnds!Notify(reader.action) \/ ActionEnds!Close(reader.action)
      BY <2>8, <2>10, ResolveCompletes
         DEF ReaderStep, ReaderRunsCallback, ReaderCloses, ReaderAt, ReaderOf
    <3>2. QED
      BY <2>8, <2>10, <3>1 DEF ReaderStep, ActionEnds!Next
  <2>11. CASE UNCHANGED vars
    BY <2>11 DEF vars, resolveVars, ActionEnds!vars
  <2>12. QED
    BY <2>1, <2>2, <2>3, <2>4, <2>5, <2>6, <2>7, <2>9, <2>10, <2>11
       DEF Next, VerbStep, ReaderStep, ActionEnds!Next
<1>3. QED
  BY <1>1, <1>2, Resolution, PTL DEF Spec, ActionsImplementCompletion, ActionEnds!Spec

-----------------------------------------------------------------------------
(* RelayMessage: completion and tracking                                   *)

\* The read loop completes the message it holds: after its lock section, with done
\* not closed yet.
Completing(m) == msgReader.msg = m /\ msgReader.at = "finish" /\ msgReader.state \in TerminalStates

\* A message is completed with a terminal result and one callback, by the read
\* loop's lock section, and done is closed by the end of the same event.
CompletionInPlace == \A m \in Messages :
    /\ callbacks[m] = IF msgCompleted[m] THEN 1 ELSE 0
    /\ IF msgCompleted[m] THEN msgResult[m] \in TerminalStates ELSE msgResult[m] = "none"
    /\ msgClosed[m] => msgCompleted[m]
    /\ msgCompleted[m] /\ ~msgClosed[m] => Completing(m)
    /\ Completing(m) => msgCompleted[m]
    /\ m \in Outbound /\ msgState[m] \in TerminalStates => msgCompleted[m]

\* SendMessage registers the message of a response that was read, and the server
\* has not reported on a message nobody sent.
SendingInPlace ==
    /\ \A m \in Outbound :
          /\ spc[m] \in {"idle", "answered", "sent"} =>
                \A i \in 1..Len(frames) : frames[i] # Response(m)
          /\ spc[m] = "idle" => srv[m] = "none"
          /\ spc[m] \in {"answered", "sent"} => srv[m] # "none"
          /\ srv[m] = "none" => \A i \in 1..Len(frames) : frames[i].msg # m
          /\ m \in messages => spc[m] = "sent"
    /\ msgReader.at # "idle" => msgReader.msg \in messages

\* The response to messaging.send is the first frame about its message.
ResponseFirst == \A i, j \in 1..Len(frames) :
    i < j /\ frames[i].msg = frames[j].msg => frames[j].kind # "response"

\* What a frame says of its message, and what the client has heard of it so far.
Reported(f) == IF f.kind = "response" THEN "queued" ELSE f.state
Heard(m) == IF msgReader.msg = m /\ msgReader.at = "update" THEN msgReader.state
            ELSE IF m \in messages THEN msgState[m] ELSE "queued"

\* Of a message that missed no event, the last frame in flight says what the server
\* says; with none in flight the client has heard it.
NewsInPlace == \A m \in Outbound \ missed :
    /\ \A i \in 1..Len(frames) :
          frames[i].msg = m /\ (\A j \in 1..Len(frames) : j > i => frames[j].msg # m)
              => Reported(frames[i]) = srv[m]
    /\ srv[m] # "none" /\ (\A i \in 1..Len(frames) : frames[i].msg # m) => Heard(m) = srv[m]

TrackingInv == SendingInPlace /\ ResponseFirst /\ NewsInPlace

-----------------------------------------------------------------------------
\* The kinds of frames.
LEMMA FrameKinds ==
    ASSUME NEW f \in Frames
    PROVE  /\ f.msg \in Messages
           /\ f.kind = "response" => f.msg \in Outbound /\ f = Response(f.msg)
           /\ f.kind = "receive" => f.msg \in Inbound
           /\ f.kind = "state" => f.msg \in Outbound /\ f.state \in ServerStates
  BY DEF Frames, Response, Receive, StateEvent, Messages

\* The read loop takes the first frame.
LEMMA FrameRead ==
    ASSUME MessageTypeOK, NEW kind, Reads(kind)
    PROVE  /\ Len(frames) \in Nat /\ Len(frames) >= 1 /\ Head(frames) = frames[1]
           /\ frames[1] \in Frames /\ frames[1].kind = kind /\ msgReader = MsgIdle
           /\ frames' \in Seq(Frames) /\ Len(frames') = Len(frames) - 1
           /\ \A i \in 1..Len(frames') : i + 1 \in 1..Len(frames) /\ frames'[i] = frames[i + 1]
<1>1. frames \in Seq(Frames) /\ frames # <<>> /\ frames' = Tail(frames)
  BY DEF MessageTypeOK, Reads
<1>2. /\ Len(frames) \in Nat /\ Len(frames) >= 1 /\ Head(frames) = frames[1]
      /\ frames[1] \in Frames /\ frames' \in Seq(Frames) /\ Len(frames') = Len(frames) - 1
  BY <1>1
<1>3. \A i \in 1..Len(frames') : i + 1 \in 1..Len(frames) /\ frames'[i] = frames[i + 1]
  BY <1>1, <1>2
<1>4. QED
  BY <1>2, <1>3 DEF Reads

\* The server sends a frame.
LEMMA FrameSent ==
    ASSUME MessageTypeOK, NEW f \in Frames, Sends(f)
    PROVE  /\ Len(frames) \in Nat /\ Len(frames') = Len(frames) + 1 /\ frames' \in Seq(Frames)
           /\ frames'[Len(frames')] = f /\ \A i \in 1..Len(frames) : frames'[i] = frames[i]
           /\ \A i \in 1..Len(frames') : i \in 1..Len(frames) \/ i = Len(frames) + 1
<1>1. frames \in Seq(Frames) /\ frames' = Append(frames, f)
  BY DEF MessageTypeOK, Sends
<1>2. /\ Len(frames) \in Nat /\ Len(frames') = Len(frames) + 1 /\ frames' \in Seq(Frames)
      /\ frames'[Len(frames')] = f /\ \A i \in 1..Len(frames) : frames'[i] = frames[i]
  BY <1>1
<1>3. QED
  BY <1>2

\* While the read loop is in updateState it holds a report about a sent message.
LEMMA MsgReaderBusy ==
    ASSUME MessageTypeOK, msgReader.at # "idle"
    PROVE  msgReader \in [msg : Outbound, state : ServerStates, at : {"update", "finish"}]
  BY DEF MessageTypeOK, MsgIdle

\* Every variable keeps its type.
THEOREM MessageTypes == MessageSpec => []MessageTypeOK
<1>1. MessageInit => MessageTypeOK
  <2> SUFFICES ASSUME MessageInit PROVE MessageTypeOK
    OBVIOUS
  <2>1. frames \in Seq(Frames) /\ msgReader = MsgIdle
    BY DEF MessageInit
  <2>2. QED
    BY <2>1 DEF MessageInit, MessageTypeOK, States
<1>2. MessageTypeOK /\ [MessageNext]_msgVars => MessageTypeOK'
  <2> SUFFICES ASSUME MessageTypeOK, [MessageNext]_msgVars PROVE MessageTypeOK'
    OBVIOUS
  <2> USE DEF clientVars, messageVars
  <2>0. Outbound \subseteq Messages /\ Inbound \subseteq Messages
    BY DEF Messages
  <2>1. CASE UNCHANGED msgVars
    BY <2>1 DEF msgVars, MessageTypeOK
  <2>2. ASSUME NEW m \in Outbound, SendExecutes(m) \/ SendFails(m) \/ SendRegisters(m)
        PROVE  MessageTypeOK'
    <3>1. CASE SendExecutes(m)
      BY <3>1 DEF MessageTypeOK, SendExecutes, SendGoto
    <3>2. CASE SendFails(m)
      BY <3>2 DEF MessageTypeOK, SendFails, SendGoto
    <3>3. CASE SendRegisters(m)
      <4>1. msgState' \in [Messages -> States] /\ messages' \subseteq Messages
        BY <2>0, <3>3 DEF MessageTypeOK, SendRegisters, States
      <4>2. QED
        BY <3>3, <4>1 DEF MessageTypeOK, SendRegisters, SendGoto
    <3>4. QED
      BY <2>2, <3>1, <3>2, <3>3
  <2>3. ASSUME NEW m \in Outbound, ServerAccepts(m) PROVE MessageTypeOK'
    <3>1. Response(m) \in Frames
      BY DEF Frames
    <3>2. frames' \in Seq(Frames)
      BY <2>3, <3>1, FrameSent DEF ServerAccepts
    <3>3. QED
      BY <2>0, <2>3, <3>2 DEF MessageTypeOK, ServerAccepts, States
  <2>4. ASSUME NEW m \in Outbound, NEW s \in ServerStates, ServerReports(m, s) PROVE MessageTypeOK'
    <3>1. StateEvent(m, s) \in Frames
      BY DEF Frames
    <3>2. frames' \in Seq(Frames)
      BY <2>4, <3>1, FrameSent DEF ServerReports
    <3>3. QED
      BY <2>0, <2>4, <3>2 DEF MessageTypeOK, ServerReports, States
  <2>5. ASSUME NEW m \in Inbound, ServerDeliversInbound(m) PROVE MessageTypeOK'
    <3>1. Receive(m) \in Frames
      BY DEF Frames
    <3>2. frames' \in Seq(Frames)
      BY <2>5, <3>1, FrameSent DEF ServerDeliversInbound
    <3>3. QED
      BY <2>0, <2>5, <3>2 DEF MessageTypeOK, ServerDeliversInbound, States
  <2>6. ASSUME NEW m \in Messages, MsgWait(m) \/ MsgWaitReturns(m) PROVE MessageTypeOK'
    BY <2>6 DEF MessageTypeOK, MsgWait, MsgWaitReturns
  <2>7. CASE ReadResponse
    <3>1. frames' \in Seq(Frames) /\ Head(frames).msg \in Outbound
      BY <2>7, FrameRead, FrameKinds DEF ReadResponse
    <3>2. QED
      BY <2>7, <3>1 DEF MessageTypeOK, ReadResponse
  <2>8. CASE ReadReceive
    <3>1. frames' \in Seq(Frames) /\ Head(frames).msg \in Inbound
      BY <2>8, FrameRead, FrameKinds DEF ReadReceive
    <3>2. QED
      BY <2>0, <2>8, <3>1 DEF MessageTypeOK, ReadReceive, States
  <2>9. CASE ReadState
    <3>1. /\ frames' \in Seq(Frames) /\ Head(frames).msg \in Outbound
          /\ Head(frames).state \in ServerStates
      BY <2>9, FrameRead, FrameKinds DEF ReadState
    <3>2. QED
      BY <2>0, <2>9, <3>1 DEF MessageTypeOK, ReadState
  <2>10. CASE UpdateState
    <3>1. /\ msgReader \in [msg : Outbound, state : ServerStates, at : {"update", "finish"}]
          /\ msgReader.msg \in Messages /\ msgReader.state \in States
      BY <2>0, <2>10, MsgReaderBusy DEF UpdateState, States
    <3>2. /\ msgReader' \in [msg : Outbound, state : ServerStates, at : {"update", "finish"}]
          /\ msgState' \in [Messages -> States]
      BY <2>10, <3>1 DEF UpdateState, MessageTypeOK
    <3>3. /\ msgCompleted' \in [Messages -> BOOLEAN] /\ msgResult' \in [Messages -> States]
          /\ callbacks' \in [Messages -> Nat]
      <4>1. CASE msgReader.state \in TerminalStates /\ ~msgCompleted[msgReader.msg]
        <5>1. /\ msgCompleted' = [msgCompleted EXCEPT ![msgReader.msg] = TRUE]
              /\ msgResult' = [msgResult EXCEPT ![msgReader.msg] = msgReader.state]
              /\ callbacks' = [callbacks EXCEPT ![msgReader.msg] = @ + 1]
          BY <2>10, <4>1 DEF UpdateState
        <5>2. /\ msgCompleted \in [Messages -> BOOLEAN] /\ msgResult \in [Messages -> States]
              /\ callbacks \in [Messages -> Nat]
          BY DEF MessageTypeOK
        <5>3. QED
          BY <3>1, <5>1, <5>2
      <4>2. CASE ~(msgReader.state \in TerminalStates /\ ~msgCompleted[msgReader.msg])
        BY <2>10, <3>1, <4>2 DEF UpdateState, MessageTypeOK
      <4>3. QED
        BY <4>1, <4>2
    <3>4. QED
      BY <2>10, <3>2, <3>3 DEF UpdateState, MessageTypeOK
  <2>11. CASE FinishUpdate
    <3>1. msgReader.msg \in Messages
      BY <2>0, <2>11, MsgReaderBusy DEF FinishUpdate
    <3>2. QED
      BY <2>11, <3>1 DEF MessageTypeOK, FinishUpdate
  <2>12. CASE LinkDrops
    <3>1. \A i \in 1..Len(frames) : frames[i].msg \in Messages
      BY FrameKinds DEF MessageTypeOK
    <3>2. QED
      BY <2>12, <3>1 DEF MessageTypeOK, LinkDrops
  <2>13. QED
    BY <2>1, <2>2, <2>3, <2>4, <2>5, <2>6, <2>7, <2>8, <2>9, <2>10, <2>11, <2>12
       DEF MessageNext, MsgReaderStep, ClientStep
<1>3. QED
  BY <1>1, <1>2, PTL DEF MessageSpec

\* The invariant behind both theorems: however often a terminal state is reported,
\* only the first report finds the message not completed.
THEOREM CompletionsStayInPlace == MessageSpec => [](MessageTypeOK /\ CompletionInPlace)
<1> USE DEF clientVars, messageVars
<1>1. MessageInit => CompletionInPlace
  BY DEF MessageInit, CompletionInPlace, Completing, MsgIdle, TerminalStates, Messages
<1>2. MessageTypeOK /\ CompletionInPlace /\ [MessageNext]_msgVars => CompletionInPlace'
  <2> SUFFICES ASSUME MessageTypeOK, CompletionInPlace, [MessageNext]_msgVars
               PROVE  CompletionInPlace'
    OBVIOUS
  <2>1. ASSUME UNCHANGED <<callbacks, msgCompleted, msgResult, msgClosed>>,
               \A m \in Messages : Completing(m)' <=> Completing(m),
               \A m \in Outbound : msgState'[m] \in TerminalStates => msgState[m] \in TerminalStates
        PROVE  CompletionInPlace'
    BY <2>1 DEF CompletionInPlace
  <2>2. CASE /\ UNCHANGED <<callbacks, msgCompleted, msgResult, msgClosed, msgReader>>
             /\ \/ UNCHANGED msgState
                \/ ReadReceive \/ \E m \in Outbound : SendRegisters(m)
    <3>1. ASSUME NEW m \in Outbound, msgState'[m] \in TerminalStates
          PROVE  msgState[m] \in TerminalStates
      <4>1. CASE ReadReceive
        <5>1. Head(frames).msg \in Inbound
          BY <4>1, FrameRead, FrameKinds DEF ReadReceive
        <5>2. QED
          BY <3>1, <4>1, <5>1, MessagesAssumption DEF ReadReceive, MessageTypeOK
      <4>2. ASSUME NEW n \in Outbound, SendRegisters(n) PROVE msgState[m] \in TerminalStates
        BY <3>1, <4>2 DEF SendRegisters, MessageTypeOK, Messages, TerminalStates
      <4>3. QED
        BY <2>2, <3>1, <4>1, <4>2
    <3>2. QED
      BY <2>1, <2>2, <3>1 DEF Completing
  <2>3. CASE ReadState
    <3>1. msgReader = MsgIdle /\ msgReader'.at # "finish"
      BY <2>3 DEF ReadState, Reads, MsgIdle
    <3>2. QED
      BY <2>1, <2>3, <3>1 DEF ReadState, Completing, MsgIdle
  <2>4. CASE UpdateState
    <3>1. /\ msgReader.msg \in Messages /\ msgReader.at = "update"
          /\ msgReader'.msg = msgReader.msg /\ msgReader'.state = msgReader.state
          /\ msgReader'.at = "finish"
      BY <2>4, MsgReaderBusy DEF UpdateState, Messages
    <3>2. \A m \in Messages : /\ Completing(m)' <=> m = msgReader.msg /\ msgReader.state \in TerminalStates
                              /\ ~Completing(m)
      BY <3>1 DEF Completing
    <3>3. QED
      BY <2>4, <3>1, <3>2 DEF UpdateState, CompletionInPlace, MessageTypeOK
  <2>5. CASE FinishUpdate
    <3>1. msgReader.msg \in Messages /\ msgReader'.at = "idle"
      BY <2>5, MsgReaderBusy DEF FinishUpdate, MsgIdle, Messages
    <3>2. \A m \in Messages : ~Completing(m)'
      BY <3>1 DEF Completing
    <3>3. \A m \in Messages : msgClosed'[m] <=> msgClosed[m] \/ Completing(m)
      BY <2>5, <3>1 DEF FinishUpdate, Completing, MessageTypeOK
    <3>4. QED
      BY <2>5, <3>2, <3>3 DEF FinishUpdate, CompletionInPlace
  <2>6. QED
    BY <2>2, <2>3, <2>4, <2>5
       DEF MessageNext, MsgReaderStep, ClientStep, SendExecutes, SendFails, SendRegisters,
           ServerAccepts, ServerReports, ServerDeliversInbound, MsgWait, MsgWaitReturns,
           ReadResponse, ReadReceive, LinkDrops, msgVars
<1>3. QED
  BY <1>1, <1>2, MessageTypes, PTL DEF MessageSpec

\* A message completes once: one callback, a terminal result, and done closed
\* whenever the read loop is not in the middle of completing it; for any number
\* of messages, of repeated reports and of lost connections.
THEOREM MessagesCompleteOnce == MessageSpec => []CompletesOnce
<1>1. CompletionInPlace => CompletesOnce
  BY DEF CompletionInPlace, CompletesOnce, Completing, Messages
<1>2. QED
  BY <1>1, CompletionsStayInPlace, PTL

-----------------------------------------------------------------------------
(* RelayMessage implements Completion                                      *)

\* A Message keeps the promise of Completion, for any number of messages, of
\* repeated reports and of lost connections. One that is received never ends.
THEOREM MessagesComplete == MessageSpec => MessagesImplementCompletion
<1> DEFINE Closed == [m \in Messages |-> IF msgClosed[m] THEN 1 ELSE 0]
<1>1. MessageInit => MessageEnds!Init
  BY DEF MessageInit, MessageEnds!Init
<1>2. MessageTypeOK /\ CompletionInPlace /\ [MessageNext]_msgVars
        => [MessageEnds!Next]_(MessageEnds!vars)
  <2> SUFFICES ASSUME MessageTypeOK, CompletionInPlace, [MessageNext]_msgVars
               PROVE  [MessageEnds!Next]_(MessageEnds!vars)
    OBVIOUS
  <2> USE DEF clientVars, messageVars
  <2>1. ASSUME UNCHANGED <<callbacks, msgResult, msgClosed, msgWaiting>>
        PROVE  UNCHANGED MessageEnds!vars
    BY <2>1 DEF MessageEnds!vars
  <2>2. ASSUME NEW m \in Messages, MsgWait(m) PROVE MessageEnds!Wait(m)
    BY <2>2 DEF MsgWait, MessageEnds!Wait
  <2>3. ASSUME NEW m \in Messages, MsgWaitReturns(m) PROVE MessageEnds!WaitReturns(m)
    BY <2>3 DEF MsgWaitReturns, MessageEnds!WaitReturns
  <2>4. CASE UpdateState
    <3>1. PICK m \in Messages : m = msgReader.msg
      BY <2>4, MsgReaderBusy DEF UpdateState, Messages
    <3>2. CASE ~(msgReader.state \in TerminalStates /\ ~msgCompleted[m])
      BY <2>1, <2>4, <3>1, <3>2 DEF UpdateState
    <3>3. CASE msgReader.state \in TerminalStates /\ ~msgCompleted[m]
      <4>1. msgResult[m] = "none" /\ callbacks[m] = 0
        BY <3>1, <3>3 DEF CompletionInPlace
      <4>2. /\ msgResult' = [msgResult EXCEPT ![m] = msgReader.state]
            /\ callbacks' = [callbacks EXCEPT ![m] = 1]
            /\ UNCHANGED <<msgClosed, msgWaiting>>
        BY <2>4, <3>1, <3>3, <4>1 DEF UpdateState, MessageTypeOK
      <4>3. MessageEnds!Settle(m, msgReader.state)
        BY <4>1, <4>2 DEF MessageEnds!Settle
      <4>4. QED
        BY <3>1, <3>3, <4>3 DEF MessageEnds!Next
    <3>4. QED
      BY <3>2, <3>3
  <2>5. CASE FinishUpdate
    <3>1. PICK m \in Messages : m = msgReader.msg /\ msgReader.at = "finish"
      BY <2>5, MsgReaderBusy DEF FinishUpdate, Messages
    <3>2. /\ msgClosed' = [msgClosed EXCEPT ![m] = @ \/ msgReader.state \in TerminalStates]
          /\ UNCHANGED <<callbacks, msgResult, msgWaiting>>
      BY <2>5, <3>1 DEF FinishUpdate
    <3>3. CASE msgClosed[m] \/ msgReader.state \notin TerminalStates
      <4>1. msgClosed' = msgClosed
        <5>1. msgClosed' = [msgClosed EXCEPT ![m] = msgClosed[m]]
          BY <3>1, <3>2, <3>3 DEF MessageTypeOK
        <5>2. QED
          BY <5>1 DEF MessageTypeOK
      <4>2. QED
        BY <2>1, <3>2, <4>1
    <3>4. CASE ~msgClosed[m] /\ msgReader.state \in TerminalStates
      <4>1. msgCompleted[m] /\ msgResult[m] \in TerminalStates
        BY <3>1, <3>4 DEF CompletionInPlace, Completing
      <4>2. msgResult[m] # "none"
        BY <4>1 DEF TerminalStates
      <4>3. Closed' = [Closed EXCEPT ![m] = 1] /\ Closed[m] = 0
        <5>1. msgClosed'[m] /\ \A n \in Messages : n # m => msgClosed'[n] = msgClosed[n]
          BY <3>1, <3>2, <3>4 DEF MessageTypeOK
        <5>2. QED
          BY <3>1, <3>4, <5>1
      <4>4. MessageEnds!Close(m)
        BY <3>2, <4>2, <4>3 DEF MessageEnds!Close
      <4>5. QED
        BY <4>4 DEF MessageEnds!Next
    <3>5. QED
      BY <3>3, <3>4
  <2>6. QED
    BY <2>1, <2>2, <2>3, <2>4, <2>5
       DEF MessageNext, MsgReaderStep, ClientStep, SendExecutes, SendFails, SendRegisters,
           ServerAccepts, ServerReports, ServerDeliversInbound, ReadResponse, ReadReceive,
           ReadState, LinkDrops, msgVars, MessageEnds!Next
<1>3. QED
  BY <1>1, <1>2, CompletionsStayInPlace, PTL
     DEF MessageSpec, MessagesImplementCompletion, MessageEnds!Spec

\* A step that leaves the frames and what the server says alone keeps the client's
\* knowledge if no message is forgotten and what was heard of each stays.
LEMMA SameNews ==
    ASSUME NewsInPlace, UNCHANGED <<frames, srv>>, missed \subseteq missed',
           \A m \in Outbound \ missed : srv[m] # "none" => Heard(m)' = Heard(m)
    PROVE  NewsInPlace'
  BY DEF NewsInPlace

\* The client's side: SendMessage, Wait, and updateState after its lookup.
LEMMA ClientTracks ==
    ASSUME MessageTypeOK, TrackingInv,
           \/ \E m \in Outbound : SendExecutes(m) \/ SendFails(m) \/ SendRegisters(m)
           \/ \E m \in Messages : MsgWait(m) \/ MsgWaitReturns(m)
           \/ UpdateState \/ FinishUpdate \/ UNCHANGED msgVars
    PROVE  TrackingInv'
<1> USE DEF clientVars, messageVars, TrackingInv
<1>1. UNCHANGED <<frames, srv, missed>>
  BY DEF SendExecutes, SendFails, SendRegisters, MsgWait, MsgWaitReturns, UpdateState, FinishUpdate,
         msgVars
<1>2. ResponseFirst'
  BY <1>1 DEF ResponseFirst
<1>3. ASSUME UNCHANGED <<spc, messages, msgState, msgReader>> PROVE TrackingInv'
  <2>1. SendingInPlace'
    BY <1>1, <1>3 DEF SendingInPlace
  <2>2. NewsInPlace'
    BY <1>1, <1>3, SameNews DEF Heard
  <2>3. QED
    BY <1>2, <2>1, <2>2
<1>4. ASSUME NEW m \in Outbound, SendExecutes(m) \/ SendFails(m) PROVE TrackingInv'
  <2>1. UNCHANGED <<messages, msgState, msgReader>> /\ \A n \in Outbound : n # m => spc'[n] = spc[n]
    BY <1>4 DEF SendExecutes, SendFails, SendGoto, MessageTypeOK
  <2>2. spc[m] \in {"idle", "exec"} /\ spc'[m] \in {"exec", "failed"}
    BY <1>4 DEF SendExecutes, SendFails, SendGoto, MessageTypeOK
  <2>3. SendingInPlace'
    BY <1>1, <2>1, <2>2 DEF SendingInPlace
  <2>4. NewsInPlace'
    BY <1>1, <2>1, SameNews DEF Heard
  <2>5. QED
    BY <1>2, <2>3, <2>4
<1>5. ASSUME NEW m \in Outbound, SendRegisters(m) PROVE TrackingInv'
  <2>1. /\ UNCHANGED msgReader /\ messages' = messages \cup {m} /\ msgState'[m] = "queued"
        /\ spc[m] = "answered" /\ spc'[m] = "sent"
        /\ \A n \in Outbound : n # m => spc'[n] = spc[n] /\ msgState'[n] = msgState[n]
    BY <1>5 DEF SendRegisters, SendGoto, MessageTypeOK, Messages
  <2>2. m \notin messages /\ (msgReader.at # "idle" => msgReader.msg # m)
    BY <2>1 DEF SendingInPlace
  <2>3. SendingInPlace'
    BY <1>1, <2>1 DEF SendingInPlace
  <2>4. \A n \in Outbound : Heard(n)' = Heard(n)
    BY <2>1, <2>2 DEF Heard
  <2>5. NewsInPlace'
    BY <1>1, <2>4, SameNews
  <2>6. QED
    BY <1>2, <2>3, <2>5
<1>6. CASE UpdateState
  <2>1. /\ msgReader.at = "update" /\ msgReader.msg \in Messages
        /\ msgReader'.msg = msgReader.msg /\ msgReader'.at = "finish"
        /\ msgState' = [msgState EXCEPT ![msgReader.msg] = msgReader.state]
        /\ UNCHANGED <<spc, messages>>
    BY <1>6, MsgReaderBusy DEF UpdateState, Messages
  <2>2. msgReader.msg \in messages
    BY <2>1 DEF SendingInPlace
  <2>3. SendingInPlace'
    BY <1>1, <2>1, <2>2 DEF SendingInPlace
  <2>4. \A n \in Outbound : Heard(n)' = Heard(n)
    BY <2>1, <2>2 DEF Heard, MessageTypeOK, Messages
  <2>5. QED
    BY <1>1, <1>2, <2>3, <2>4, SameNews
<1>7. CASE FinishUpdate
  <2>1. /\ msgReader.at = "finish" /\ msgReader'.at = "idle"
        /\ UNCHANGED <<spc, messages, msgState>>
    BY <1>7 DEF FinishUpdate, MsgIdle
  <2>2. SendingInPlace'
    BY <1>1, <2>1 DEF SendingInPlace
  <2>3. \A n \in Outbound : Heard(n)' = Heard(n)
    BY <2>1 DEF Heard
  <2>4. QED
    BY <1>1, <1>2, <2>2, <2>3, SameNews
<1>8. QED
  BY <1>3, <1>4, <1>5, <1>6, <1>7 DEF MsgWait, MsgWaitReturns, msgVars

\* The read loop reads a frame: it was news if no other about the message follows.
LEMMA ReadTracks ==
    ASSUME MessageTypeOK, TrackingInv, ReadResponse \/ ReadReceive \/ ReadState
    PROVE  TrackingInv'
<1> USE DEF clientVars, messageVars, TrackingInv
<1> DEFINE f == frames[1]
<1>1. /\ Len(frames) \in Nat /\ Len(frames) >= 1 /\ Head(frames) = f /\ f \in Frames
      /\ msgReader = MsgIdle /\ Len(frames') = Len(frames) - 1
      /\ \A i \in 1..Len(frames') : i + 1 \in 1..Len(frames) /\ frames'[i] = frames[i + 1]
  BY FrameRead DEF ReadResponse, ReadReceive, ReadState
<1>2. /\ srv' = srv /\ messages' = messages /\ missed \subseteq missed'
      /\ ReadResponse => f.kind = "response"
      /\ ReadReceive => f.kind = "receive"
      /\ ReadState => f.kind = "state"
  BY <1>1 DEF ReadResponse, ReadReceive, ReadState, Reads
<1>3. ResponseFirst'
  <2> SUFFICES ASSUME NEW i \in 1..Len(frames'), NEW j \in 1..Len(frames'),
                      i < j, frames'[i].msg = frames'[j].msg
               PROVE  frames'[j].kind # "response"
    BY DEF ResponseFirst
  <2>1. i + 1 < j + 1
    OBVIOUS
  <2>2. QED
    BY <1>1, <2>1 DEF ResponseFirst
<1>4. ASSUME NEW m \in Outbound
      PROVE  /\ \/ spc'[m] = spc[m]
                \/ f = Response(m) /\ spc[m] = "exec" /\ spc'[m] = "answered"
             /\ msgState'[m] = msgState[m]
  <2>1. CASE ReadResponse
    BY <1>1, <1>2, <2>1, FrameKinds DEF ReadResponse, MessageTypeOK
  <2>2. CASE ReadReceive
    <3>1. f.msg # m
      BY <1>1, <1>2, <2>2, FrameKinds, MessagesAssumption
    <3>2. QED
      BY <1>1, <2>2, <3>1 DEF ReadReceive, MessageTypeOK, Messages
  <2>3. CASE ReadState
    BY <2>3 DEF ReadState
  <2>4. QED
    BY <2>1, <2>2, <2>3
<1>5. SendingInPlace'
  <2>1. msgReader'.at # "idle" => msgReader'.msg \in messages'
    BY <1>1, <1>2 DEF ReadResponse, ReadReceive, ReadState, MsgIdle
  <2> SUFFICES ASSUME NEW m \in Outbound
               PROVE  /\ spc'[m] \in {"idle", "answered", "sent"} =>
                            \A i \in 1..Len(frames') : frames'[i] # Response(m)
                      /\ spc'[m] = "idle" => srv'[m] = "none"
                      /\ spc'[m] \in {"answered", "sent"} => srv'[m] # "none"
                      /\ srv'[m] = "none" => \A i \in 1..Len(frames') : frames'[i].msg # m
                      /\ m \in messages' => spc'[m] = "sent"
    BY <2>1 DEF SendingInPlace, Response
  <2>2. CASE spc'[m] = spc[m]
    BY <1>1, <1>2, <2>2 DEF SendingInPlace
  <2>3. CASE f = Response(m) /\ spc[m] = "exec" /\ spc'[m] = "answered"
    <3>1. f.msg = m /\ 1 \in 1..Len(frames)
      BY <1>1, <2>3 DEF Response
    <3>2. ASSUME NEW i \in 1..Len(frames') PROVE frames'[i] # Response(m)
      <4>1. i + 1 \in 1..Len(frames) /\ 1 < i + 1 /\ frames'[i] = frames[i + 1]
        BY <1>1
      <4>2. QED
        BY <3>1, <4>1 DEF ResponseFirst, Response
    <3>3. srv[m] # "none"
      BY <3>1 DEF SendingInPlace
    <3>4. QED
      BY <1>2, <2>3, <3>2, <3>3 DEF SendingInPlace
  <2>4. QED
    BY <1>4, <2>2, <2>3
<1>6. NewsInPlace'
  <2> SUFFICES ASSUME NEW m \in Outbound, m \notin missed'
               PROVE  /\ \A i \in 1..Len(frames') :
                            frames'[i].msg = m
                              /\ (\A j \in 1..Len(frames') : j > i => frames'[j].msg # m)
                                => Reported(frames'[i]) = srv'[m]
                      /\ srv'[m] # "none" /\ (\A i \in 1..Len(frames') : frames'[i].msg # m)
                            => Heard(m)' = srv'[m]
    BY DEF NewsInPlace, Reported
  <2>0. m \notin missed
    BY <1>2
  <2>1. ASSUME NEW i \in 1..Len(frames'), frames'[i].msg = m,
               \A j \in 1..Len(frames') : j > i => frames'[j].msg # m
        PROVE  Reported(frames'[i]) = srv'[m]
    <3>1. i + 1 \in 1..Len(frames) /\ frames'[i] = frames[i + 1]
      BY <1>1
    <3>2. ASSUME NEW j \in 1..Len(frames), j > i + 1 PROVE frames[j].msg # m
      <4>1. j - 1 \in 1..Len(frames') /\ j - 1 > i /\ frames'[j - 1] = frames[j]
        BY <1>1, <3>1, <3>2
      <4>2. QED
        BY <2>1, <4>1
    <3>3. QED
      BY <1>2, <2>0, <2>1, <3>1, <3>2 DEF NewsInPlace
  <2>2. ASSUME srv[m] # "none", \A i \in 1..Len(frames') : frames'[i].msg # m
        PROVE  Heard(m)' = srv[m]
    <3>1. ASSUME NEW j \in 1..Len(frames), j > 1 PROVE frames[j].msg # m
      <4>1. j - 1 \in 1..Len(frames') /\ frames'[j - 1] = frames[j]
        BY <1>1, <3>1
      <4>2. QED
        BY <2>2, <4>1
    <3>2. CASE f.msg # m
      <4>1. \A j \in 1..Len(frames) : frames[j].msg # m
        BY <1>1, <3>1, <3>2
      <4>2. Heard(m) = srv[m]
        BY <2>0, <2>2, <4>1 DEF NewsInPlace
      <4>3. msgReader'.at = "update" => msgReader'.msg # m
        BY <1>1, <3>2 DEF ReadResponse, ReadReceive, ReadState, MsgIdle
      <4>4. QED
        BY <1>1, <1>2, <1>4, <4>2, <4>3 DEF Heard, MsgIdle
    <3>3. CASE f.msg = m
      <4>1. Reported(f) = srv[m] /\ 1 \in 1..Len(frames)
        BY <1>1, <2>0, <3>1, <3>3 DEF NewsInPlace
      <4>2. CASE ReadResponse
        <5>1. f = Response(m) /\ srv[m] = "queued"
          BY <1>1, <1>2, <3>3, <4>1, <4>2, FrameKinds DEF Reported
        <5>2. m \notin messages
          BY <4>1, <5>1 DEF SendingInPlace
        <5>3. msgReader'.at = "idle"
          BY <1>1, <4>2 DEF ReadResponse, MsgIdle
        <5>4. QED
          BY <1>2, <5>1, <5>2, <5>3 DEF Heard
      <4>3. CASE ReadState
        BY <1>1, <1>2, <3>3, <4>1, <4>3 DEF ReadState, Heard, Reported
      <4>4. CASE ReadReceive
        BY <1>1, <1>2, <3>3, <4>4, FrameKinds, MessagesAssumption
      <4>5. QED
        BY <4>2, <4>3, <4>4
    <3>4. QED
      BY <3>2, <3>3
  <2>3. QED
    BY <1>2, <2>1, <2>2
<1>7. QED
  BY <1>3, <1>5, <1>6

\* The server sends a frame about a message, with what it says of it from now on;
\* a lost connection makes messages miss what was in flight.
LEMMA ServerTracks ==
    ASSUME MessageTypeOK, TrackingInv,
           \/ \E m \in Outbound : ServerAccepts(m) \/ \E s \in ServerStates : ServerReports(m, s)
           \/ \E m \in Inbound : ServerDeliversInbound(m)
           \/ LinkDrops
    PROVE  TrackingInv'
<1> USE DEF clientVars, messageVars, TrackingInv
<1>1. ASSUME NEW b \in Messages, NEW f \in Frames, f.msg = b, Sends(f),
             UNCHANGED <<spc, messages, msgState, msgReader, missed>>,
             \A m \in Outbound : m # b => srv'[m] = srv[m],
             b \in Outbound => Reported(f) = srv'[b] /\ srv'[b] # "none" /\ spc[b] # "idle",
             f.kind = "response" => srv[b] = "none" /\ b \in Outbound
      PROVE  TrackingInv'
  <2>1. /\ Len(frames) \in Nat /\ Len(frames') = Len(frames) + 1
        /\ frames'[Len(frames) + 1] = f /\ \A i \in 1..Len(frames) : frames'[i] = frames[i]
        /\ \A i \in 1..Len(frames') : i \in 1..Len(frames) \/ i = Len(frames) + 1
    BY <1>1, FrameSent
  <2>2. f.kind = "response" =>
            spc[b] \notin {"answered", "sent"} /\ \A i \in 1..Len(frames) : frames[i].msg # b
    BY <1>1 DEF SendingInPlace
  <2>3. SendingInPlace'
    <3>1. ASSUME NEW m \in Outbound, spc[m] \in {"idle", "answered", "sent"} PROVE f # Response(m)
      BY <1>1, <2>2, <3>1 DEF Response
    <3>2. ASSUME NEW m \in Outbound, spc[m] \in {"idle", "answered", "sent"},
                 NEW i \in 1..Len(frames')
          PROVE  frames'[i] # Response(m)
      BY <2>1, <3>1, <3>2 DEF SendingInPlace, Response
    <3>3. ASSUME NEW m \in Outbound
          PROVE  /\ spc[m] = "idle" => srv'[m] = "none"
                 /\ spc[m] \in {"answered", "sent"} => srv'[m] # "none"
                 /\ srv'[m] = "none" => \A i \in 1..Len(frames') : frames'[i].msg # m
      BY <1>1, <2>1 DEF SendingInPlace
    <3>4. QED
      BY <1>1, <3>2, <3>3 DEF SendingInPlace, Response
  <2>4. ResponseFirst'
    <3> SUFFICES ASSUME NEW i \in 1..Len(frames'), NEW j \in 1..Len(frames'),
                        i < j, frames'[i].msg = frames'[j].msg
                 PROVE  frames'[j].kind # "response"
      BY DEF ResponseFirst
    <3>1. i \in 1..Len(frames)
      BY <2>1
    <3>2. QED
      BY <1>1, <2>1, <2>2, <3>1 DEF ResponseFirst
  <2>5. NewsInPlace'
    <3> SUFFICES ASSUME NEW m \in Outbound, m \notin missed
                 PROVE  /\ \A i \in 1..Len(frames') :
                              frames'[i].msg = m
                                /\ (\A j \in 1..Len(frames') : j > i => frames'[j].msg # m)
                                  => Reported(frames'[i]) = srv'[m]
                        /\ srv'[m] # "none" /\ (\A i \in 1..Len(frames') : frames'[i].msg # m)
                              => Heard(m)' = srv'[m]
      BY <1>1 DEF NewsInPlace, Reported
    <3>1. Len(frames) + 1 \in 1..Len(frames') /\ \A i \in 1..Len(frames) : i \in 1..Len(frames')
      BY <2>1
    <3>2. CASE m = b
      <4>1. ASSUME NEW i \in 1..Len(frames'), \A j \in 1..Len(frames') : j > i => frames'[j].msg # m
            PROVE  i = Len(frames) + 1
        BY <1>1, <2>1, <3>1, <3>2, <4>1
      <4>2. QED
        BY <1>1, <2>1, <3>1, <3>2, <4>1
    <3>3. CASE m # b
      <4>1. Heard(m)' = Heard(m) /\ srv'[m] = srv[m]
        BY <1>1, <3>3 DEF Heard
      <4>2. ASSUME NEW i \in 1..Len(frames'), frames'[i].msg = m,
                   \A j \in 1..Len(frames') : j > i => frames'[j].msg # m
            PROVE  Reported(frames'[i]) = srv[m]
        <5>1. i \in 1..Len(frames) /\ \A j \in 1..Len(frames) : j > i => frames[j].msg # m
          BY <1>1, <2>1, <3>1, <3>3, <4>2
        <5>2. QED
          BY <2>1, <4>2, <5>1 DEF NewsInPlace
      <4>3. ASSUME srv[m] # "none", \A i \in 1..Len(frames') : frames'[i].msg # m
            PROVE  Heard(m) = srv[m]
        BY <2>1, <3>1, <4>3 DEF NewsInPlace
      <4>4. QED
        BY <4>1, <4>2, <4>3
    <3>4. QED
      BY <3>2, <3>3
  <2>6. QED
    BY <2>3, <2>4, <2>5
<1>2. ASSUME NEW m \in Outbound, ServerAccepts(m) PROVE TrackingInv'
  <2>1. Response(m) \in Frames /\ m \in Messages /\ spc[m] # "idle"
    BY <1>2 DEF Frames, Messages, ServerAccepts
  <2>2. Response(m).msg = m /\ Response(m).kind = "response" /\ Reported(Response(m)) = "queued"
    BY DEF Response, Reported
  <2>3. /\ srv[m] = "none" /\ srv'[m] = "queued" /\ \A n \in Outbound : n # m => srv'[n] = srv[n]
        /\ Sends(Response(m)) /\ UNCHANGED <<spc, messages, msgState, msgReader, missed>>
    BY <1>2, <2>1 DEF ServerAccepts, MessageTypeOK
  <2>4. QED
    BY <1>1, <2>1, <2>2, <2>3
<1>3. ASSUME NEW m \in Outbound, NEW s \in ServerStates, ServerReports(m, s) PROVE TrackingInv'
  <2>1. StateEvent(m, s) \in Frames /\ m \in Messages
    BY DEF Frames, Messages
  <2>2. StateEvent(m, s).msg = m /\ StateEvent(m, s).kind = "state" /\ Reported(StateEvent(m, s)) = s
    BY DEF StateEvent, Reported
  <2>3. /\ srv[m] # "none" /\ srv'[m] = s /\ s # "none"
        /\ \A n \in Outbound : n # m => srv'[n] = srv[n]
        /\ Sends(StateEvent(m, s)) /\ UNCHANGED <<spc, messages, msgState, msgReader, missed>>
    BY <1>3, <2>1 DEF ServerReports, MessageTypeOK, ServerStates
  <2>4. spc[m] # "idle"
    BY <2>3 DEF SendingInPlace
  <2>5. QED
    BY <1>1, <2>1, <2>2, <2>3, <2>4
<1>4. ASSUME NEW m \in Inbound, ServerDeliversInbound(m) PROVE TrackingInv'
  <2>1. Receive(m) \in Frames /\ m \in Messages /\ m \notin Outbound
    BY MessagesAssumption DEF Frames, Messages
  <2>2. Receive(m).msg = m /\ Receive(m).kind = "receive"
    BY DEF Receive
  <2>3. /\ \A n \in Outbound : n # m => srv'[n] = srv[n]
        /\ Sends(Receive(m)) /\ UNCHANGED <<spc, messages, msgState, msgReader, missed>>
    BY <1>4 DEF ServerDeliversInbound, MessageTypeOK, Messages
  <2>4. QED
    BY <1>1, <2>1, <2>2, <2>3
<1>5. CASE LinkDrops
  <2>1. /\ Len(frames') = 0 /\ UNCHANGED <<spc, messages, msgState, msgReader, srv>>
        /\ missed' = missed \cup {frames[i].msg : i \in 1..Len(frames)}
    BY <1>5 DEF LinkDrops
  <2>2. SendingInPlace' /\ ResponseFirst'
    BY <2>1 DEF SendingInPlace, ResponseFirst
  <2>3. NewsInPlace'
    <3> SUFFICES ASSUME NEW m \in Outbound, m \notin missed', srv[m] # "none"
                 PROVE  Heard(m)' = srv[m]
      BY <2>1 DEF NewsInPlace
    <3>1. m \notin missed /\ \A i \in 1..Len(frames) : frames[i].msg # m
      BY <2>1
    <3>2. QED
      BY <2>1, <3>1 DEF NewsInPlace, Heard
  <2>4. QED
    BY <2>2, <2>3
<1>6. QED
  BY <1>2, <1>3, <1>4, <1>5

\* A Message that missed no event is in the state the server reported last, once
\* every report has been handled: for any number of messages, whichever of the
\* registration and the first report comes first.
THEOREM MessagesTrackTheServer == MessageSpec => []TracksServer
<1>1. MessageInit => TrackingInv
  BY DEF MessageInit, TrackingInv, SendingInPlace, ResponseFirst, NewsInPlace, Messages, MsgIdle
<1>2. MessageTypeOK /\ TrackingInv /\ [MessageNext]_msgVars => TrackingInv'
  BY ClientTracks, ReadTracks, ServerTracks DEF MessageNext, MsgReaderStep, ClientStep
<1>3. MessageTypeOK /\ TrackingInv => TracksServer
  <2> SUFFICES ASSUME MessageTypeOK, TrackingInv, NEW m \in messages, ~InFlight(m), m \notin missed
               PROVE  msgState[m] = srv[m]
    BY DEF TracksServer
  <2>1. m \in Outbound
    BY DEF MessageTypeOK
  <2>2. QED
    BY <2>1 DEF TrackingInv, SendingInPlace, NewsInPlace, Heard, InFlight
<1>4. QED
  BY <1>1, <1>2, <1>3, MessageTypes, PTL DEF MessageSpec

\* The safety half of TrackedWaitReturns: done of a Message that missed no event is
\* closed when the server is through with it and every report has been handled.
TrackedIsReleased == \A m \in messages :
    ~InFlight(m) /\ m \notin missed /\ srv[m] \in {"delivered", "undelivered"} => msgClosed[m]

\* Nobody is left waiting for a Message whose terminal report was handled, whichever of
\* the registration and the first report came first.
THEOREM TrackedIsAlwaysReleased == MessageSpec => []TrackedIsReleased
<1>1. MessageTypeOK /\ CompletionInPlace /\ TracksServer => TrackedIsReleased
  <2> SUFFICES ASSUME MessageTypeOK, CompletionInPlace, TracksServer, NEW m \in messages,
                      ~InFlight(m), m \notin missed, srv[m] \in {"delivered", "undelivered"}
               PROVE  msgClosed[m]
    BY DEF TrackedIsReleased
  <2>1. m \in Outbound /\ m \in Messages /\ msgState[m] \in TerminalStates
    BY DEF MessageTypeOK, Messages, TracksServer, TerminalStates
  <2>2. ~Completing(m)
    BY DEF InFlight, Completing
  <2>3. QED
    BY <2>1, <2>2 DEF CompletionInPlace
<1>2. QED
  BY <1>1, CompletionsStayInPlace, MessagesTrackTheServer, PTL
=============================================================================
