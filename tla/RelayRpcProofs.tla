--------------------------- MODULE RelayRpcProofs ---------------------------
(***************************************************************************)
(* Proofs about RelayRpc for any number of requests, hook requests, bodies *)
(* and frames in flight.                                                   *)
(***************************************************************************)
EXTENDS RelayRpc, TLAPS

\* A registered channel is empty, except while the read loop is between its
\* send into it and the delete of its entry.
SlotFree == \A r \in pending : chan[r] = NoBody \/ (reader = "delete" /\ held.id = r)

\* Nothing is known anywhere of a request that has not been issued.
IdleClean ==
    /\ \A r \in Requests : pc[r] = "idle" =>
          chan[r] = NoBody /\ r \notin pending /\ r \notin asked
    /\ reader \in {"send", "delete"} => pc[held.id] # "idle"
    /\ \A i \in 1..Len(inbox) : inbox[i].kind = "response" => pc[inbox[i].id] # "idle"

\* Every body on its way to a caller was sent by the server for that caller.
Provenance ==
    /\ \A r \in Requests : chan[r] # NoBody => chan[r] \in answers[r]
    /\ reader \in {"send", "delete"} => held.body \in answers[held.id]
    /\ \A i \in 1..Len(inbox) :
          inbox[i].kind = "response" => inbox[i].body \in answers[inbox[i].id]

\* The inductive invariant of the correlation machinery.
CorrelationInv ==
    /\ TypeOK
    /\ SlotFree
    /\ IdleClean
    /\ Provenance
    /\ ReaderNeverBlocks
    /\ OwnAnswer
    /\ PendingOnlyLeaksOnStop

-----------------------------------------------------------------------------
\* The frame at the head of the socket is one of Frames, and taking it off
\* leaves a suffix of the queue: what readLoop's ReadMessage relies on.
LEMMA HeadAndTail ==
    ASSUME NEW q \in Seq(Frames), q # <<>>
    PROVE  /\ Head(q) \in Frames /\ Head(q) = q[1] /\ Len(q) \in Nat /\ Len(q) >= 1
           /\ Tail(q) \in Seq(Frames)
           /\ \A i \in 1..Len(Tail(q)) : i + 1 \in 1..Len(q) /\ Tail(q)[i] = q[i + 1]
  OBVIOUS

\* A fresh or torn-down socket has no frames in flight.
LEMMA EmptyInbox == <<>> \in Seq(Frames) /\ Len(<<>>) = 0
  OBVIOUS

\* A response frame names a request and a body; it is not an event.
LEMMA ResponseFrame ==
    ASSUME NEW f \in Frames, f.kind = "response"
    PROVE  f.id \in Requests /\ f.body \in Bodies
  BY DEF Frames, Event

\* Appending a frame keeps the frames already queued.
LEMMA Appending ==
    ASSUME NEW q \in Seq(Frames), NEW f \in Frames
    PROVE  /\ Append(q, f) \in Seq(Frames)
           /\ \A i \in 1..Len(Append(q, f)) :
                 (i \in 1..Len(q) /\ Append(q, f)[i] = q[i]) \/ Append(q, f)[i] = f
  OBVIOUS

\* A body of the server is never mistaken for an empty channel slot, and what
\* execute makes of it is an outcome.
LEMMA BodyFacts ==
    /\ NoBody \notin Bodies
    /\ \A b \in Bodies : Decode(b) \in {"ok", "gone", "error"}
  BY BodiesAssumption DEF NoBody, AllBodies, Decode

-----------------------------------------------------------------------------
\* Every variable of the correlation machinery keeps its type.
THEOREM TypeCorrect == Spec => []TypeOK
<1>1. Init => TypeOK
  <2> SUFFICES ASSUME Init PROVE TypeOK
    OBVIOUS
  <2>1. inbox \in Seq(Frames)
    BY EmptyInbox DEF Init
  <2>2. answers \in [Requests -> SUBSET Bodies]
    BY DEF Init
  <2>3. pc \in [Requests -> PCs] /\ outcome \in [Requests -> Outcomes]
    BY DEF Init, PCs, Outcomes
  <2>4. QED
    BY <2>1, <2>2, <2>3 DEF Init, TypeOK
<1>2. TypeOK /\ [Next]_vars => TypeOK'
  <2> SUFFICES ASSUME TypeOK, [Next]_vars PROVE TypeOK'
    OBVIOUS
  <2> USE DEF TypeOK
  <2>1. ASSUME NEW r \in Requests, Execute(r) \/ WriteOk(r) \/ WriteFail(r)
        PROVE  TypeOK'
    BY <2>1 DEF Execute, Register, WriteOk, WriteFail, PCs
  <2>2. ASSUME NEW r \in Requests, Receive(r)
        PROVE  TypeOK'
    <3>1. Decode(chan[r]) \in Outcomes
      BY <2>2, BodyFacts DEF Receive, Outcomes
    <3>2. QED
      BY <2>2, <3>1 DEF Receive, Return, PCs
  <2>3. ASSUME NEW r \in Requests, Cancelled(r) \/ TimerFires(r) \/ Unregister(r)
        PROVE  TypeOK'
    BY <2>3 DEF Cancelled, TimerFires, Unregister, Return, PCs, Outcomes
  <2>4. CASE ReadResponse
    BY <2>4, HeadAndTail, ResponseFrame DEF ReadResponse
  <2>5. CASE SendToChannel \/ DeletePending \/ HookReturns \/ ReaderExits
    BY <2>5 DEF SendToChannel, DeletePending, HookReturns, ReaderExits
  <2>6. CASE HandleEvent
    BY <2>6, HeadAndTail DEF HandleEvent
  <2>7. ASSUME NEW h \in HookRequests, HandleEventWithHook(h)
        PROVE  TypeOK'
    BY <2>7, HeadAndTail, RequestsAssumption DEF HandleEventWithHook, Register, PCs
  <2>8. CASE LinkDrops \/ Reconnect \/ StartReadLoop \/ Stop
    BY <2>8, EmptyInbox DEF LinkDrops, Reconnect, StartReadLoop, Stop
  <2>9. CASE ServerPushesEvent
    BY <2>9, Appending DEF ServerPushesEvent, Frames
  <2>10. ASSUME NEW r \in Requests, NEW b \in Bodies, ServerAnswers(r, b)
         PROVE  TypeOK'
    <3>1. Response(r, b) \in Frames
      BY DEF Response, Frames
    <3>2. QED
      BY <2>10, <3>1, Appending DEF ServerAnswers
  <2>11. CASE UNCHANGED vars
    BY <2>11 DEF vars
  <2>12. QED
    BY <2>1, <2>2, <2>3, <2>4, <2>5, <2>6, <2>7, <2>8, <2>9, <2>10, <2>11
       DEF Next, CallStep, ReaderStep, Environment
<1>3. QED
  BY <1>1, <1>2, PTL DEF Spec

-----------------------------------------------------------------------------
\* The inductive invariant holds in every reachable state: the bookkeeping of
\* execute, the read loop and the peer never disagree about a request.
THEOREM Correlation == Spec => []CorrelationInv
<1> DEFINE Rest == SlotFree /\ IdleClean /\ Provenance /\ ReaderNeverBlocks
                   /\ OwnAnswer /\ PendingOnlyLeaksOnStop
<1>1. Init => Rest
  BY DEF Init, SlotFree, IdleClean, Provenance, ReaderNeverBlocks, OwnAnswer,
         PendingOnlyLeaksOnStop
<1>2. TypeOK /\ TypeOK' /\ Rest /\ [Next]_vars => Rest'
  <2> SUFFICES ASSUME TypeOK, TypeOK', Rest, [Next]_vars PROVE Rest'
    OBVIOUS
  <2> USE DEF TypeOK, SlotFree, IdleClean, Provenance, ReaderNeverBlocks, OwnAnswer,
              PendingOnlyLeaksOnStop
  <2>1. ASSUME NEW r \in Requests, Execute(r)
        PROVE  Rest'
    BY <2>1 DEF Execute, Register
  <2>2. ASSUME NEW r \in Requests, WriteOk(r) \/ WriteFail(r) \/ TimerFires(r)
        PROVE  Rest'
    <3>1. SlotFree' /\ ReaderNeverBlocks' /\ PendingOnlyLeaksOnStop' /\ OwnAnswer'
      BY <2>2 DEF WriteOk, WriteFail, TimerFires
    <3>2. Provenance'
      BY <2>2 DEF WriteOk, WriteFail, TimerFires
    <3>3. IdleClean'
      <4>1. \A q \in Requests : pc'[q] = "idle" => pc[q] = "idle" /\ q # r
        BY <2>2 DEF WriteOk, WriteFail, TimerFires
      <4>2. \A i \in 1..Len(inbox) : inbox[i].kind = "response" => inbox[i].id \in Requests
        BY ResponseFrame
      <4>3. UNCHANGED <<chan, pending, inbox, reader, held>> /\ asked' \subseteq asked \cup {r}
        BY <2>2 DEF WriteOk, WriteFail, TimerFires
      <4>4. QED
        BY <4>1, <4>2, <4>3
    <3>4. QED
      BY <3>1, <3>2, <3>3
  <2>3. ASSUME NEW r \in Requests, Receive(r)
        PROVE  Rest'
    <3>1. OwnAnswer'
      <4>1. chan[r] \in answers[r] /\ outcome'[r] = Decode(chan[r]) /\ answers' = answers
        BY <2>3 DEF Receive, Return
      <4>2. \A q \in Requests \ {r} : outcome'[q] = outcome[q]
        BY <2>3 DEF Receive, Return
      <4>3. QED
        BY <4>1, <4>2
    <3>2. SlotFree' /\ ReaderNeverBlocks' /\ PendingOnlyLeaksOnStop'
      BY <2>3 DEF Receive, Return
    <3>3. IdleClean' /\ Provenance'
      BY <2>3 DEF Receive, Return
    <3>4. QED
      BY <3>1, <3>2, <3>3
  <2>4. ASSUME NEW r \in Requests, Cancelled(r)
        PROVE  Rest'
    BY <2>4 DEF Cancelled, Return
  <2>5. ASSUME NEW r \in Requests, Unregister(r)
        PROVE  Rest'
    BY <2>5 DEF Unregister, Return
  <2>6. CASE ReadResponse
    <3> DEFINE f == Head(inbox)
    <3>1. f \in Frames /\ f.id \in Requests /\ f.body \in Bodies
      BY <2>6, HeadAndTail, ResponseFrame DEF ReadResponse
    <3>2. f.body \in answers[f.id] /\ pc[f.id] # "idle"
      BY <2>6, HeadAndTail DEF ReadResponse
    <3>3. \A i \in 1..Len(inbox') : i + 1 \in 1..Len(inbox) /\ inbox'[i] = inbox[i + 1]
      BY <2>6, HeadAndTail DEF ReadResponse
    <3>4. SlotFree' /\ ReaderNeverBlocks' /\ OwnAnswer' /\ PendingOnlyLeaksOnStop'
      BY <2>6, <3>1 DEF ReadResponse
    <3>5. IdleClean' /\ Provenance'
      BY <2>6, <3>1, <3>2, <3>3 DEF ReadResponse
    <3>6. QED
      BY <3>4, <3>5
  <2>7. CASE SendToChannel
    BY <2>7 DEF SendToChannel
  <2>8. CASE DeletePending
    BY <2>8 DEF DeletePending
  <2>9. CASE HandleEvent
    <3>1. \A i \in 1..Len(inbox') : i + 1 \in 1..Len(inbox) /\ inbox'[i] = inbox[i + 1]
      BY <2>9, HeadAndTail DEF HandleEvent
    <3>2. QED
      BY <2>9, <3>1 DEF HandleEvent
  <2>10. ASSUME NEW h \in HookRequests, HandleEventWithHook(h)
         PROVE  Rest'
    <3>1. \A i \in 1..Len(inbox') : i + 1 \in 1..Len(inbox) /\ inbox'[i] = inbox[i + 1]
      BY <2>10, HeadAndTail DEF HandleEventWithHook
    <3>2. h \in Requests
      BY RequestsAssumption
    <3>3. SlotFree' /\ ReaderNeverBlocks' /\ OwnAnswer' /\ PendingOnlyLeaksOnStop'
      BY <2>10, <3>2 DEF HandleEventWithHook, Register
    <3>4. IdleClean' /\ Provenance'
      BY <2>10, <3>1, <3>2 DEF HandleEventWithHook, Register
    <3>5. QED
      BY <3>3, <3>4
  <2>11. CASE HookReturns \/ ReaderExits \/ StartReadLoop \/ Reconnect
    BY <2>11 DEF HookReturns, ReaderExits, StartReadLoop, Reconnect
  <2>12. CASE LinkDrops \/ Stop
    BY <2>12, EmptyInbox DEF LinkDrops, Stop
  <2>13. CASE ServerPushesEvent
    <3>1. \A i \in 1..Len(inbox') :
             (i \in 1..Len(inbox) /\ inbox'[i] = inbox[i]) \/ inbox'[i] = Event
      BY <2>13, Appending DEF ServerPushesEvent, Frames
    <3>2. QED
      BY <2>13, <3>1 DEF ServerPushesEvent, Event
  <2>14. ASSUME NEW r \in Requests, NEW b \in Bodies, ServerAnswers(r, b)
         PROVE  Rest'
    <3>1. \A i \in 1..Len(inbox') :
             (i \in 1..Len(inbox) /\ inbox'[i] = inbox[i]) \/ inbox'[i] = Response(r, b)
      <4>1. Response(r, b) \in Frames
        BY DEF Response, Frames
      <4>2. QED
        BY <2>14, <4>1, Appending DEF ServerAnswers
    <3>2. \A q \in Requests : answers[q] \subseteq answers'[q]
      BY <2>14 DEF ServerAnswers
    <3>3. b \in answers'[r]
      BY <2>14 DEF ServerAnswers
    <3>4. \A i \in 1..Len(inbox) : inbox[i] \in Frames
      OBVIOUS
    <3>5. SlotFree' /\ ReaderNeverBlocks' /\ PendingOnlyLeaksOnStop'
      BY <2>14 DEF ServerAnswers
    <3>6. IdleClean'
      BY <2>14, <3>1 DEF ServerAnswers, Response
    <3>7. Provenance'
      BY <2>14, <3>1, <3>2, <3>3, <3>4, ResponseFrame DEF ServerAnswers, Response
    <3>8. OwnAnswer'
      BY <2>14, <3>2 DEF ServerAnswers
    <3>9. QED
      BY <3>5, <3>6, <3>7, <3>8
  <2>15. CASE UNCHANGED vars
    BY <2>15 DEF vars
  <2>16. QED
    BY <2>1, <2>2, <2>3, <2>4, <2>5, <2>6, <2>7, <2>8, <2>9, <2>10, <2>11, <2>12,
       <2>13, <2>14, <2>15
       DEF Next, CallStep, ReaderStep, Environment
<1>3. QED
  BY <1>1, <1>2, TypeCorrect, PTL DEF Spec, CorrelationInv

\* The read loop never blocks on a response channel (readLoop's ch <- ...).
THEOREM ReaderIsNeverBlocked == Spec => []ReaderNeverBlocks
  BY Correlation, PTL DEF CorrelationInv

\* A caller of execute is only ever given an answer to its own request.
THEOREM AnswersAreOwn == Spec => []OwnAnswer
  BY Correlation, PTL DEF CorrelationInv

\* The pending map outlives a call only through the ctx.Done branch of execute.
THEOREM PendingIsPruned == Spec => []PendingOnlyLeaksOnStop
  BY Correlation, PTL DEF CorrelationInv

-----------------------------------------------------------------------------
\* The abstract status of a request: idle, open, or what execute returned.
Status == [r \in Requests |-> IF pc[r] = "idle" THEN "idle"
                              ELSE IF pc[r] = "done" THEN outcome[r] ELSE "open"]

\* execute, with its map, channels, timers and read loop, implements a request
\* that finishes once, with its own answer or a local failure.
THEOREM Refinement == Spec => ImplementsRpcAbstract
<1>1. Init => Abstract!Init
  BY DEF Init, Abstract!Init
<1>2. CorrelationInv /\ CorrelationInv' /\ [Next]_vars => [Abstract!Next]_(Abstract!vars)
  <2> SUFFICES ASSUME CorrelationInv, CorrelationInv', [Next]_vars
               PROVE  [Abstract!Next]_(Abstract!vars)
    OBVIOUS
  <2> USE DEF CorrelationInv, TypeOK, Status
  <2>1. ASSUME NEW r \in Requests, Register(r), UNCHANGED <<outcome, answers>>
        PROVE  Abstract!Issue(r)
    BY <2>1 DEF Register, Abstract!Issue
  <2>2. ASSUME NEW r \in Requests, NEW o, Return(r, o), UNCHANGED answers,
               pc[r] \in {"wait", "unsent", "expired"},
               \/ o \in {"writeErr", "timeout", "cancelled"}
               \/ \E b \in answers[r] : o = Decode(b)
        PROVE  Abstract!Finish(r, o)
    <3>1. Status' = [Status EXCEPT ![r] = o] /\ Status[r] = "open"
      BY <2>2 DEF Return
    <3>2. QED
      BY <2>2, <3>1 DEF Abstract!Finish, Abstract!LocalFailures
  <2>3. ASSUME NEW r \in Requests, WriteOk(r) \/ WriteFail(r) \/ TimerFires(r)
        PROVE  UNCHANGED Abstract!vars
    BY <2>3 DEF WriteOk, WriteFail, TimerFires, Abstract!vars
  <2>4. ASSUME NEW r \in Requests, Receive(r)
        PROVE  Abstract!Next
    <3>1. chan[r] \in answers[r]
      BY <2>4 DEF Receive, Provenance
    <3>2. Return(r, Decode(chan[r])) /\ UNCHANGED answers /\ pc[r] = "wait"
      BY <2>4 DEF Receive
    <3>3. PICK o : o = Decode(chan[r])
      OBVIOUS
    <3>4. Return(r, o) /\ \E b \in answers[r] : o = Decode(b)
      BY <3>1, <3>2, <3>3
    <3>5. Abstract!Finish(r, o)
      BY <2>2, <3>2, <3>4
    <3>6. o \in Abstract!LocalFailures \cup {Decode(b) : b \in answers[r]}
      BY <3>4
    <3>7. QED
      BY <3>5, <3>6 DEF Abstract!Next
  <2>5. ASSUME NEW r \in Requests, Cancelled(r) \/ Unregister(r)
        PROVE  Abstract!Next
    <3>1. \E o \in {"writeErr", "timeout", "cancelled"} : Abstract!Finish(r, o)
      BY <2>2, <2>5 DEF Cancelled, Unregister
    <3>2. QED
      BY <3>1 DEF Abstract!Next, Abstract!LocalFailures
  <2>6. ASSUME NEW r \in Requests, NEW b \in Bodies, ServerAnswers(r, b)
        PROVE  Abstract!Serve(r, b)
    BY <2>6 DEF ServerAnswers, IdleClean, Outcomes, Abstract!Serve
  <2>7. ASSUME NEW h \in HookRequests, HandleEventWithHook(h)
        PROVE  Abstract!Next
    <3>1. h \in Requests
      BY RequestsAssumption
    <3>2. Abstract!Issue(h)
      BY <2>1, <2>7, <3>1 DEF HandleEventWithHook
    <3>3. QED
      BY <3>1, <3>2 DEF Abstract!Next
  <2>8. ASSUME NEW r \in Requests, Execute(r)
        PROVE  Abstract!Next
    BY <2>1, <2>8 DEF Execute, Abstract!Next
  <2>9. ASSUME UNCHANGED <<pc, outcome, answers>>
        PROVE  UNCHANGED Abstract!vars
    BY <2>9 DEF Abstract!vars
  <2>10. CASE ReadResponse \/ SendToChannel \/ DeletePending \/ HandleEvent \/ HookReturns
              \/ ReaderExits \/ LinkDrops \/ Reconnect \/ StartReadLoop \/ Stop
              \/ ServerPushesEvent \/ UNCHANGED vars
    BY <2>9, <2>10 DEF ReadResponse, SendToChannel, DeletePending, HandleEvent, HookReturns,
       ReaderExits, LinkDrops, Reconnect, StartReadLoop, Stop, ServerPushesEvent, vars
  <2>11. QED
    BY <2>3, <2>4, <2>5, <2>6, <2>7, <2>8, <2>10
       DEF Next, CallStep, ReaderStep, Environment, Abstract!Next
<1>3. QED
  BY <1>1, <1>2, Correlation, PTL DEF Spec, ImplementsRpcAbstract, Abstract!Spec
=============================================================================
