----------------------------- MODULE SdkProofs ------------------------------
(***************************************************************************)
(* Proofs about the REST client and the agent with its server, and about   *)
(* the parts of the SDK together: RestRetry for any number of retries, any *)
(* retry_on_status set and any statuses the server uses, RestPaginator for *)
(* any finite set of pages and any links between them, AgentServing,       *)
(* AgentRun and AgentRequests for any number of overlapping runs, calls of *)
(* Shutdown, signal goroutines, requests and setters. What is proved of    *)
(* each part, here and in ToolProofs and SpiderProofs, holds of SdkParts.  *)
(***************************************************************************)
EXTENDS SdkParts, SpiderProofs, ToolProofs, FiniteSetTheorems, TLAPS

-----------------------------------------------------------------------------
(* RestRetry: the retry loop                                               *)

\* The counters agree with the place in the loop: an attempt under way has not
\* been counted by the server, the next one is within the limit.
CountersAgree ==
    /\ sent <= attempt
    /\ pc \in {"check", "sleep"} => attempt < Attempts
    /\ pc = "send" => sent < attempt
    /\ pc = "await" => processed < sent
    /\ pc \in {"send", "await", "decide", "sleep"} => attempt >= 1

\* While a request that is not idempotent may still be sent, the server has
\* carried out only attempts whose answer was lost.
OnlyUnseenSoFar ==
    method \notin idempotentMethods =>
        /\ pc \in {"check", "send", "await", "sleep"} => processed <= unseen
        /\ pc = "decide" /\ Retryable => processed <= unseen

RetryInv == /\ TypeOK /\ CountersAgree /\ OnlyUnseenSoFar
            /\ NotRepeatedOnStatus /\ RetriesUsed

-----------------------------------------------------------------------------
\* The number of attempts is a positive number, one more than the retries.
LEMMA AttemptsFact ==
    /\ Attempts \in Nat /\ Attempts >= 1
    /\ \A n \in Nat : n >= 1 /\ n <= Attempts /\ ~(n <= Retries) => n = Attempts
    /\ \A n \in Nat : n <= Retries => n < Attempts
  BY RetriesAssumption DEF Attempts

\* What an attempt can end with is among the results.
LEMMA ResultFacts ==
    /\ Ended("none") \in Results /\ Ended("transport") \in Results
    /\ \A r \in Answers : r \in Results
    /\ \A r \in Answers : r.kind # "transport"
    /\ \A r \in Answers : r.kind = "status" \/ r.kind \in {"ok", "broken"}
  BY DEF Results, Answers, Ended, Status

-----------------------------------------------------------------------------
\* The counters stay within the number of attempts and in their order: no more is
\* carried out than was sent, no more sent than allowed.
THEOREM TypeCorrect == Spec => [](TypeOK /\ CountersAgree)
<1>1. Init => TypeOK /\ CountersAgree
  <2> SUFFICES ASSUME Init PROVE TypeOK /\ CountersAgree
    OBVIOUS
  <2>1. signal \in {"absent", "armed", "fired"}
    BY SignalsAssumption DEF Init
  <2>2. reply \in Results /\ returned \in Results
    BY ResultFacts DEF Init
  <2>3. attempt \in 0..Attempts /\ sent \in 0..Attempts /\ processed \in 0..sent /\ unseen \in 0..processed
    BY AttemptsFact DEF Init
  <2>4. CountersAgree
    BY AttemptsFact DEF Init, CountersAgree
  <2>5. /\ method \in Methods /\ ctxDone \in BOOLEAN /\ derivedDone \in BOOLEAN
        /\ pc \in {"check", "send", "await", "decide", "sleep", "done"}
    BY DEF Init
  <2>6. QED
    BY <2>1, <2>2, <2>3, <2>4, <2>5 DEF TypeOK
<1>2. TypeOK /\ CountersAgree /\ [Next]_vars => (TypeOK /\ CountersAgree)'
  <2> SUFFICES ASSUME TypeOK, CountersAgree, [Next]_vars PROVE TypeOK' /\ CountersAgree'
    OBVIOUS
  <2> USE AttemptsFact, ResultFacts DEF TypeOK, CountersAgree, serverVars, contextVars
  <2>1. CASE CheckCancelled
    BY <2>1 DEF CheckCancelled, Return
  <2>2. CASE FailsBeforeServer
    BY <2>2 DEF FailsBeforeServer
  <2>3. CASE Sends
    BY <2>3 DEF Sends
  <2>4. CASE ReplyLost
    BY <2>4 DEF ReplyLost
  <2>5. ASSUME NEW r \in Answers, ServerAnswers(r) PROVE TypeOK' /\ CountersAgree'
    BY <2>5 DEF ServerAnswers
  <2>6. CASE Decide
    BY <2>6 DEF Decide, Return
  <2>7. CASE Sleeps
    BY <2>7 DEF Sleeps, Return
  <2>8. CASE CallerCancels \/ SignalFires \/ SignalPropagates
    BY <2>8 DEF CallerCancels, SignalFires, SignalPropagates
  <2>9. CASE UNCHANGED vars
    BY <2>9 DEF vars
  <2>10. QED
    BY <2>1, <2>2, <2>3, <2>4, <2>5, <2>6, <2>7, <2>8, <2>9 DEF Next, Step
<1>3. QED
  BY <1>1, <1>2, PTL DEF Spec

-----------------------------------------------------------------------------
\* The inductive invariant of the retry loop.
THEOREM RetryLoop == Spec => []RetryInv
<1> DEFINE Typed == TypeOK /\ CountersAgree
           Rest == OnlyUnseenSoFar /\ NotRepeatedOnStatus /\ RetriesUsed
<1>1. Init => Rest
  BY DEF Init, OnlyUnseenSoFar, NotRepeatedOnStatus, RetriesUsed, Retryable, Ended
<1>2. Typed /\ Typed' /\ Rest /\ [Next]_vars => Rest'
  <2> SUFFICES ASSUME Typed, Typed', Rest, [Next]_vars PROVE Rest'
    OBVIOUS
  <2> USE AttemptsFact, ResultFacts
      DEF TypeOK, CountersAgree, OnlyUnseenSoFar, NotRepeatedOnStatus, RetriesUsed,
          Retryable, serverVars, contextVars
  <2>1. CASE CheckCancelled
    BY <2>1 DEF CheckCancelled, Return, ParentDone
  <2>2. CASE FailsBeforeServer
    BY <2>2 DEF FailsBeforeServer
  <2>3. CASE Sends
    BY <2>3 DEF Sends
  <2>4. CASE ReplyLost
    BY <2>4 DEF ReplyLost
  <2>5. ASSUME NEW r \in Answers, ServerAnswers(r) PROVE Rest'
    BY <2>5 DEF ServerAnswers, StatusIsRetryable
  <2>6. CASE Decide
    BY <2>6 DEF Decide, Return
  <2>7. CASE Sleeps
    BY <2>7 DEF Sleeps, Return, ParentDone, Ended
  <2>8. CASE CallerCancels \/ SignalFires \/ SignalPropagates
    BY <2>8 DEF CallerCancels, SignalFires, SignalPropagates
  <2>9. CASE UNCHANGED vars
    BY <2>9 DEF vars
  <2>10. QED
    BY <2>1, <2>2, <2>3, <2>4, <2>5, <2>6, <2>7, <2>8, <2>9 DEF Next, Step
<1>3. QED
  BY <1>1, <1>2, TypeCorrect, PTL DEF Spec, RetryInv

\* A POST or PATCH is not carried out twice because of an answer that came.
THEOREM StatusNeverRepeats == Spec => []NotRepeatedOnStatus
<1>1. RetryInv => NotRepeatedOnStatus
  BY DEF RetryInv
<1>2. QED
  BY <1>1, RetryLoop, PTL

\* The loop gives up on a failure that may be retried only at its limit or when
\* it was cancelled.
THEOREM NoRetryWasted == Spec => []RetriesUsed
<1>1. RetryInv => RetriesUsed
  BY DEF RetryInv
<1>2. QED
  BY <1>1, RetryLoop, PTL

-----------------------------------------------------------------------------
(* RestPaginator: every page once                                          *)

\* The pages still to be handed over: the one with ForEach, the one to be fetched.
Due == {p \in Pages : (walking = "items" /\ items = p) \/ (~done /\ page = p)}
DueTimes(p) == (IF walking = "items" /\ items = p THEN 1 ELSE 0) + (IF ~done /\ page = p THEN 1 ELSE 0)

\* A page is asked for once for each time its cursor is new, and the first page
\* once more, without a cursor.
AskedOnce == \A p \in Pages :
    Times(p) + DueTimes(p) <= (IF p = First THEN 1 ELSE 0) + (IF p \in seenNext THEN 1 ELSE 0)

\* Every page that was linked to is handed over or still due.
NothingDropped ==
    /\ First \in Handed \cup Due
    /\ \A p \in Pages : p \in seenNext => p \in Handed \cup Due
    /\ \A p \in Pages : p \in Handed \/ (walking = "items" /\ p = items) =>
          (links[p] \in Pages => links[p] \in Handed \cup Due)

-----------------------------------------------------------------------------
\* Every variable of the walk keeps its type.
THEOREM WalkTypes == WalkSpec => []WalkTypeOK
<1>1. WalkInit => WalkTypeOK
  <2> SUFFICES ASSUME WalkInit PROVE WalkTypeOK
    OBVIOUS
  <2>1. delivered \in Seq(Pages)
    BY DEF WalkInit
  <2>2. QED
    BY <2>1, PagesAssumption DEF WalkInit, WalkTypeOK
<1>2. WalkTypeOK /\ [WalkNext]_walkVars => WalkTypeOK'
  <2> SUFFICES ASSUME WalkTypeOK, [WalkNext]_walkVars PROVE WalkTypeOK'
    OBVIOUS
  <2> USE DEF WalkTypeOK, pageVars, walkHistory
  <2>1. CASE NextFetches
    BY <2>1 DEF NextFetches, Follows
  <2>2. CASE ItemsDelivered
    BY <2>2 DEF ItemsDelivered
  <2>3. CASE NextExhausted \/ NextFails \/ CallbackFails \/ ForEachAgain \/ UNCHANGED walkVars
    BY <2>3 DEF NextExhausted, NextFails, CallbackFails, ForEachAgain, walkVars
  <2>4. QED
    BY <2>1, <2>2, <2>3 DEF WalkNext, ForEachStep
<1>3. QED
  BY <1>1, <1>2, PTL DEF WalkSpec

\* What handing a page over does to the counts.
LEMMA CountedOnce ==
    ASSUME WalkTypeOK
    PROVE  /\ \A p \in Pages : Times(p) \in Nat
           /\ delivered' = delivered => \A p \in Pages : Times(p)' = Times(p)
           /\ delivered' = Append(delivered, items) =>
                 /\ \A p \in Pages : Times(p)' = Times(p) + (IF p = items THEN 1 ELSE 0)
                 /\ {delivered'[i] : i \in DOMAIN delivered'}
                       = {delivered[i] : i \in DOMAIN delivered} \cup {items}
<1> DEFINE At(p) == {i \in DOMAIN delivered : delivered[i] = p}
<1>1. delivered \in Seq(Pages) /\ Len(delivered) \in Nat /\ DOMAIN delivered = 1..Len(delivered)
  BY DEF WalkTypeOK
<1>2. \A p \in Pages : IsFiniteSet(At(p)) /\ Cardinality(At(p)) \in Nat
  <2> TAKE p \in Pages
  <2>1. IsFiniteSet(1..Len(delivered)) /\ At(p) \in SUBSET (1..Len(delivered))
    BY <1>1, FS_Interval
  <2>2. IsFiniteSet(At(p))
    BY <2>1, FS_Subset
  <2>3. QED
    BY <2>2, FS_CardinalityType
<1>3. \A p \in Pages : Times(p) \in Nat
  BY <1>2 DEF Times
<1>4. ASSUME delivered' = Append(delivered, items)
      PROVE  /\ \A p \in Pages : Times(p)' = Times(p) + (IF p = items THEN 1 ELSE 0)
             /\ {delivered'[i] : i \in DOMAIN delivered'}
                   = {delivered[i] : i \in DOMAIN delivered} \cup {items}
  <2> DEFINE n == Len(delivered) + 1
  <2>1. /\ DOMAIN delivered' = 1..n /\ n \in 1..n /\ delivered'[n] = items
        /\ \A i \in 1..Len(delivered) : i \in 1..n /\ delivered'[i] = delivered[i]
        /\ \A i \in 1..n : i \in 1..Len(delivered) \/ i = n
    BY <1>1, <1>4 DEF WalkTypeOK
  <2>2. n \notin 1..Len(delivered)
    BY <1>1
  <2> HIDE DEF n
  <2>3. ASSUME NEW p \in Pages PROVE Times(p)' = Times(p) + (IF p = items THEN 1 ELSE 0)
    <3>1. CASE p = items
      <4>1. {i \in DOMAIN delivered' : delivered'[i] = p} = At(p) \cup {n} /\ n \notin At(p)
        BY <1>1, <2>1, <2>2, <3>1
      <4>2. Cardinality(At(p) \cup {n}) = Cardinality(At(p)) + 1
        <5> HIDE DEF At
        <5>1. QED
          BY <1>2, <4>1, FS_AddElement
      <4>3. QED
        BY <3>1, <4>1, <4>2 DEF Times
    <3>2. CASE p # items
      <4>1. {i \in DOMAIN delivered' : delivered'[i] = p} = At(p)
        BY <1>1, <2>1, <3>2
      <4>2. Times(p) \in Nat
        BY <1>3
      <4>3. QED
        BY <3>2, <4>1, <4>2 DEF Times
    <3>3. QED
      BY <3>1, <3>2
  <2>4. {delivered'[i] : i \in DOMAIN delivered'}
           = {delivered[i] : i \in DOMAIN delivered} \cup {items}
    BY <1>1, <2>1
  <2>5. QED
    BY <2>3, <2>4
<1>5. QED
  BY <1>3, <1>4 DEF Times

\* The walk hands no page over twice but the first, which a cycle back to it shows once
\* more, and it drops none: for any finite set of pages, however the links between
\* them run, and although fetches and callbacks fail and callers come back.
THEOREM WalksAreSound == WalkSpec => []WalkIsSound
<1> USE DEF pageVars, walkHistory
<1>1. WalkInit => AskedOnce /\ NothingDropped
  <2> SUFFICES ASSUME WalkInit PROVE AskedOnce /\ NothingDropped
    OBVIOUS
  <2>1. \A p \in Pages : Times(p) = 0
    BY FS_EmptySet DEF WalkInit, Times
  <2>2. AskedOnce
    BY <2>1 DEF WalkInit, AskedOnce, DueTimes
  <2>3. Handed = {} /\ Due = {First}
    BY PagesAssumption DEF WalkInit, Handed, Due
  <2>4. QED
    BY <2>2, <2>3 DEF WalkInit, NothingDropped
<1>2. WalkTypeOK /\ AskedOnce /\ NothingDropped /\ [WalkNext]_walkVars => (AskedOnce /\ NothingDropped)'
  <2> SUFFICES ASSUME WalkTypeOK, AskedOnce, NothingDropped, [WalkNext]_walkVars
               PROVE  AskedOnce' /\ NothingDropped'
    OBVIOUS
  <2>0. \A p \in Pages : Times(p) \in Nat /\ DueTimes(p) \in 0..2
    BY CountedOnce DEF DueTimes
  <2>1. CASE NextExhausted \/ NextFails \/ ForEachAgain \/ UNCHANGED walkVars
    <3>1. /\ UNCHANGED <<links, page, done, seenNext, items, delivered, refused>>
          /\ walking' = "items" <=> walking = "items"
      BY <2>1 DEF NextExhausted, NextFails, ForEachAgain, walkVars
    <3>2. Handed' = Handed /\ Due' = Due /\ \A p \in Pages : DueTimes(p)' = DueTimes(p)
      BY <3>1 DEF Handed, Due, DueTimes
    <3>3. \A p \in Pages : Times(p)' = Times(p)
      BY <3>1, CountedOnce
    <3>4. AskedOnce'
      BY <3>1, <3>2, <3>3 DEF AskedOnce
    <3>5. NothingDropped'
      BY <3>1, <3>2 DEF NothingDropped
    <3>6. QED
      BY <3>4, <3>5
  <2>2. CASE NextFetches
    <3> DEFINE q == links[page]
               more == q \notin {End, Malformed} \cup seenNext
    <3>1. /\ walking = "next" /\ ~done /\ walking' = "items" /\ items' = page /\ done' = ~more
          /\ page' = IF more THEN q ELSE page
          /\ seenNext' = IF q = End THEN seenNext ELSE seenNext \cup {q}
          /\ UNCHANGED <<links, delivered, refused>>
      BY <2>2 DEF NextFetches, Follows
    <3>2. page \in Pages /\ q \in Pages \cup {End, Malformed}
      BY DEF WalkTypeOK
    <3> HIDE DEF q
    <3>3. \A p \in Pages : Times(p)' = Times(p)
      BY <3>1, CountedOnce
    <3>4. AskedOnce'
      <4> SUFFICES ASSUME NEW p \in Pages
                   PROVE  Times(p) + DueTimes(p)' <=
                            (IF p = First THEN 1 ELSE 0) + (IF p \in seenNext' THEN 1 ELSE 0)
        BY <3>3 DEF AskedOnce
      <4>1. DueTimes(p) = IF page = p THEN 1 ELSE 0
        BY <3>1 DEF DueTimes
      <4>2. DueTimes(p)' = (IF page = p THEN 1 ELSE 0) + (IF more /\ q = p THEN 1 ELSE 0)
        BY <3>1, <3>2 DEF DueTimes
      <4>3. /\ p \in seenNext => p \in seenNext'
            /\ more /\ q = p => p \notin seenNext /\ p \in seenNext'
        BY <3>1
      <4>4. Times(p) + (IF page = p THEN 1 ELSE 0) <=
                (IF p = First THEN 1 ELSE 0) + (IF p \in seenNext THEN 1 ELSE 0)
        BY <4>1 DEF AskedOnce
      <4>5. QED
        BY <2>0, <4>2, <4>3, <4>4
    <3>5. Handed' = Handed /\ Due \subseteq Due' /\ page \in Due' /\ (more => q \in Due')
      <4>1. Handed' = Handed
        BY <3>1 DEF Handed
      <4>2. Due = {page} /\ page \in Due'
        BY <3>1, <3>2 DEF Due
      <4>3. more => q \in Due'
        BY <3>1, <3>2 DEF Due
      <4>4. QED
        BY <4>1, <4>2, <4>3
    <3>6. q \in Pages => q \in Handed' \cup Due'
      BY <3>5, PagesAssumption DEF NothingDropped
    <3>7. NothingDropped'
      BY <3>1, <3>5, <3>6 DEF NothingDropped, q
    <3>8. QED
      BY <3>4, <3>7
  <2>3. CASE ItemsDelivered \/ CallbackFails
    <3>1. /\ walking = "items" /\ walking' # "items" /\ items \in Pages
          /\ UNCHANGED <<links, page, done, seenNext, items>>
      BY <2>3 DEF ItemsDelivered, CallbackFails, WalkTypeOK
    <3>2. \A p \in Pages : DueTimes(p) = DueTimes(p)' + (IF p = items THEN 1 ELSE 0)
      BY <3>1 DEF DueTimes
    <3>3. /\ Handed' = Handed \cup {items}
          /\ \A p \in Pages : Times(p)' \in Times(p)..(Times(p) + (IF p = items THEN 1 ELSE 0))
      <4>1. CASE ItemsDelivered
        <5>1. delivered' = Append(delivered, items) /\ refused' = refused
          BY <4>1 DEF ItemsDelivered
        <5>2. QED
          BY <2>0, <5>1, CountedOnce DEF Handed
      <4>2. CASE CallbackFails
        <5>1. delivered' = delivered /\ refused' = refused \cup {items}
          BY <4>2 DEF CallbackFails
        <5>2. QED
          BY <2>0, <5>1, CountedOnce DEF Handed
      <4>3. QED
        BY <2>3, <4>1, <4>2
    <3>4. AskedOnce'
      <4> SUFFICES ASSUME NEW p \in Pages
                   PROVE  Times(p)' + DueTimes(p)' <=
                            (IF p = First THEN 1 ELSE 0) + (IF p \in seenNext THEN 1 ELSE 0)
        BY <3>1 DEF AskedOnce
      <4>1. Times(p) + DueTimes(p) <=
                (IF p = First THEN 1 ELSE 0) + (IF p \in seenNext THEN 1 ELSE 0)
        BY DEF AskedOnce
      <4>2. DueTimes(p)' \in Nat
        BY <3>1 DEF DueTimes
      <4>3. QED
        BY <2>0, <3>2, <3>3, <4>1, <4>2
    <3>5. Due \subseteq Due' \cup {items} /\ Due' \subseteq Due
      BY <3>1 DEF Due
    <3>6. NothingDropped'
      BY <3>1, <3>3, <3>5 DEF NothingDropped
    <3>7. QED
      BY <3>4, <3>6
  <2>4. QED
    BY <2>1, <2>2, <2>3 DEF WalkNext, ForEachStep
<1>3. WalkTypeOK /\ AskedOnce /\ NothingDropped => WalkIsSound
  <2> SUFFICES ASSUME WalkTypeOK, AskedOnce, NothingDropped PROVE NoPageTwice /\ NoPageDropped
    BY DEF WalkIsSound
  <2>1. NoPageTwice
    <3>1. \A p \in Pages : Times(p) \in Nat /\ DueTimes(p) \in Nat
      BY CountedOnce DEF DueTimes
    <3>2. QED
      BY <3>1 DEF AskedOnce, NoPageTwice
  <2>2. ASSUME done, walking # "items" PROVE Due = {}
    BY <2>2 DEF Due
  <2>3. Handed \subseteq Pages
    BY DEF Handed, WalkTypeOK
  <2>4. NoPageDropped
    BY <2>2, <2>3 DEF NothingDropped, NoPageDropped
  <2>5. QED
    BY <2>1, <2>4
<1>4. QED
  BY <1>1, <1>2, <1>3, WalkTypes, PTL DEF WalkSpec

-----------------------------------------------------------------------------
(* AgentServing: which server Shutdown finds                               *)

\* Before a run publishes its server nobody has seen it as the newest one, so the
\* newest run is one that went past that point.
Serving == {"published", "watched", "listening", "served"}

ReachInv ==
    /\ run \in [Runs -> {"idle", "built", "returned", "clearing"} \cup Serving]
    /\ httpServer \in Runs \cup {NoServer} /\ newest \in Runs \cup {NoServer}
    /\ NewestRunIsReachable

-----------------------------------------------------------------------------
\* A run that moves on without touching the field keeps the newest run reachable,
\* unless it is the newest and leaves or enters the part in which it serves.
LEMMA MovingOn ==
    ASSUME NEW r \in Runs, NEW from, NEW to, RunGoto(r, from, to), ReachInv,
           to \in {"idle", "built", "returned", "clearing"} \cup Serving,
           to \in Serving => from \in Serving,
           UNCHANGED <<httpServer, newest>>
    PROVE  ReachInv'
<1>1. run'[r] = to /\ run[r] = from /\ \A s \in Runs : s # r => run'[s] = run[s]
  BY DEF RunGoto, ReachInv
<1>2. run' \in [Runs -> {"idle", "built", "returned", "clearing"} \cup Serving]
  BY DEF RunGoto, ReachInv
<1>3. NewestRunIsReachable'
  BY <1>1 DEF ReachInv, NewestRunIsReachable, Serving
<1>4. QED
  BY <1>2, <1>3 DEF ReachInv

\* Shutdown finds the server that was published last for as long as that server
\* serves, however many runs overlap and in whatever order they end.
THEOREM NewestIsReachable == ServingSpec => []NewestRunIsReachable
<1>1. ServingInit => ReachInv
  BY DEF ServingInit, ReachInv, NewestRunIsReachable
<1>2. ReachInv /\ [ServingNext]_servingVars => ReachInv'
  <2> SUFFICES ASSUME ReachInv, [ServingNext]_servingVars PROVE ReachInv'
    OBVIOUS
  <2>1. ASSUME UNCHANGED runVars PROVE ReachInv'
    BY <2>1 DEF ReachInv, NewestRunIsReachable, runVars
  <2>2. ASSUME NEW r \in Runs, RunEnters(r) PROVE ReachInv'
    BY <2>2, MovingOn DEF RunEnters, Serving
  <2>3. ASSUME NEW r \in Runs, RunStep(r) PROVE ReachInv'
    <3>1. CASE RunPublishes(r)
      BY <3>1 DEF RunPublishes, RunGoto, ReachInv, NewestRunIsReachable, Serving
    <3>2. CASE RunStartsWatcher(r)
      BY <3>2, MovingOn DEF RunStartsWatcher, Serving
    <3>3. CASE ListensTooLate(r)
      BY <3>3, MovingOn DEF ListensTooLate, Serving
    <3>4. CASE ListenFails(r)
      BY <3>4, MovingOn DEF ListenFails, Serving
    <3>5. CASE Listens(r)
      BY <3>5, MovingOn DEF Listens, Serving
    <3>6. CASE ServeEnds(r)
      BY <3>6, MovingOn DEF ServeEnds, Serving
    <3>7. CASE RunClosesServeDone(r)
      BY <3>7, MovingOn DEF RunClosesServeDone, Serving
    <3>8. CASE RunReturns(r)
      BY <3>8 DEF RunReturns, RunGoto, ReachInv, NewestRunIsReachable, Serving
    <3>9. QED
      BY <2>3, <3>1, <3>2, <3>3, <3>4, <3>5, <3>6, <3>7, <3>8 DEF RunStep
  <2>4. ASSUME NEW r \in Runs, RunCancelled(r) \/ WatcherStep(r) PROVE ReachInv'
    BY <2>1, <2>4 DEF RunCancelled, WatcherStep, WatcherShutsDown, WatcherDrained, WatcherDismissed
  <2>5. ASSUME NEW s \in Stops, StopReads(s) \/ StopStep(s) \/ StopDeadline(s) PROVE ReachInv'
    BY <2>1, <2>5 DEF StopReads, StopStep, StopShutsDown, StopDrained, StopDeadline
  <2>6. ASSUME NEW q \in Requests, RequestAnswered(q) \/ \E r \in Runs : RequestArrives(q, r)
        PROVE  ReachInv'
    BY <2>1, <2>6 DEF RequestAnswered, RequestArrives
  <2>7. CASE UNCHANGED servingVars
    BY <2>1, <2>7 DEF servingVars, runVars
  <2>8. QED
    BY <2>2, <2>3, <2>4, <2>5, <2>6, <2>7 DEF ServingNext
<1>3. ReachInv => NewestRunIsReachable
  BY DEF ReachInv
<1>4. QED
  BY <1>1, <1>2, <1>3, PTL DEF ServingSpec

-----------------------------------------------------------------------------
(* AgentRun: the shutdown channel                                          *)

\* The state of the channel and the number of times it was closed agree.
ClosesCounted ==
    /\ shutdownCh \in {"nil", "open", "closed"}
    /\ closes = (IF shutdownCh = "closed" THEN 1 ELSE 0)

-----------------------------------------------------------------------------
\* The lock section that closes the channel keeps them in agreement.
LEMMA ClosingCounts ==
    ASSUME ClosesCounted, CloseChannel
    PROVE  ClosesCounted'
  BY DEF ClosesCounted, CloseChannel

\* Every other step but the first of a run leaves the channel alone.
LEMMA OthersLeaveTheChannel ==
    ASSUME NEW r \in Serves,
           \/ ServeStep(r) \/ WatcherLeaves(r) \/ ReaperStops(r) \/ ContextCancelled(r)
    PROVE  UNCHANGED channel
  BY DEF ServeStep, ServeStartsWatcher, ServeStartsReaper, ServeListens, ServeFails, ServeCloses,
         ServeReturns, WatcherLeaves, ReaperStops, ContextCancelled, channel

\* The shutdown channel of an agent is closed at most once, whatever the number of
\* overlapping runs, cancelled contexts and signal goroutines: close never panics.
THEOREM ChannelIsClosedOnce == AgentRunSpec => []ChannelClosedOnce
<1>1. AgentRunInit => ClosesCounted
  BY DEF AgentRunInit, ClosesCounted
<1>2. ClosesCounted /\ [AgentRunNext]_agentRunVars => ClosesCounted'
  <2> SUFFICES ASSUME ClosesCounted, [AgentRunNext]_agentRunVars PROVE ClosesCounted'
    OBVIOUS
  <2>1. ASSUME UNCHANGED channel PROVE ClosesCounted'
    BY <2>1 DEF ClosesCounted, channel
  <2>2. ASSUME NEW r \in Serves, ServeEnters(r) PROVE ClosesCounted'
    BY <2>2 DEF ServeEnters, ServeGoto, ClosesCounted
  <2>3. ASSUME NEW r \in Serves, ServeStep(r) \/ ContextCancelled(r) PROVE ClosesCounted'
    BY <2>1, <2>3, OthersLeaveTheChannel
  <2>4. ASSUME NEW r \in Serves, Background(r) PROVE ClosesCounted'
    <3>1. CASE WatcherCloses(r)
      BY <3>1, ClosingCounts DEF WatcherCloses
    <3>2. CASE WatcherLeaves(r) \/ ReaperStops(r)
      BY <2>1, <3>2, OthersLeaveTheChannel
    <3>3. QED
      BY <2>4, <3>1, <3>2 DEF Background
  <2>5. ASSUME NEW h \in Handlers, SetupGracefulShutdown(h) PROVE ClosesCounted'
    BY <2>1, <2>5 DEF SetupGracefulShutdown
  <2>6. ASSUME NEW h \in Handlers, HandlerCloses(h) PROVE ClosesCounted'
    BY <2>6, ClosingCounts DEF HandlerCloses
  <2>7. CASE SignalArrives
    BY <2>1, <2>7 DEF SignalArrives
  <2>8. CASE UNCHANGED agentRunVars
    BY <2>1, <2>8 DEF agentRunVars, channel
  <2>9. QED
    BY <2>2, <2>3, <2>4, <2>5, <2>6, <2>7, <2>8 DEF AgentRunNext
<1>3. ClosesCounted => ChannelClosedOnce
  BY DEF ClosesCounted, ChannelClosedOnce
<1>4. QED
  BY <1>1, <1>2, <1>3, PTL DEF AgentRunSpec

-----------------------------------------------------------------------------
(* AgentRequests: the copies of the dynamic-config callback                *)

Documents == [data : SUBSET Marks, section : SUBSET Marks, contexts : SUBSET Marks]

\* What the maps, the copies and the documents can hold.
DataTypes ==
    /\ globalData \subseteq Marks /\ section \subseteq Marks /\ contexts \subseteq Marks
    /\ copy \in [Calls -> SUBSET Marks] /\ extra \in [Calls -> SUBSET Marks]
    /\ answer \in [Calls -> Documents]

\* With a dynamic-config callback a request never renders the agent itself, so
\* that its document never keeps a map of the agent.
StaysOnThePath ==
    /\ call \in [Calls -> {"idle", "clone", "callback", "render", "modify", "marshal", "answered"}]
    /\ owner \in [Calls -> {"copy", "new"}]

\* The mark of a request is only where that request writes.
MarksStay ==
    /\ globalData \cap Calls = {}
    /\ \A c \in Calls : /\ copy[c] \cap Calls \subseteq {c} /\ extra[c] \cap Calls \subseteq {c}
                        /\ answer[c].data \cap Calls \subseteq {c}

PrivateInv == dynamic => DataTypes /\ StaysOnThePath /\ MarksStay

-----------------------------------------------------------------------------
\* A request that goes on and leaves all data alone.
LEMMA GoingOn ==
    ASSUME NEW c \in Calls, NEW from, NEW to, CallGoto(c, from, to),
           DataTypes, StaysOnThePath, MarksStay, UNCHANGED <<shared, local>>,
           to \in {"idle", "clone", "callback", "render", "modify", "marshal", "answered"}
    PROVE  DataTypes' /\ StaysOnThePath' /\ MarksStay'
  BY DEF CallGoto, DataTypes, StaysOnThePath, MarksStay, shared, local

\* A step of the callback: it changes the copy, or what the copy shares.
LEMMA CallbackIsPrivate ==
    ASSUME NEW c \in Calls, Callback(c), DataTypes, StaysOnThePath, MarksStay
    PROVE  DataTypes' /\ StaysOnThePath' /\ MarksStay'
<1> USE DEF CallGoto, DataTypes, StaysOnThePath, MarksStay, Marks
<1>1. CASE CallbackSets(c)
  BY <1>1 DEF CallbackSets, CopyWrites
<1>2. CASE CallbackExtendsSection(c)
  BY <1>2 DEF CallbackExtendsSection, local
<1>3. CASE CallbackResetsContexts(c)
  BY <1>3 DEF CallbackResetsContexts, local
<1>4. CASE CallbackAddsContext(c)
  BY <1>4 DEF CallbackAddsContext, local
<1>5. QED
  BY <1>1, <1>2, <1>3, <1>4 DEF Callback

\* A step of the dynamic path; the steps of the static path are out of reach.
LEMMA CallIsPrivate ==
    ASSUME NEW c \in Calls, CallStep(c), DataTypes, StaysOnThePath, MarksStay
    PROVE  DataTypes' /\ StaysOnThePath' /\ MarksStay'
<1>0. call[c] \notin {"lock", "contexts", "listed", "built"}
  BY DEF StaysOnThePath
<1>1. CASE CallClones(c)
  BY <1>1 DEF CallClones, CallGoto, DataTypes, StaysOnThePath, MarksStay, shared
<1>2. CASE Callback(c)
  BY <1>2, CallbackIsPrivate
<1>3. CASE RenderCopy(c)
  <2>1. answer' \in [Calls -> Documents] /\ \A d \in Calls : answer'[d].data = answer[d].data
    BY <1>3 DEF RenderCopy, DataTypes, Documents
  <2>2. QED
    BY <1>3, <2>1 DEF RenderCopy, CallGoto, DataTypes, StaysOnThePath, MarksStay, shared
<1>4. CASE CallModifies(c)
  <2>1. owner[c] \in {"copy", "new"} /\ c \in Marks
    BY DEF StaysOnThePath, Marks
  <2>2. /\ globalData' = globalData
        /\ \/ UNCHANGED copy
           \/ copy' = [copy EXCEPT ![c] = @ \cup {c}]
        /\ \/ UNCHANGED extra
           \/ extra' = [extra EXCEPT ![c] = {c}]
    BY <1>4, <2>1 DEF CallModifies, CopyWrites
  <2>3. DataTypes'
    BY <1>4, <2>1, <2>2 DEF CallModifies, DataTypes
  <2>4. StaysOnThePath' /\ MarksStay'
    BY <1>4, <2>2 DEF CallModifies, CallGoto, DataTypes, StaysOnThePath, MarksStay
  <2>5. QED
    BY <2>3, <2>4
<1>5. CASE CallAnswered(c)
  <2>1. DataOf(c) \subseteq Marks /\ DataOf(c) \cap Calls \subseteq {c}
    BY DEF DataOf, DataTypes, StaysOnThePath, MarksStay
  <2>2. /\ answer' \in [Calls -> Documents] /\ answer'[c].data = DataOf(c)
        /\ \A d \in Calls : d # c => answer'[d].data = answer[d].data
    BY <1>5, <2>1 DEF CallAnswered, DataTypes, Documents
  <2>3. QED
    BY <1>5, <2>1, <2>2 DEF CallAnswered, CallGoto, DataTypes, StaysOnThePath, MarksStay, shared
<1>6. QED
  BY <1>0, <1>1, <1>2, <1>3, <1>4, <1>5
     DEF CallStep, RenderLocks, RenderContexts, RenderListed, RenderUnlocks, CallGoto

\* With a dynamic-config callback the global data a request puts into its copy, or
\* its OnSwmlRequest hook into its document, is seen in no other answer and never
\* in the agent, whatever other requests and setters do meanwhile.
THEOREM CopiesArePrivate == RequestsSpec => []CopiedDataIsPrivate
<1>1. RequestsInit => PrivateInv
  BY CallsAssumption
     DEF RequestsInit, PrivateInv, DataTypes, StaysOnThePath, MarksStay, Marks, Documents, Empty
<1>2. PrivateInv /\ [RequestsNext]_requestVars => PrivateInv'
  <2> SUFFICES ASSUME PrivateInv, [RequestsNext]_requestVars, dynamic'
               PROVE  DataTypes' /\ StaysOnThePath' /\ MarksStay'
    BY DEF PrivateInv
  <2>1. UNCHANGED config
    BY DEF RequestsNext, CallStep, SetterStep, Callback, CallArrives, CallClones, CallbackSets,
           CallbackExtendsSection, CallbackResetsContexts, CallbackAddsContext, RenderCopy,
           RenderLocks, RenderContexts, RenderListed, RenderUnlocks, CallModifies, CallAnswered,
           SetterWaits, SetterLocks, SetterWrites, requestVars, config
  <2>2. dynamic /\ DataTypes /\ StaysOnThePath /\ MarksStay
    BY <2>1 DEF PrivateInv, config
  <2>3. ASSUME NEW c \in Calls, CallArrives(c) PROVE DataTypes' /\ StaysOnThePath' /\ MarksStay'
    BY <2>2, <2>3, GoingOn DEF CallArrives
  <2>4. ASSUME NEW c \in Calls, CallStep(c) PROVE DataTypes' /\ StaysOnThePath' /\ MarksStay'
    BY <2>2, <2>4, CallIsPrivate
  <2>5. ASSUME NEW s \in Setters, SetterWaits(s) \/ SetterLocks(s)
        PROVE  DataTypes' /\ StaysOnThePath' /\ MarksStay'
    BY <2>2, <2>5 DEF SetterWaits, SetterLocks, DataTypes, StaysOnThePath, MarksStay, shared, local
  <2>6. ASSUME NEW s \in Setters, SetterWrites(s)
        PROVE  DataTypes' /\ StaysOnThePath' /\ MarksStay'
    BY <2>2, <2>6, CallsAssumption
       DEF SetterWrites, DataTypes, StaysOnThePath, MarksStay, local, Marks
  <2>7. CASE UNCHANGED requestVars
    BY <2>2, <2>7 DEF requestVars, DataTypes, StaysOnThePath, MarksStay
  <2>8. QED
    BY <2>3, <2>4, <2>5, <2>6, <2>7 DEF RequestsNext, SetterStep
<1>3. PrivateInv => CopiedDataIsPrivate
  BY DEF PrivateInv, MarksStay, CopiedDataIsPrivate
<1>4. QED
  BY <1>1, <1>2, <1>3, PTL DEF RequestsSpec

-----------------------------------------------------------------------------
(* AgentServing: types                                                     *)

\* A Shutdown that found a server holds a server of some run.
FoundIsRun ==
    \A s \in Stops :
        stop[s].at \in {"captured", "draining", "drained", "deadline"} => stop[s].srv \in Runs

ServingFits == ServingTypeOK /\ FoundIsRun

StopsFit ==
    /\ stop \in [Stops -> [at : {"idle", "not running", "captured", "draining", "drained", "deadline"},
                           srv : Runs \cup {NoServer}]]
    /\ FoundIsRun

\* A Shutdown under way goes on with the server it found.
LEMMA GoingOnWithStop ==
    ASSUME ServingFits, NEW s \in Stops, stop[s].at \in {"captured", "draining"},
           NEW end \in {"draining", "drained", "deadline"},
           stop' = [stop EXCEPT ![s].at = end]
    PROVE  stop[s].srv \in Runs /\ StopsFit'
<1> DEFINE Held == [at : {"idle", "not running", "captured", "draining", "drained", "deadline"},
                    srv : Runs \cup {NoServer}]
           ended == [stop[s] EXCEPT !.at = end]
<1>1. stop \in [Stops -> Held] /\ stop[s].srv \in Runs /\ FoundIsRun
  BY DEF ServingFits, ServingTypeOK, FoundIsRun
<1>2. stop' = [stop EXCEPT ![s] = ended]
  OBVIOUS
<1>3. ended \in Held /\ ended.srv = stop[s].srv
  <2>1. stop[s] \in Held
    BY <1>1
  <2>2. end \in {"idle", "not running", "captured", "draining", "drained", "deadline"}
    OBVIOUS
  <2>3. QED
    BY <2>1, <2>2
<1> HIDE DEF Held, ended
<1>4. stop' \in [Stops -> Held]
  BY <1>1, <1>2, <1>3
<1>5. FoundIsRun'
  BY <1>1, <1>2, <1>3 DEF FoundIsRun
<1>6. QED
  BY <1>1, <1>4, <1>5 DEF StopsFit, Held

LEMMA ServingFitsAtFirst == ServingInit => ServingFits
BY DEF ServingInit, ServingFits, ServingTypeOK, FoundIsRun

LEMMA ServingFitsOn == ServingFits /\ [ServingNext]_servingVars => ServingFits'
<1> SUFFICES ASSUME ServingFits, [ServingNext]_servingVars PROVE ServingFits'
  OBVIOUS
<1> USE DEF ServingFits, ServingTypeOK, FoundIsRun, RunGoto, runVars, netVars
<1>1. ASSUME NEW r \in Runs, RunEnters(r) PROVE ServingFits'
  BY <1>1 DEF RunEnters
<1>2. ASSUME NEW r \in Runs, RunStep(r) PROVE ServingFits'
  <2>1. CASE RunPublishes(r)
    BY <2>1 DEF RunPublishes
  <2>2. CASE RunStartsWatcher(r)
    BY <2>2 DEF RunStartsWatcher
  <2>3. CASE ListensTooLate(r)
    BY <2>3 DEF ListensTooLate
  <2>4. CASE ListenFails(r)
    BY <2>4 DEF ListenFails
  <2>5. CASE Listens(r)
    BY <2>5 DEF Listens
  <2>6. CASE ServeEnds(r)
    BY <2>6 DEF ServeEnds
  <2>7. CASE RunClosesServeDone(r)
    BY <2>7 DEF RunClosesServeDone
  <2>8. CASE RunReturns(r)
    BY <2>8 DEF RunReturns
  <2>9. QED
    BY <1>2, <2>1, <2>2, <2>3, <2>4, <2>5, <2>6, <2>7, <2>8 DEF RunStep
<1>3. ASSUME NEW r \in Runs, RunCancelled(r) PROVE ServingFits'
  BY <1>3 DEF RunCancelled
<1>4. ASSUME NEW r \in Runs, WatcherStep(r) PROVE ServingFits'
  <2>1. CASE WatcherShutsDown(r)
    BY <2>1 DEF WatcherShutsDown
  <2>2. CASE WatcherDrained(r)
    BY <2>2 DEF WatcherDrained
  <2>3. CASE WatcherDismissed(r)
    BY <2>3 DEF WatcherDismissed
  <2>4. QED
    BY <1>4, <2>1, <2>2, <2>3 DEF WatcherStep
<1>5. ASSUME NEW s \in Stops, StopReads(s) PROVE ServingFits'
  BY <1>5 DEF StopReads
<1>6. ASSUME NEW s \in Stops, StopShutsDown(s) PROVE ServingFits'
  <2>1. stop[s].srv \in Runs /\ StopsFit'
    BY <1>6, GoingOnWithStop DEF StopShutsDown
  <2>2. QED
    BY <1>6, <2>1 DEF StopShutsDown, StopsFit
<1>7. ASSUME NEW s \in Stops, StopDrained(s) \/ StopDeadline(s) PROVE ServingFits'
  <2>1. StopsFit'
    BY <1>7, GoingOnWithStop DEF StopDrained, StopDeadline
  <2>2. UNCHANGED <<run, result, serveDone, httpServer, newest, runCtxDone, watcher, down, request>>
    BY <1>7 DEF StopDrained, StopDeadline
  <2> HIDE DEF FoundIsRun
  <2>3. QED
    BY <2>1, <2>2 DEF StopsFit
<1>8. ASSUME NEW q \in Requests, NEW r \in Runs, RequestArrives(q, r) PROVE ServingFits'
  BY <1>8 DEF RequestArrives
<1>9. ASSUME NEW q \in Requests, RequestAnswered(q) PROVE ServingFits'
  <2>1. request' \in [Requests -> [at : {"none", "active", "answered"}, srv : Runs \cup {NoServer}]]
    <3> DEFINE Asked == [at : {"none", "active", "answered"}, srv : Runs \cup {NoServer}]
    <3>1. request \in [Requests -> Asked] /\ request[q] \in Asked
      OBVIOUS
    <3>2. [request[q] EXCEPT !.at = "answered"] \in Asked
      BY <3>1
    <3>3. request' = [request EXCEPT ![q] = [request[q] EXCEPT !.at = "answered"]]
      BY <1>9 DEF RequestAnswered
    <3> HIDE DEF Asked
    <3>4. request' \in [Requests -> Asked]
      BY <3>1, <3>2, <3>3
    <3>5. QED
      BY <3>4 DEF Asked
  <2>2. UNCHANGED <<run, result, serveDone, httpServer, newest, runCtxDone, watcher, down, stop>>
    BY <1>9 DEF RequestAnswered
  <2>3. QED
    BY <2>1, <2>2
<1>10. CASE UNCHANGED servingVars
  BY <1>10 DEF servingVars
<1>11. QED
  BY <1>1, <1>2, <1>3, <1>4, <1>5, <1>6, <1>7, <1>8, <1>9, <1>10 DEF ServingNext, StopStep

-----------------------------------------------------------------------------
(* AgentServing: whoever is asked to end hears of it                       *)

\* A run has its watcher before it listens, and the watcher stops waiting only for a
\* shutdown of its server or the end of the run, which dismisses it.
WatchersInPlace == \A r \in Runs :
    /\ run[r] = "idle" => watcher[r] = "off"
    /\ run[r] \in {"watched", "listening", "served", "clearing"} => watcher[r] # "off"
    /\ run[r] = "clearing" => serveDone[r]
    /\ run[r] = "returned" => serveDone[r] \/ watcher[r] = "off"
    /\ serveDone[r] => run[r] \in {"clearing", "returned"}
    /\ watcher[r] \in {"draining", "ended"} => r \in down \/ serveDone[r]

\* Shutdown has shut down the server it found.
HasShutDown(s) == stop[s].at \in {"draining", "drained", "deadline"}
StopsReach == \A s \in Stops : HasShutDown(s) => stop[s].srv \in down

\* The safety half of ServingEnds: a run that is asked to end, by its context or by
\* Shutdown, does not go on listening without its server being shut down or about to
\* be, and it leaves no watcher that waits for nothing.
AskedServerIsHeard ==
    /\ \A r \in Runs :
          run[r] = "listening" /\ (runCtxDone[r] \/ \E s \in Stops : HasShutDown(s) /\ stop[s].srv = r)
              => r \in down \/ (watcher[r] = "waiting" /\ runCtxDone[r])
    /\ \A r \in Runs : run[r] = "returned" /\ watcher[r] = "waiting" => serveDone[r]

HeardInv == WatchersInPlace /\ StopsReach

\* A run goes on from one place to the next.
LEMMA RunsKeepWatchers ==
    ASSUME ServingFits, HeardInv, NEW r \in Runs, RunEnters(r) \/ RunStep(r)
    PROVE  HeardInv'
<1>1. UNCHANGED <<down, stop>>
  BY DEF RunEnters, RunStep, RunPublishes, RunStartsWatcher, ListensTooLate, ListenFails, Listens, ServeEnds,
         RunClosesServeDone, RunReturns, netVars
<1>2. StopsReach'
  BY <1>1 DEF HeardInv, StopsReach, HasShutDown
<1>3. WatchersInPlace'
  <2>0. /\ run \in [Runs -> {"idle", "built", "published", "watched", "listening", "served", "clearing",
                           "returned"}]
        /\ serveDone \in [Runs -> BOOLEAN]
        /\ watcher \in [Runs -> {"off", "waiting", "draining", "ended"}]
    BY DEF ServingFits, ServingTypeOK
  <2> USE <2>0 DEF HeardInv, WatchersInPlace, RunGoto
  <2>1. CASE RunEnters(r)
    BY <2>1, <1>1 DEF RunEnters
  <2>2. CASE RunPublishes(r)
    BY <2>2, <1>1 DEF RunPublishes
  <2>3. CASE RunStartsWatcher(r)
    BY <2>3, <1>1 DEF RunStartsWatcher
  <2>4. CASE ListensTooLate(r) \/ ListenFails(r) \/ Listens(r) \/ ServeEnds(r)
    <3>1. /\ run[r] \in {"watched", "listening"} /\ UNCHANGED <<watcher, serveDone>>
          /\ \E to \in {"listening", "served"} : run' = [run EXCEPT ![r] = to]
      BY <2>4 DEF ListensTooLate, ListenFails, Listens, ServeEnds
    <3>2. QED
      BY <1>1, <3>1
  <2>5. CASE RunClosesServeDone(r) \/ RunReturns(r)
    BY <2>5, <1>1 DEF RunClosesServeDone, RunReturns
  <2>6. QED
    BY <2>1, <2>2, <2>3, <2>4, <2>5 DEF RunStep
<1>4. QED
  BY <1>2, <1>3 DEF HeardInv

\* The context of a run is cancelled or its watcher goes on.
LEMMA WatchersGoOn ==
    ASSUME ServingFits, HeardInv, NEW r \in Runs, RunCancelled(r) \/ WatcherStep(r)
    PROVE  HeardInv'
<1>1. UNCHANGED <<run, serveDone, stop>> /\ down \subseteq down'
  BY DEF RunCancelled, WatcherStep, WatcherShutsDown, WatcherDrained, WatcherDismissed, runVars, netVars
<1>2. StopsReach'
  BY <1>1 DEF HeardInv, StopsReach, HasShutDown
<1>3. WatchersInPlace'
  <2>1. watcher \in [Runs -> {"off", "waiting", "draining", "ended"}]
    BY DEF ServingFits, ServingTypeOK
  <2>2. \/ UNCHANGED watcher
        \/ watcher[r] = "waiting" /\ watcher' = [watcher EXCEPT ![r] = "draining"] /\ r \in down'
        \/ /\ watcher[r] = "draining" \/ serveDone[r]
           /\ watcher[r] # "off" /\ watcher' = [watcher EXCEPT ![r] = "ended"]
    BY DEF RunCancelled, WatcherStep, WatcherShutsDown, WatcherDrained, WatcherDismissed
  <2>3. QED
    BY <1>1, <2>1, <2>2 DEF HeardInv, WatchersInPlace
<1>4. QED
  BY <1>2, <1>3 DEF HeardInv

\* Shutdown finds a server, shuts it down, and waits for its requests.
LEMMA StopsGoOn ==
    ASSUME ServingFits, HeardInv, NEW s \in Stops, StopReads(s) \/ StopStep(s) \/ StopDeadline(s)
    PROVE  HeardInv'
<1>1. UNCHANGED <<run, serveDone, watcher>> /\ down \subseteq down'
  BY DEF StopReads, StopStep, StopShutsDown, StopDrained, StopDeadline, runVars, netVars
<1>2. WatchersInPlace'
  BY <1>1 DEF HeardInv, WatchersInPlace
<1>3. StopsReach'
  <2>1. DOMAIN stop = Stops /\ stop[s] \in [at : {"idle", "not running", "captured", "draining", "drained",
                                                 "deadline"},
                                          srv : Runs \cup {NoServer}]
    BY DEF ServingFits, ServingTypeOK
  <2>2. /\ \A t \in Stops : t # s => stop'[t] = stop[t]
        /\ \/ stop'[s].at \in {"not running", "captured"}
           \/ stop'[s].srv = stop[s].srv /\ (stop[s].at = "draining" \/ stop[s].srv \in down')
    <3>1. CASE StopReads(s)
      BY <2>1, <3>1 DEF StopReads, ServingFits, ServingTypeOK
    <3>2. CASE StopShutsDown(s)
      BY <2>1, <3>2 DEF StopShutsDown, ServingFits, ServingTypeOK
    <3>3. CASE StopDrained(s)
      BY <2>1, <3>3 DEF StopDrained
    <3>4. CASE StopDeadline(s)
      BY <2>1, <3>4 DEF StopDeadline
    <3>5. QED
      BY <3>1, <3>2, <3>3, <3>4 DEF StopStep
  <2>3. QED
    BY <1>1, <2>2 DEF HeardInv, StopsReach, HasShutDown
<1>4. QED
  BY <1>2, <1>3 DEF HeardInv

\* No run and no watcher is left waiting by a cancellation or a Shutdown, at whatever
\* point of the run it comes, for any number of each.
THEOREM AskedServersHear == ServingSpec => []AskedServerIsHeard
<1>1. ServingInit => HeardInv
  BY DEF ServingInit, HeardInv, WatchersInPlace, StopsReach, HasShutDown
<1>2. ServingFits /\ HeardInv /\ [ServingNext]_servingVars => HeardInv'
  <2> SUFFICES ASSUME ServingFits, HeardInv, [ServingNext]_servingVars PROVE HeardInv'
    OBVIOUS
  <2>1. ASSUME UNCHANGED <<run, serveDone, watcher, down, stop>> PROVE HeardInv'
    BY <2>1 DEF HeardInv, WatchersInPlace, StopsReach, HasShutDown
  <2>2. ASSUME NEW q \in Requests, RequestAnswered(q) \/ \E r \in Runs : RequestArrives(q, r)
        PROVE  HeardInv'
    BY <2>1, <2>2 DEF RequestAnswered, RequestArrives, runVars
  <2>3. CASE UNCHANGED servingVars
    BY <2>1, <2>3 DEF servingVars
  <2>4. QED
    BY <2>2, <2>3, RunsKeepWatchers, WatchersGoOn, StopsGoOn DEF ServingNext
<1>3. ServingFits /\ HeardInv => AskedServerIsHeard
  <2>1. ServingFits => watcher \in [Runs -> {"off", "waiting", "draining", "ended"}]
    BY DEF ServingFits, ServingTypeOK
  <2>2. QED
    BY <2>1 DEF HeardInv, WatchersInPlace, StopsReach, AskedServerIsHeard
<1>4. QED
  BY <1>1, <1>2, <1>3, ServingFitsAtFirst, ServingFitsOn, PTL DEF ServingSpec

-----------------------------------------------------------------------------
(* AgentRun: types                                                         *)

LEMMA AgentRunTypesAtFirst == AgentRunInit => AgentRunTypeOK
BY DEF AgentRunInit, AgentRunTypeOK

LEMMA AgentRunTypesOn == AgentRunTypeOK /\ [AgentRunNext]_agentRunVars => AgentRunTypeOK'
<1> SUFFICES ASSUME AgentRunTypeOK, [AgentRunNext]_agentRunVars PROVE AgentRunTypeOK'
  OBVIOUS
<1> USE DEF AgentRunTypeOK, ServeGoto, channel
<1>1. ASSUME CloseChannel PROVE shutdownCh' \in {"nil", "open", "closed"} /\ closes' \in Nat
  BY <1>1 DEF CloseChannel
<1>2. ASSUME NEW r \in Serves, ServeEnters(r) PROVE AgentRunTypeOK'
  BY <1>2 DEF ServeEnters
<1>3. ASSUME NEW r \in Serves, ServeStartsWatcher(r) \/ ServeStartsReaper(r) PROVE AgentRunTypeOK'
  BY <1>3 DEF ServeStartsWatcher, ServeStartsReaper
<1>4. ASSUME NEW r \in Serves, ServeListens(r) \/ ServeFails(r) PROVE AgentRunTypeOK'
  BY <1>4 DEF ServeListens, ServeFails
<1>5. ASSUME NEW r \in Serves, ServeCloses(r) \/ ServeReturns(r) PROVE AgentRunTypeOK'
  BY <1>5 DEF ServeCloses, ServeReturns
<1>6. ASSUME NEW r \in Serves, WatcherCloses(r) PROVE AgentRunTypeOK'
  BY <1>1, <1>6 DEF WatcherCloses
<1>7. ASSUME NEW r \in Serves, WatcherLeaves(r) \/ ReaperStops(r) PROVE AgentRunTypeOK'
  BY <1>7 DEF WatcherLeaves, ReaperStops
<1>8. ASSUME NEW r \in Serves, ContextCancelled(r) PROVE AgentRunTypeOK'
  BY <1>8 DEF ContextCancelled
<1>9. ASSUME NEW h \in Handlers, SetupGracefulShutdown(h) PROVE AgentRunTypeOK'
  BY <1>9 DEF SetupGracefulShutdown
<1>10. ASSUME NEW h \in Handlers, HandlerCloses(h) PROVE AgentRunTypeOK'
  BY <1>1, <1>10 DEF HandlerCloses
<1>11. CASE SignalArrives
  BY <1>11 DEF SignalArrives
<1>12. CASE UNCHANGED agentRunVars
  BY <1>12 DEF agentRunVars
<1>13. QED
  BY <1>2, <1>3, <1>4, <1>5, <1>6, <1>7, <1>8, <1>9, <1>10, <1>11, <1>12
     DEF AgentRunNext, ServeStep, Background

-----------------------------------------------------------------------------
(* AgentRun: whoever is asked to end hears of it                           *)

\* A run that serves has made the channel and started its watcher and its reaper, and
\* the watcher has not left before the channel was closed.
RunsInPlace == \A r \in Serves :
    /\ serve[r] \in {"entered", "watched", "ready", "listening"} \/ observer[r] # "off" => shutdownCh # "nil"
    /\ serve[r] \in {"watched", "ready", "listening"} => observer[r] # "off"
    /\ serve[r] \in {"ready", "listening"} => reaper[r] # "off"
    /\ observer[r] = "ended" => shutdownCh = "closed" \/ serve[r] = "returned"

\* The safety half of AskedRunEnds: for a run that is asked to end the channel is closed,
\* or there is a goroutine that closes it next; and somebody waits for that, or has
\* already shut the server down.
AskedRunIsHeard == \A r \in Serves :
    AskedToEnd(r) /\ serve[r] \in {"ready", "listening"} =>
        /\ reaper[r] \in {"waiting", "stopped"} /\ shutdownCh # "nil"
        /\ \/ shutdownCh = "closed"
           \/ observer[r] = "waiting" /\ cancelled[r]
           \/ \E h \in Handlers : handler[h] = "woken"

\* Once the channel was made it is closed by whoever wants to close it.
LEMMA ClosingCloses ==
    ASSUME AgentRunTypeOK, CloseChannel
    PROVE  shutdownCh' = IF shutdownCh = "nil" THEN "nil" ELSE "closed"
  BY DEF AgentRunTypeOK, CloseChannel

\* No run of an agent is left serving by a cancellation or a signal that came once the
\* run had begun, whoever else is closing the channel or has closed it.
THEOREM AskedRunsHear == AgentRunSpec => []AskedRunIsHeard
<1>1. AgentRunInit => RunsInPlace
  BY DEF AgentRunInit, RunsInPlace
<1>2. AgentRunTypeOK /\ RunsInPlace /\ [AgentRunNext]_agentRunVars => RunsInPlace'
  <2> SUFFICES ASSUME AgentRunTypeOK, RunsInPlace, [AgentRunNext]_agentRunVars PROVE RunsInPlace'
    OBVIOUS
  <2> USE DEF AgentRunTypeOK, RunsInPlace, ServeGoto, channel
  <2>1. ASSUME NEW r \in Serves, ServeEnters(r) PROVE RunsInPlace'
    BY <2>1 DEF ServeEnters
  <2>2. ASSUME NEW r \in Serves, ServeStartsWatcher(r) \/ ServeStartsReaper(r) PROVE RunsInPlace'
    BY <2>2 DEF ServeStartsWatcher, ServeStartsReaper
  <2>3. ASSUME NEW r \in Serves,
               ServeListens(r) \/ ServeFails(r) \/ ServeCloses(r) \/ ServeReturns(r)
        PROVE  RunsInPlace'
    BY <2>3 DEF ServeListens, ServeFails, ServeCloses, ServeReturns
  <2>4. ASSUME NEW r \in Serves, WatcherCloses(r) PROVE RunsInPlace'
    BY <2>4, ClosingCloses DEF WatcherCloses
  <2>5. ASSUME NEW r \in Serves, WatcherLeaves(r) \/ ReaperStops(r) \/ ContextCancelled(r)
        PROVE  RunsInPlace'
    BY <2>5 DEF WatcherLeaves, ReaperStops, ContextCancelled
  <2>6. ASSUME NEW h \in Handlers, SetupGracefulShutdown(h) PROVE RunsInPlace'
    BY <2>6 DEF SetupGracefulShutdown
  <2>7. ASSUME NEW h \in Handlers, HandlerCloses(h) PROVE RunsInPlace'
    BY <2>7, ClosingCloses DEF HandlerCloses
  <2>8. CASE SignalArrives
    BY <2>8 DEF SignalArrives
  <2>9. CASE UNCHANGED agentRunVars
    BY <2>9 DEF agentRunVars
  <2>10. QED
    BY <2>1, <2>2, <2>3, <2>4, <2>5, <2>6, <2>7, <2>8, <2>9 DEF AgentRunNext, ServeStep, Background
<1>3. AgentRunTypeOK /\ RunsInPlace => AskedRunIsHeard
  BY DEF AgentRunTypeOK, RunsInPlace, AskedRunIsHeard, AskedToEnd
<1>4. QED
  BY <1>1, <1>2, <1>3, AgentRunTypesAtFirst, AgentRunTypesOn, PTL DEF AgentRunSpec

-----------------------------------------------------------------------------
(* AgentRequests: types and the lock                                       *)

\* How often a request holds the read lock is settled by where it is: once while it
\* renders the agent, and a second time while the contexts list the agent's tools.
LocksMatch ==
    \A c \in Calls : readers[c] = IF call[c] \in {"contexts", "built"} THEN 1
                                  ELSE IF call[c] = "listed" THEN 2 ELSE 0

\* Nobody reads while a setter holds the lock, and no other setter holds it.
WriterIsAlone ==
    \A s \in Setters : setter[s] = "holding" =>
        /\ \A c \in Calls : readers[c] = 0
        /\ \A other \in Setters : setter[other] = "holding" => other = s

RequestsFit == RequestsTypeOK /\ LocksMatch /\ WriterIsAlone

LEMMA RequestsFitAtFirst == RequestsInit => RequestsFit
BY DEF RequestsInit, RequestsFit, RequestsTypeOK, LocksMatch, WriterIsAlone, Marks, Empty

\* A request that leaves the lock alone, at a place where it does not hold it.
LEMMA LockIsLeftAlone ==
    ASSUME RequestsFit, NEW c \in Calls, NEW from, NEW to, CallGoto(c, from, to),
           {from, to} \subseteq {"idle", "clone", "callback", "render", "lock", "modify", "marshal", "answered"},
           UNCHANGED <<readers, setter>>
    PROVE  /\ LocksMatch' /\ WriterIsAlone'
           /\ call' \in [Calls -> {"idle", "clone", "callback", "render", "lock", "contexts", "listed",
                                   "built", "modify", "marshal", "answered"}]
<1>1. /\ call \in [Calls -> {"idle", "clone", "callback", "render", "lock", "contexts", "listed",
                             "built", "modify", "marshal", "answered"}]
      /\ LocksMatch /\ WriterIsAlone
  BY DEF RequestsFit, RequestsTypeOK
<1>2. call[c] = from /\ call' = [call EXCEPT ![c] = to]
  BY DEF CallGoto
<1>3. LocksMatch'
  BY <1>1, <1>2 DEF LocksMatch
<1>4. WriterIsAlone'
  BY <1>1 DEF WriterIsAlone
<1>5. QED
  BY <1>1, <1>2, <1>3, <1>4

\* A request renders the agent: it takes the lock, takes it again while nobody waits
\* to write, gives it back, and leaves.
LEMMA RenderingKeepsLocks ==
    ASSUME RequestsFit, NEW c \in Calls,
           RenderLocks(c) \/ RenderContexts(c) \/ RenderListed(c) \/ RenderUnlocks(c)
    PROVE  /\ LocksMatch' /\ WriterIsAlone' /\ readers' \in [Calls -> 0..2]
           /\ call' \in [Calls -> {"idle", "clone", "callback", "render", "lock", "contexts", "listed",
                                   "built", "modify", "marshal", "answered"}]
<1>1. /\ call \in [Calls -> {"idle", "clone", "callback", "render", "lock", "contexts", "listed",
                             "built", "modify", "marshal", "answered"}]
      /\ readers \in [Calls -> 0..2] /\ LocksMatch /\ WriterIsAlone
  BY DEF RequestsFit, RequestsTypeOK
<1> DEFINE Places == {"idle", "clone", "callback", "render", "lock", "contexts", "listed",
                      "built", "modify", "marshal", "answered"}
           Held(place) == IF place \in {"contexts", "built"} THEN 1 ELSE IF place = "listed" THEN 2 ELSE 0
<1>2. ASSUME NEW to \in Places, call' = [call EXCEPT ![c] = to],
             readers' = [readers EXCEPT ![c] = Held(to)]
      PROVE  LocksMatch' /\ readers' \in [Calls -> 0..2] /\ call' \in [Calls -> Places]
  <2>1. Held(to) \in 0..2 /\ \A d \in Calls : readers[d] = Held(call[d])
    BY <1>1 DEF LocksMatch
  <2> HIDE DEF Held
  <2>2. readers' \in [Calls -> 0..2] /\ \A d \in Calls : readers'[d] = Held(call'[d])
    BY <1>1, <1>2, <2>1
  <2>3. QED
    BY <1>1, <1>2, <2>2 DEF Held, LocksMatch
<1>3. LocksMatch' /\ readers' \in [Calls -> 0..2] /\ call' \in [Calls -> Places]
  <2>1. readers[c] = Held(call[c])
    BY <1>1 DEF LocksMatch
  <2>2. CASE RenderLocks(c)
    <3>1. PICK to \in {"built", "contexts"} : call' = [call EXCEPT ![c] = to]
      BY <2>2 DEF RenderLocks, CallGoto
    <3>2. readers[c] = 0 /\ readers' = [readers EXCEPT ![c] = 1]
      BY <1>1, <2>1, <2>2 DEF RenderLocks, CallGoto, RLock
    <3>3. Held(to) = 1 /\ to \in Places
      OBVIOUS
    <3> HIDE DEF Held, Places
    <3>4. QED
      BY <1>2, <3>1, <3>2, <3>3
  <2>3. CASE RenderContexts(c)
    <3>1. call' = [call EXCEPT ![c] = "listed"] /\ readers[c] = 1 /\ readers' = [readers EXCEPT ![c] = 2]
      BY <1>1, <2>1, <2>3 DEF RenderContexts, CallGoto, RLock
    <3>2. Held("listed") = 2 /\ "listed" \in Places
      OBVIOUS
    <3> HIDE DEF Held, Places
    <3>3. QED
      BY <1>2, <3>1, <3>2
  <2>4. CASE RenderListed(c)
    <3>1. call' = [call EXCEPT ![c] = "built"] /\ readers[c] = 2 /\ readers' = [readers EXCEPT ![c] = 1]
      BY <1>1, <2>1, <2>4 DEF RenderListed, CallGoto, RUnlock
    <3>2. Held("built") = 1 /\ "built" \in Places
      OBVIOUS
    <3> HIDE DEF Held, Places
    <3>3. QED
      BY <1>2, <3>1, <3>2
  <2>5. CASE RenderUnlocks(c)
    <3>1. call' = [call EXCEPT ![c] = "modify"] /\ readers[c] = 1 /\ readers' = [readers EXCEPT ![c] = 0]
      BY <1>1, <2>1, <2>5 DEF RenderUnlocks, CallGoto, RUnlock
    <3>2. Held("modify") = 0 /\ "modify" \in Places
      OBVIOUS
    <3> HIDE DEF Held, Places
    <3>3. QED
      BY <1>2, <3>1, <3>2
  <2>6. QED
    BY <2>2, <2>3, <2>4, <2>5
<1>4. WriterIsAlone'
  <2>1. UNCHANGED setter
    BY DEF RenderLocks, RenderContexts, RenderListed, RenderUnlocks
  <2>2. ASSUME NEW s \in Setters, setter[s] = "holding" PROVE FALSE
    <3>1. \A d \in Calls : readers[d] = 0
      BY <1>1, <2>2 DEF WriterIsAlone
    <3>2. RenderLocks(c)
      BY <1>1, <3>1 DEF RenderContexts, RenderListed, RenderUnlocks, CallGoto, LocksMatch
    <3>3. QED
      BY <2>2, <3>2 DEF RenderLocks, RLock, WriterPending
  <2>3. QED
    BY <2>1, <2>2 DEF WriterIsAlone
<1>5. QED
  BY <1>3, <1>4

LEMMA RequestsFitOn == RequestsFit /\ [RequestsNext]_requestVars => RequestsFit'
<1> SUFFICES ASSUME RequestsFit, [RequestsNext]_requestVars PROVE RequestsFit'
  OBVIOUS
<1> DEFINE Docs == [data : SUBSET Marks, section : SUBSET Marks, contexts : SUBSET Marks]
<1>1. /\ RequestsTypeOK /\ LocksMatch /\ WriterIsAlone /\ answer \in [Calls -> Docs]
      /\ Calls \subseteq Marks /\ Setters \subseteq Marks
  BY DEF RequestsFit, RequestsTypeOK, Marks
<1>2. ASSUME NEW c \in Calls, CallArrives(c) PROVE RequestsFit'
  BY <1>2, LockIsLeftAlone DEF CallArrives, RequestsFit, RequestsTypeOK, config, shared, local
<1>3. ASSUME NEW c \in Calls, CallClones(c) PROVE RequestsFit'
  BY <1>3, LockIsLeftAlone DEF CallClones, RequestsFit, RequestsTypeOK, config, shared
<1>4. ASSUME NEW c \in Calls, Callback(c) PROVE RequestsFit'
  <2>1. CASE CallbackSets(c)
    BY <1>1, <2>1, LockIsLeftAlone DEF CallbackSets, CopyWrites, RequestsFit, RequestsTypeOK, config
  <2>2. CASE CallbackExtendsSection(c)
    BY <1>1, <2>2, LockIsLeftAlone DEF CallbackExtendsSection, RequestsFit, RequestsTypeOK, config, local
  <2>3. CASE CallbackResetsContexts(c)
    BY <1>1, <2>3, LockIsLeftAlone DEF CallbackResetsContexts, RequestsFit, RequestsTypeOK, config, local
  <2>4. CASE CallbackAddsContext(c)
    BY <1>1, <2>4, LockIsLeftAlone DEF CallbackAddsContext, RequestsFit, RequestsTypeOK, config, local
  <2>5. QED
    BY <1>4, <2>1, <2>2, <2>3, <2>4 DEF Callback
<1>5. ASSUME NEW c \in Calls, RenderCopy(c) PROVE RequestsFit'
  <2>1. answer' \in [Calls -> Docs]
    BY <1>1, <1>5 DEF RenderCopy, RequestsTypeOK
  <2>2. owner' \in [Calls -> {"agent", "copy", "new"}]
    BY <1>1, <1>5 DEF RenderCopy, RequestsTypeOK
  <2>3. QED
    BY <1>5, <2>1, <2>2, LockIsLeftAlone DEF RenderCopy, RequestsFit, RequestsTypeOK, config, shared
<1>6. ASSUME NEW c \in Calls, RenderLocks(c) \/ RenderContexts(c) \/ RenderListed(c) \/ RenderUnlocks(c)
      PROVE  RequestsFit'
  <2>1. /\ LocksMatch' /\ WriterIsAlone' /\ readers' \in [Calls -> 0..2]
        /\ call' \in [Calls -> {"idle", "clone", "callback", "render", "lock", "contexts", "listed",
                                "built", "modify", "marshal", "answered"}]
    BY <1>6, RenderingKeepsLocks
  <2>2. answer' \in [Calls -> Docs] /\ owner' \in [Calls -> {"agent", "copy", "new"}]
    <3>1. CASE RenderContexts(c)
      <4>1. answer' = [answer EXCEPT ![c] = [answer[c] EXCEPT !.contexts = contexts]] /\ UNCHANGED owner
        BY <3>1 DEF RenderContexts
      <4>2. [answer[c] EXCEPT !.contexts = contexts] \in Docs
        <5>1. answer[c] \in Docs /\ contexts \in SUBSET Marks
          BY <1>1 DEF RequestsTypeOK
        <5>2. QED
          BY <5>1
      <4> HIDE DEF Docs
      <4>3. answer' \in [Calls -> Docs]
        BY <1>1, <4>1, <4>2
      <4>4. QED
        BY <1>1, <4>1, <4>3 DEF RequestsTypeOK
    <3>2. CASE RenderUnlocks(c)
      BY <1>1, <3>2 DEF RenderUnlocks, RequestsTypeOK
    <3>3. CASE RenderLocks(c) \/ RenderListed(c)
      BY <1>1, <3>3 DEF RenderLocks, RenderListed, RequestsTypeOK, local
    <3>4. QED
      BY <1>6, <3>1, <3>2, <3>3
  <2>3. UNCHANGED <<config, shared, copy, extra, setter>>
    BY <1>6 DEF RenderLocks, RenderContexts, RenderListed, RenderUnlocks, local
  <2>4. QED
    BY <2>1, <2>2, <2>3 DEF RequestsFit, RequestsTypeOK, config, shared
<1>7. ASSUME NEW c \in Calls, CallModifies(c) PROVE RequestsFit'
  <2>1. /\ globalData' \subseteq Marks /\ copy' \in [Calls -> SUBSET Marks]
        /\ extra' \in [Calls -> SUBSET Marks]
    <3>1. owner[c] \in {"agent", "copy", "new"}
      BY <1>1 DEF RequestsTypeOK
    <3>2. /\ globalData' = globalData \/ globalData' = globalData \cup {c}
          /\ copy' = copy \/ copy' = [copy EXCEPT ![c] = copy[c] \cup {c}]
          /\ extra' = extra \/ extra' = [extra EXCEPT ![c] = {c}]
      <4>1. CASE ~hooked
        BY <1>7, <4>1 DEF CallModifies
      <4>2. CASE hooked /\ owner[c] = "agent"
        BY <1>7, <4>2 DEF CallModifies
      <4>3. CASE hooked /\ owner[c] = "copy"
        BY <1>7, <4>3 DEF CallModifies, CopyWrites
      <4>4. CASE hooked /\ owner[c] = "new"
        BY <1>7, <4>4 DEF CallModifies
      <4>5. QED
        BY <3>1, <4>1, <4>2, <4>3, <4>4
    <3>3. copy[c] \cup {c} \subseteq Marks /\ globalData \cup {c} \subseteq Marks /\ {c} \subseteq Marks
      BY <1>1 DEF RequestsTypeOK
    <3>4. /\ copy \in [Calls -> SUBSET Marks] /\ extra \in [Calls -> SUBSET Marks]
          /\ globalData \in SUBSET Marks
      BY <1>1 DEF RequestsTypeOK
    <3>5. copy' \in [Calls -> SUBSET Marks]
      BY <3>2, <3>3, <3>4
    <3>6. extra' \in [Calls -> SUBSET Marks]
      BY <3>2, <3>3, <3>4
    <3>7. QED
      BY <3>2, <3>3, <3>4, <3>5, <3>6
  <2>2. QED
    BY <1>7, <2>1, LockIsLeftAlone DEF CallModifies, RequestsFit, RequestsTypeOK, config
<1>8. ASSUME NEW c \in Calls, CallAnswered(c) PROVE RequestsFit'
  <2>1. DataOf(c) \subseteq Marks /\ section \subseteq Marks
    BY <1>1 DEF DataOf, RequestsTypeOK
  <2>2. answer' \in [Calls -> Docs]
    BY <1>1, <1>8, <2>1 DEF CallAnswered
  <2>3. QED
    BY <1>8, <2>2, LockIsLeftAlone DEF CallAnswered, RequestsFit, RequestsTypeOK, config, shared
<1>9. ASSUME NEW s \in Setters, SetterWaits(s) \/ SetterLocks(s) \/ SetterWrites(s) PROVE RequestsFit'
  <2>1. setter' \in [Setters -> {"idle", "waiting", "holding", "done"}] /\ globalData' \subseteq Marks
    BY <1>1, <1>9 DEF SetterWaits, SetterLocks, SetterWrites, RequestsTypeOK, shared
  <2>2. LocksMatch' /\ UNCHANGED <<config, section, contexts, call, local, readers>>
    BY <1>1, <1>9 DEF SetterWaits, SetterLocks, SetterWrites, LocksMatch, shared
  <2>3. WriterIsAlone'
    BY <1>1, <1>9 DEF SetterWaits, SetterLocks, SetterWrites, WriterIsAlone, RequestsTypeOK
  <2>4. QED
    BY <1>1, <2>1, <2>2, <2>3 DEF RequestsFit, RequestsTypeOK, config, local
<1>10. CASE UNCHANGED requestVars
  BY <1>1, <1>10 DEF requestVars, RequestsFit, RequestsTypeOK, LocksMatch, WriterIsAlone
<1>11. QED
  BY <1>2, <1>3, <1>4, <1>5, <1>6, <1>7, <1>8, <1>9, <1>10 DEF RequestsNext, CallStep, SetterStep

\* The read lock is balanced on every path of a request, its second, nested, lock
\* included, and a setter writes while nobody reads: only waiting can go wrong.
THEOREM LocksAreBalanced == RequestsSpec => [](LocksMatch /\ WriterIsAlone)
<1>1. RequestsFit => LocksMatch /\ WriterIsAlone
  BY DEF RequestsFit
<1>2. QED
  BY <1>1, RequestsFitAtFirst, RequestsFitOn, PTL DEF RequestsSpec

\* A request that the agent's lock keeps waiting: it asks for the read lock, and a
\* setter holds the lock or waits for it.
CallWaits(c) ==
    /\ WriterPending
    /\ call[c] \in {"clone", "lock", "contexts"} \/ (call[c] = "render" /\ contexts # {})

\* A setter that waits for the readers to leave, or for the setter before it.
SetterIsKept(s) ==
    /\ setter[s] = "waiting"
    /\ (\E c \in Calls : readers[c] > 0) \/ (\E other \in Setters : setter[other] = "holding")

CallUnderWay(c) == call[c] \notin {"idle", "answered"}
SetterUnderWay(s) == setter[s] \in {"waiting", "holding"}

\* The safety half of RequestsAreAnswered: of the goroutines that have something to
\* do one does not wait for the lock, unless a render that holds it asks for it
\* again behind a waiting setter.
StuckOnlyIfReentered ==
    Reentered \/ \/ \E c \in Calls : CallUnderWay(c) /\ ~CallWaits(c)
                 \/ \E s \in Setters : SetterUnderWay(s) /\ ~SetterIsKept(s)
                 \/ /\ \A c \in Calls : ~CallUnderWay(c)
                    /\ \A s \in Setters : ~SetterUnderWay(s)

\* Whoever keeps a waiting setter from the lock can itself go on.
LEMMA WaitingEnds == RequestsFit => StuckOnlyIfReentered
<1> SUFFICES ASSUME RequestsFit PROVE StuckOnlyIfReentered
  OBVIOUS
<1>1. /\ \A c \in Calls : readers[c] \in 0..2
      /\ \A c \in Calls : readers[c] > 0 => call[c] \in {"contexts", "built", "listed"}
      /\ \A s \in Setters : setter[s] \in {"idle", "waiting", "holding", "done"}
  BY DEF RequestsFit, RequestsTypeOK, LocksMatch
<1>2. ASSUME NEW s \in Setters, setter[s] = "holding" PROVE StuckOnlyIfReentered
  BY <1>2 DEF StuckOnlyIfReentered, SetterUnderWay, SetterIsKept
<1>3. ASSUME ~WriterPending PROVE StuckOnlyIfReentered
  BY <1>3 DEF StuckOnlyIfReentered, CallUnderWay, CallWaits, WriterPending, SetterUnderWay
<1>4. ASSUME NEW s \in Setters, setter[s] = "waiting",
             \A other \in Setters : setter[other] # "holding"
      PROVE  StuckOnlyIfReentered
  <2>1. CASE \A c \in Calls : ~(readers[c] > 0)
    BY <1>4, <2>1 DEF StuckOnlyIfReentered, SetterUnderWay, SetterIsKept
  <2>2. ASSUME NEW c \in Calls, readers[c] > 0 PROVE StuckOnlyIfReentered
    <3>1. CASE call[c] = "contexts"
      BY <1>4, <3>1 DEF StuckOnlyIfReentered, Reentered
    <3>2. CASE call[c] \in {"built", "listed"}
      BY <3>2 DEF StuckOnlyIfReentered, CallUnderWay, CallWaits
    <3>3. QED
      BY <1>1, <2>2, <3>1, <3>2
  <2>3. QED
    BY <2>1, <2>2
<1>5. QED
  BY <1>2, <1>3, <1>4 DEF WriterPending

\* Requests and setters never all wait for each other, however many there are, but
\* for the render that asks again for the lock it holds.
THEOREM OnlyReentryBlocks == RequestsSpec => []StuckOnlyIfReentered
  BY WaitingEnds, RequestsFitAtFirst, RequestsFitOn, PTL DEF RequestsSpec

-----------------------------------------------------------------------------
(* The parts together                                                      *)

\* A step moves one part and leaves the variables of all others alone.
LEMMA PartsMoveAlone ==
    [SdkNext]_sdkVars =>
        /\ [Next]_vars /\ [WalkNext]_walkVars
        /\ [ServingNext]_servingVars /\ [AgentRunNext]_agentRunVars /\ [RequestsNext]_requestVars
        /\ [SkillsNext]_skillVars /\ [FlowNext]_flowVars /\ [SpiderNext]_spiderVars
        /\ [GatherNext]_gatherVars
<1> SUFFICES ASSUME [SdkNext]_sdkVars
             PROVE  /\ [Next]_vars /\ [WalkNext]_walkVars
                    /\ [ServingNext]_servingVars /\ [AgentRunNext]_agentRunVars
                    /\ [RequestsNext]_requestVars
                    /\ [SkillsNext]_skillVars /\ [FlowNext]_flowVars /\ [SpiderNext]_spiderVars
                    /\ [GatherNext]_gatherVars
  OBVIOUS
<1> USE DEF restVars, agentVars, toolVars
<1>1. CASE AsRetry(Next)
  BY <1>1 DEF AsRetry
<1>2. CASE AsWalk(WalkNext)
  BY <1>2 DEF AsWalk
<1>3. CASE AsServing(ServingNext)
  BY <1>3 DEF AsServing
<1>4. CASE AsRun(AgentRunNext)
  BY <1>4 DEF AsRun
<1>5. CASE AsRequests(RequestsNext)
  BY <1>5 DEF AsRequests
<1>6. CASE AsSkills(SkillsNext)
  BY <1>6 DEF AsSkills
<1>7. CASE AsFlow(FlowNext)
  BY <1>7 DEF AsFlow
<1>8. CASE AsSpider(SpiderNext)
  BY <1>8 DEF AsSpider
<1>9. CASE AsGather(GatherNext)
  BY <1>9 DEF AsGather
<1>10. CASE UNCHANGED sdkVars
  BY <1>10 DEF sdkVars
<1>11. QED
  BY <1>1, <1>2, <1>3, <1>4, <1>5, <1>6, <1>7, <1>8, <1>9, <1>10 DEF SdkNext

\* The parts side by side behave, each of them, as its own specification says, so
\* that every theorem about a part holds of the whole.
THEOREM PartsAreThemselves ==
    SdkSpec => /\ Spec /\ WalkSpec /\ ServingSpec /\ AgentRunSpec /\ RequestsSpec
               /\ SkillsSpec /\ FlowSpec /\ SpiderSpec /\ GatherSpec
<1>1. SdkInit => /\ Init /\ WalkInit /\ ServingInit /\ AgentRunInit /\ RequestsInit
                 /\ SkillsInit /\ FlowInit /\ SpiderInit /\ GatherInit
  BY DEF SdkInit
<1>2. QED
  BY <1>1, PartsMoveAlone, PTL
     DEF SdkSpec, Spec, WalkSpec, ServingSpec, AgentRunSpec, RequestsSpec, SkillsSpec, FlowSpec,
         SpiderSpec, GatherSpec

\* Every variable of every part holds what its field in the code can hold, in every
\* state and for all values of the constants.
THEOREM PartsHoldTheirTypes == SdkSpec => []SdkTypesOK
<1>1. Spec => []TypeOK
  BY TypeCorrect, PTL
<1>2. ServingSpec => []ServingTypeOK
  <2>1. ServingFits => ServingTypeOK
    BY DEF ServingFits
  <2>2. QED
    BY <2>1, ServingFitsAtFirst, ServingFitsOn, PTL DEF ServingSpec
<1>3. AgentRunSpec => []AgentRunTypeOK
  BY AgentRunTypesAtFirst, AgentRunTypesOn, PTL DEF AgentRunSpec
<1>4. RequestsSpec => []RequestsTypeOK
  <2>1. RequestsFit => RequestsTypeOK
    BY DEF RequestsFit
  <2>2. QED
    BY <2>1, RequestsFitAtFirst, RequestsFitOn, PTL DEF RequestsSpec
<1>5. SkillsSpec => []SkillsTypeOK
  BY SkillsAndToolsInStep, PTL
<1>6. FlowSpec => []FlowTypeOK
  BY FlowIsJudgedRightly, PTL
<1>7. GatherSpec => []GatherTypeOK
  BY GatherTypesAtFirst, GatherTypesOn, PTL DEF GatherSpec
<1>8. /\ TypeOK /\ WalkTypeOK /\ ServingTypeOK /\ AgentRunTypeOK /\ RequestsTypeOK
      /\ SkillsTypeOK /\ FlowTypeOK /\ SpiderTypeOK /\ GatherTypeOK
      => SdkTypesOK
  BY DEF SdkTypesOK
<1>9. QED
  BY <1>1, <1>2, <1>3, <1>4, <1>5, <1>6, <1>7, <1>8, WalkTypes, SpiderTypesHold,
     PartsAreThemselves, PTL

=============================================================================
