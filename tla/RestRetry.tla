----------------------------- MODULE RestRetry ------------------------------
(***************************************************************************)
(* One REST request of pkg/rest: doRequestContextOpts and its retry loop   *)
(* over doAttempt, against a server that may have acted on an attempt the  *)
(* client saw fail, and against cancellation at any point by the caller's  *)
(* context or by the AbortSignal, which AfterFunc forwards from a          *)
(* goroutine of its own to the context the loop looks at.                  *)
(***************************************************************************)
EXTENDS Integers

CONSTANTS Methods,       \* the HTTP methods tried
          Retries,       \* RequestOptions.Retries
          RetryOnStatus, \* the resolved retry_on_status set
          Statuses,      \* error statuses the server uses
          Signals        \* the AbortSignal when the request starts

ASSUME RetriesAssumption == Retries \in Int
ASSUME StatusAssumption == RetryOnStatus \subseteq Nat /\ Statuses \subseteq Nat \ (0..299)
ASSUME SignalsAssumption == Signals \subseteq {"absent", "armed", "fired"}

VARIABLES
    method,     \* of the request
    pc,         \* where doRequestContextOpts is
    attempt,    \* its counter
    ctxDone,    \* the caller's context is done
    signal,     \* the AbortSignal
    derivedDone,\* AfterFunc's goroutine has cancelled the derived context
    sent,       \* history: attempts that reached the wire
    processed,  \* history: attempts the server carried out
    unseen,     \* history: those among them whose answer was lost
    reply,      \* what the current attempt ended with
    returned    \* what the caller got

vars == <<method, pc, attempt, ctxDone, signal, derivedDone,
          sent, processed, unseen, reply, returned>>
contextVars == <<ctxDone, signal, derivedDone>>
serverVars == <<processed, unseen>>

\* How an attempt can end; "broken": a body that could not be read or decoded,
\* an error outside the REST error family.
Kinds == {"none", "ok", "status", "transport", "broken"}
Ended(kind) == [kind |-> kind, status |-> 0]
Status(status) == [kind |-> "status", status |-> status]

idempotentMethods == {"GET", "PUT", "DELETE", "HEAD", "OPTIONS"}

\* The throttle statuses mean that the request was not processed.
Throttles == {429, 503}

\* A plausible slip: the method is forgotten.
StatusIsRetryable_AnyMethod(m, status) == status \in RetryOnStatus

StatusIsRetryable(m, status) ==
    /\ status \in RetryOnStatus
    /\ m \in idempotentMethods \/ status \in Throttles

\* The context of every attempt: the caller's, cancelled by the signal as well.
\* A plausible slip, and the code's own older behaviour: the signal replaces it.
ParentDone_SignalOnly == IF signal = "absent" THEN ctxDone ELSE derivedDone

ParentDone == ctxDone \/ derivedDone

Init ==
    /\ method \in Methods
    /\ pc = "check" /\ attempt = 0
    /\ ctxDone \in BOOLEAN /\ signal \in Signals /\ derivedDone = FALSE
    /\ sent = 0 /\ processed = 0 /\ unseen = 0
    /\ reply = Ended("none") /\ returned = Ended("none")

CallerCancels ==
    /\ ~ctxDone /\ ctxDone' = TRUE
    /\ UNCHANGED <<method, pc, attempt, signal, derivedDone, sent, serverVars, reply, returned>>

SignalFires ==
    /\ signal = "armed" /\ signal' = "fired"
    /\ UNCHANGED <<method, pc, attempt, ctxDone, derivedDone, sent, serverVars, reply, returned>>

\* AfterFunc runs cancel in its own goroutine, unless the request returned first.
SignalPropagates ==
    /\ signal = "fired" /\ ~derivedDone /\ pc # "done"
    /\ derivedDone' = TRUE
    /\ UNCHANGED <<method, pc, attempt, ctxDone, signal, sent, serverVars, reply, returned>>

Return(r) == pc' = "done" /\ returned' = r

\* attempt++, then the cancellation check before the attempt
CheckCancelled ==
    /\ pc = "check"
    /\ attempt' = attempt + 1
    /\ IF ParentDone THEN Return(Ended("transport")) ELSE pc' = "send" /\ UNCHANGED returned
    /\ UNCHANGED <<method, contextVars, sent, serverVars, reply>>

\* doAttempt: Do fails on its way to the server, at once if the context is done.
FailsBeforeServer ==
    /\ pc = "send"
    /\ pc' = "decide" /\ reply' = Ended("transport")
    /\ sent' \in (IF ParentDone THEN {sent} ELSE {sent, sent + 1})
    /\ UNCHANGED <<method, attempt, contextVars, serverVars, returned>>

\* net/http sends nothing for a context that is done.
Sends ==
    /\ pc = "send" /\ ~ParentDone
    /\ pc' = "await" /\ sent' = sent + 1
    /\ UNCHANGED <<method, attempt, contextVars, serverVars, reply, returned>>

\* The server throttles the request, or carries it out and answers anything.
ServerAnswers(r) ==
    /\ pc = "await"
    /\ processed' = IF r.status \in Throttles THEN processed ELSE processed + 1
    /\ pc' = "decide" /\ reply' = r
    /\ UNCHANGED <<method, attempt, contextVars, sent, unseen, returned>>

\* The answer is lost: reset, per-attempt timeout or cancellation.
ReplyLost ==
    /\ pc = "await"
    /\ \E n \in {0, 1} : processed' = processed + n /\ unseen' = unseen + n
    /\ pc' = "decide" /\ reply' = Ended("transport")
    /\ UNCHANGED <<method, attempt, contextVars, sent, returned>>

\* A transport failure whatever the method, an error status by its kind.
Retryable == \/ reply.kind = "transport"
             \/ reply.kind = "status" /\ StatusIsRetryable(method, reply.status)

\* A plausible slip: one retry too many.
Decide_OneTooMany ==
    /\ pc = "decide"
    /\ IF Retryable /\ attempt <= Retries + 1
       THEN pc' = "sleep" /\ UNCHANGED returned
       ELSE Return(reply)
    /\ UNCHANGED <<method, attempt, contextVars, sent, serverVars, reply>>

Decide ==
    /\ pc = "decide"
    /\ IF Retryable /\ attempt <= Retries
       THEN pc' = "sleep" /\ UNCHANGED returned
       ELSE Return(reply)
    /\ UNCHANGED <<method, attempt, contextVars, sent, serverVars, reply>>

\* sleepOrCancel: the timer and the context may both be ready.
Sleeps ==
    /\ pc = "sleep"
    /\ \/ pc' = "check" /\ UNCHANGED returned
       \/ ParentDone /\ Return(Ended("transport"))
    /\ UNCHANGED <<method, attempt, contextVars, sent, serverVars, reply>>

Answers == {Ended("ok"), Ended("broken")} \cup {Status(s) : s \in Statuses}

Step == \/ CheckCancelled \/ FailsBeforeServer \/ Sends \/ ReplyLost \/ Decide \/ Sleeps
        \/ \E r \in Answers : ServerAnswers(r)

Next == Step \/ CallerCancels \/ SignalFires \/ SignalPropagates

Spec == Init /\ [][Next]_vars

\* What the loop does by itself: its own code, writes and timers.
LoopStep == CheckCancelled \/ FailsBeforeServer \/ Sends \/ Decide \/ Sleeps

\* net/http aborts the attempt that waits for its answer once its context is done.
AttemptAborted == ParentDone /\ ReplyLost

\* The goroutines of the loop and of AfterFunc run, and an attempt whose context is
\* done is aborted. Nothing is assumed of the server, nor of a per-attempt timeout,
\* which may be switched off.
RetryFairness == WF_vars(LoopStep) /\ WF_vars(AttemptAborted) /\ WF_vars(SignalPropagates)

-----------------------------------------------------------------------------
Attempts == IF Retries < 0 THEN 1 ELSE Retries + 1
Results == Answers \cup {Ended("none"), Ended("transport")}

TypeOK ==
    /\ method \in Methods
    /\ pc \in {"check", "send", "await", "decide", "sleep", "done"}
    /\ attempt \in 0..Attempts
    /\ ctxDone \in BOOLEAN /\ derivedDone \in BOOLEAN
    /\ signal \in {"absent", "armed", "fired"}
    /\ sent \in 0..Attempts /\ processed \in 0..sent /\ unseen \in 0..processed
    /\ reply \in Results /\ returned \in Results

\* A request that creates or changes something is not carried out a second time
\* because of an answer that came: a status the server may send after it acted is
\* never retried for POST and PATCH.
NotRepeatedOnStatus == method \notin idempotentMethods => processed <= 1 + unseen

\* The caller sees a failure that may be retried only when the attempts are used
\* up or the request was cancelled.
RetriesUsed ==
    (/\ pc = "done"
     /\ \/ returned.kind = "transport"
        \/ returned.kind = "status" /\ StatusIsRetryable(method, returned.status))
        => attempt = Attempts \/ ctxDone \/ derivedDone

\* The caller's context and the AbortSignal compose: either of them, whenever it
\* comes, in the middle of a backoff, between the check and the attempt or while a
\* server never answers, ends the request.
CancelledRequestEnds == ctxDone \/ signal = "fired" ~> pc = "done"
=============================================================================
