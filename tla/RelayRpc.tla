------------------------------ MODULE RelayRpc ------------------------------
(***************************************************************************)
(* JSON-RPC correlation in pkg/relay/client.go: execute() registers a      *)
(* one-slot channel in the pending map, writes the request and waits; the  *)
(* read loop looks the id of a response up, sends into the channel and     *)
(* then deletes the entry; a timer, a write error and Stop() race with it. *)
(* Each lock section of c.mu and each channel operation is one step.       *)
(***************************************************************************)
EXTENDS Naturals, Sequences

CONSTANTS Requests,      \* one element per execute() call: its goroutine and its uuid
          HookRequests,  \* the calls the OnEvent hook makes, on the read-loop goroutine
          Bodies,        \* the response bodies the server uses, out of AllBodies
          MaxInbox       \* bound on the frames queued on the socket

\* A result without a code, with a string code, or a JSON-RPC error frame.
AllBodies == {"noCode", "str2xx", "str404", "str500", "rpcErr"}

ASSUME RequestsAssumption == HookRequests \subseteq Requests
ASSUME BodiesAssumption == Bodies \subseteq AllBodies
ASSUME MaxInboxAssumption == MaxInbox \in Nat \ {0}

VARIABLES
    pc,        \* where each execute() call is
    outcome,   \* what it returned
    pending,   \* Client.pending: ids with a registered channel
    chan,      \* content of each request's one-slot channel
    asked,     \* requests the server has received on this connection
    answers,   \* history: the bodies the server has sent for each request
    inbox,     \* frames in flight to the client, in socket order
    reader,    \* where the read-loop goroutine is
    held,      \* the response being delivered, or the request of a running hook
    link,      \* the WebSocket: "up" or "down"
    stopped    \* Client.ctx is done

vars == <<pc, outcome, pending, chan, asked, answers, inbox, reader, held, link, stopped>>

NoBody == "empty"
NoRequest == "none"

PCs == {"idle", "write", "wait", "unsent", "expired", "done"}
Outcomes == {"none", "ok", "gone", "error", "writeErr", "timeout", "cancelled"}

\* execute's reading of a response: an integer code or a non-2xx string code is
\* a RelayError; 404 and 410 keep their identity for execVerb.
Decode(b) == IF b \in {"noCode", "str2xx"} THEN "ok"
             ELSE IF b = "str404" THEN "gone" ELSE "error"

Response(r, b) == [kind |-> "response", id |-> r, body |-> b]
Event == [kind |-> "event"]
Frames == [kind : {"response"}, id : Requests, body : Bodies] \cup {Event}

Init ==
    /\ pc = [r \in Requests |-> "idle"]
    /\ outcome = [r \in Requests |-> "none"]
    /\ pending = {}
    /\ chan = [r \in Requests |-> NoBody]
    /\ asked = {}
    /\ answers = [r \in Requests |-> {}]
    /\ inbox = <<>>
    /\ reader = "read"
    /\ held = [id |-> NoRequest, body |-> NoBody]
    /\ link = "up"
    /\ stopped = FALSE

-----------------------------------------------------------------------------
(* execute(), one goroutine per request                                    *)

\* c.pending[id] = ch, under the lock.
Register(r) ==
    /\ pc[r] = "idle"
    /\ pending' = pending \cup {r}
    /\ pc' = [pc EXCEPT ![r] = "write"]

Execute(r) ==
    /\ r \notin HookRequests
    /\ Register(r)
    /\ UNCHANGED <<outcome, chan, asked, answers, inbox, reader, held, link, stopped>>

\* writeJSON succeeds. On a connection that is already dead the frame may still
\* land in the kernel's buffer and be lost; a closed connection refuses it.
WriteOk(r) ==
    /\ pc[r] = "write"
    /\ \/ link = "up" /\ asked' = asked \cup {r}
       \/ link = "down" /\ ~stopped /\ asked' = asked
    /\ pc' = [pc EXCEPT ![r] = "wait"]
    /\ UNCHANGED <<outcome, pending, chan, answers, inbox, reader, held, link, stopped>>

\* writeJSON fails (no connection, closed, or the 5s write deadline).
WriteFail(r) ==
    /\ pc[r] = "write"
    /\ pc' = [pc EXCEPT ![r] = "unsent"]
    /\ UNCHANGED <<outcome, pending, chan, asked, answers, inbox, reader, held, link, stopped>>

\* return o to the caller.
Return(r, o) ==
    /\ pc' = [pc EXCEPT ![r] = "done"]
    /\ outcome' = [outcome EXCEPT ![r] = o]

\* case resp := <-ch
Receive(r) ==
    /\ pc[r] = "wait"
    /\ chan[r] # NoBody
    /\ Return(r, Decode(chan[r]))
    /\ chan' = [chan EXCEPT ![r] = NoBody]
    /\ UNCHANGED <<pending, asked, answers, inbox, reader, held, link, stopped>>

\* Variation: a nil error on ctx.Done.
Cancelled_WithoutError(r) ==
    /\ pc[r] = "wait" /\ stopped
    /\ Return(r, "ok")
    /\ UNCHANGED <<pending, chan, asked, answers, inbox, reader, held, link, stopped>>

\* case <-c.ctx.Done(): the pending entry is left behind.
Cancelled(r) ==
    /\ pc[r] = "wait"
    /\ stopped
    /\ Return(r, "cancelled")
    /\ UNCHANGED <<pending, chan, asked, answers, inbox, reader, held, link, stopped>>

\* Variation: the timer is never started.
TimerFires_NotStarted(r) == FALSE

\* case <-timer.C
TimerFires(r) ==
    /\ pc[r] = "wait"
    /\ pc' = [pc EXCEPT ![r] = "expired"]
    /\ UNCHANGED <<outcome, pending, chan, asked, answers, inbox, reader, held, link, stopped>>

\* Variation: the entry is not deleted.
Unregister_KeepsEntry(r) ==
    /\ pc[r] \in {"unsent", "expired"}
    /\ Return(r, IF pc[r] = "unsent" THEN "writeErr" ELSE "timeout")
    /\ UNCHANGED <<pending, chan, asked, answers, inbox, reader, held, link, stopped>>

\* delete(c.pending, id) after a failed write or a timeout, then return.
Unregister(r) ==
    /\ pc[r] \in {"unsent", "expired"}
    /\ pending' = pending \ {r}
    /\ Return(r, IF pc[r] = "unsent" THEN "writeErr" ELSE "timeout")
    /\ UNCHANGED <<chan, asked, answers, inbox, reader, held, link, stopped>>

-----------------------------------------------------------------------------
(* readLoop()                                                              *)

\* Variation: the response goes to some pending call, whatever its id.
ReadResponse_IgnoresId ==
    /\ reader = "read" /\ ~stopped /\ inbox # <<>>
    /\ Head(inbox).kind = "response"
    /\ inbox' = Tail(inbox)
    /\ \E id \in pending : /\ reader' = "send"
                           /\ held' = [id |-> id, body |-> Head(inbox).body]
    /\ UNCHANGED <<pc, outcome, pending, chan, asked, answers, link, stopped>>

\* ReadMessage returns a response; its channel is looked up under the read lock.
ReadResponse ==
    /\ reader = "read" /\ ~stopped /\ inbox # <<>>
    /\ Head(inbox).kind = "response"
    /\ inbox' = Tail(inbox)
    /\ IF Head(inbox).id \in pending
       THEN /\ reader' = "send"
            /\ held' = [id |-> Head(inbox).id, body |-> Head(inbox).body]
       ELSE UNCHANGED <<reader, held>>
    /\ UNCHANGED <<pc, outcome, pending, chan, asked, answers, link, stopped>>

\* ch <- msg.Result (or the marshalled error), blocking while the slot is full.
SendToChannel ==
    /\ reader = "send"
    /\ chan[held.id] = NoBody
    /\ chan' = [chan EXCEPT ![held.id] = held.body]
    /\ reader' = "delete"
    /\ UNCHANGED <<pc, outcome, pending, asked, answers, inbox, held, link, stopped>>

\* Variation: the entry is not deleted.
DeletePending_KeepsEntry ==
    /\ reader = "delete"
    /\ reader' = "read"
    /\ UNCHANGED <<pc, outcome, pending, chan, asked, answers, inbox, held, link, stopped>>

\* delete(c.pending, msg.ID)
DeletePending ==
    /\ reader = "delete"
    /\ pending' = pending \ {held.id}
    /\ reader' = "read"
    /\ UNCHANGED <<pc, outcome, chan, asked, answers, inbox, held, link, stopped>>

\* A server event is acknowledged and handled on this goroutine; no hook, or a
\* hook that makes no RPC.
HandleEvent ==
    /\ reader = "read" /\ ~stopped /\ inbox # <<>>
    /\ Head(inbox) = Event
    /\ inbox' = Tail(inbox)
    /\ UNCHANGED <<pc, outcome, pending, chan, asked, answers, reader, held, link, stopped>>

\* The OnEvent hook calls Execute: the read loop is inside the hook until it returns.
HandleEventWithHook(h) ==
    /\ reader = "read" /\ ~stopped /\ inbox # <<>>
    /\ Head(inbox) = Event
    /\ inbox' = Tail(inbox)
    /\ Register(h)
    /\ reader' = "hook"
    /\ held' = [id |-> h, body |-> NoBody]
    /\ UNCHANGED <<outcome, chan, asked, answers, link, stopped>>

HookReturns ==
    /\ reader = "hook"
    /\ pc[held.id] = "done"
    /\ reader' = "read"
    /\ UNCHANGED <<pc, outcome, pending, chan, asked, answers, inbox, held, link, stopped>>

\* ctx.Done, or a read error: the goroutine leaves the loop (reconnect() takes over).
ReaderExits ==
    /\ reader = "read"
    /\ link = "down" \/ stopped
    /\ reader' = "off"
    /\ UNCHANGED <<pc, outcome, pending, chan, asked, answers, inbox, held, link, stopped>>

-----------------------------------------------------------------------------
(* The connection and its peer                                             *)

LinkDrops ==
    /\ link = "up"
    /\ link' = "down"
    /\ inbox' = <<>>
    /\ UNCHANGED <<pc, outcome, pending, chan, asked, answers, reader, held, stopped>>

\* reconnect(): connect and authenticate; calls may already write.
Reconnect ==
    /\ reader = "off" /\ link = "down" /\ ~stopped
    /\ link' = "up"
    /\ asked' = {}
    /\ UNCHANGED <<pc, outcome, pending, chan, answers, inbox, reader, held, stopped>>

\* go c.readLoop() at the end of reconnect()
StartReadLoop ==
    /\ reader = "off" /\ link = "up" /\ ~stopped
    /\ reader' = "read"
    /\ UNCHANGED <<pc, outcome, pending, chan, asked, answers, inbox, held, link, stopped>>

Stop ==
    /\ ~stopped
    /\ stopped' = TRUE
    /\ link' = "down"
    /\ inbox' = <<>>
    /\ UNCHANGED <<pc, outcome, pending, chan, asked, answers, reader, held>>

\* The server answers a request it received; nothing stops it doing so again.
ServerAnswers(r, b) ==
    /\ link = "up" /\ r \in asked /\ Len(inbox) < MaxInbox
    /\ answers' = [answers EXCEPT ![r] = @ \cup {b}]
    /\ inbox' = Append(inbox, Response(r, b))
    /\ UNCHANGED <<pc, outcome, pending, chan, asked, reader, held, link, stopped>>

ServerPushesEvent ==
    /\ link = "up" /\ Len(inbox) < MaxInbox
    /\ inbox' = Append(inbox, Event)
    /\ UNCHANGED <<pc, outcome, pending, chan, asked, answers, reader, held, link, stopped>>

-----------------------------------------------------------------------------
CallStep(r) == Receive(r) \/ Cancelled(r) \/ TimerFires(r) \/ Unregister(r)

ReaderStep ==
    \/ ReadResponse \/ SendToChannel \/ DeletePending
    \/ HandleEvent \/ HookReturns \/ ReaderExits
    \/ \E h \in HookRequests : HandleEventWithHook(h)

Environment ==
    \/ LinkDrops \/ Reconnect \/ StartReadLoop \/ Stop \/ ServerPushesEvent
    \/ \E r \in Requests, b \in Bodies : ServerAnswers(r, b)

Next == \/ \E r \in Requests : Execute(r) \/ WriteOk(r) \/ WriteFail(r) \/ CallStep(r)
        \/ ReaderStep
        \/ Environment

Spec == Init /\ [][Next]_vars

\* Go schedules runnable goroutines and fires timers; writes return within
\* writeDeadline. Nothing is assumed of the server, the network or the caller.
Fairness ==
    /\ \A r \in Requests : WF_vars(WriteOk(r) \/ WriteFail(r)) /\ WF_vars(CallStep(r))
    /\ WF_vars(ReaderStep)

FairSpec == Spec /\ Fairness

-----------------------------------------------------------------------------
TypeOK ==
    /\ pc \in [Requests -> PCs]
    /\ outcome \in [Requests -> Outcomes]
    /\ pending \subseteq Requests
    /\ chan \in [Requests -> Bodies \cup {NoBody}]
    /\ asked \subseteq Requests
    /\ answers \in [Requests -> SUBSET Bodies]
    /\ inbox \in Seq(Frames)
    /\ reader \in {"read", "send", "delete", "hook", "off"}
    /\ held \in [id : Requests \cup {NoRequest}, body : Bodies \cup {NoBody}]
    /\ reader \in {"send", "delete"} => held.id \in Requests /\ held.body \in Bodies
    /\ reader = "hook" => held.id \in Requests
    /\ link \in {"up", "down"}
    /\ stopped \in BOOLEAN

\* The read loop never blocks on a response channel: whenever it is about to
\* send, the one slot is free, whatever duplicates, timeouts and write errors
\* happened since the lookup. One blocked send would wedge the whole client.
ReaderNeverBlocks == reader = "send" => chan[held.id] = NoBody

\* A caller that got an answer got one the server gave to that very request,
\* read the way execute classifies it.
OwnAnswer == \A r \in Requests :
    outcome[r] \in {"ok", "gone", "error"} => \E b \in answers[r] : outcome[r] = Decode(b)

\* The pending map keeps an entry of a finished call only when the client was
\* stopped (execute returns on ctx.Done without deleting), or for the instant
\* between the read loop's send and its delete.
PendingOnlyLeaksOnStop == \A r \in pending :
    pc[r] = "done" => outcome[r] = "cancelled" \/ (reader = "delete" /\ held.id = r)

\* Every execute() call returns: with the answer, or by its timer, however the
\* server, the socket and Stop() behave, and also when it is made by the hook.
ExecuteReturns == \A r \in Requests : pc[r] = "write" ~> pc[r] = "done"

\* execute implements the promise of RpcAbstract.
Abstract == INSTANCE RpcAbstract WITH
    status <- [r \in Requests |-> IF pc[r] = "idle" THEN "idle"
                                  ELSE IF pc[r] = "done" THEN outcome[r] ELSE "open"],
    served <- answers

\* Every step of execute, the read loop and the peer is a step of the abstract
\* request, or invisible to the caller.
ImplementsRpcAbstract == Abstract!Spec
=============================================================================
