---------------------------- MODULE RelayMessage ----------------------------
(***************************************************************************)
(* Messages of pkg/relay/message.go and Client.SendMessage. The message id *)
(* comes with the response to messaging.send; SendMessage registers the    *)
(* Message under it only after the read loop has handed the response over  *)
(* and gone on reading, so the first messaging.state events race with the  *)
(* registration. An inbound message is created by messaging.receive and    *)
(* never registered.                                                       *)
(***************************************************************************)
EXTENDS Naturals, Sequences, FiniteSets

CONSTANTS Outbound,   \* SendMessage calls, each with the id of its message
          Inbound,    \* messages received
          MaxFrames   \* bound on the frames in flight

Messages == Outbound \cup Inbound
TerminalStates == {"delivered", "undelivered", "failed", "received"}
ServerStates == {"sent", "delivered", "undelivered"}  \* reported by messaging.state

ASSUME MessagesAssumption == Outbound \cap Inbound = {} /\ MaxFrames \in Nat \ {0}

VARIABLES
    spc,                     \* where each SendMessage is
    messages,                \* Client.messages: the registered ids
    msgState,                \* Message.state, "none" before the object exists
    msgCompleted, msgResult, \* Message.completed, Message.result
    msgClosed,               \* Message.done is closed
    callbacks,               \* history: how many onCompleted goroutines were started
    msgWaiting,              \* a goroutine in Message.Wait
    frames,                  \* frames in flight to the client
    msgReader,               \* the read loop: [msg, state, at]
    srv,                     \* the server's state of each message
    lost,                    \* history: frames were lost with a connection
    missed                   \* history: messages one of whose events reached no Message

messageVars == <<msgState, msgCompleted, msgResult, msgClosed, callbacks>>
clientVars == <<spc, messages, msgWaiting>>
msgVars == <<clientVars, messageVars, frames, msgReader, srv, lost, missed>>

Response(m) == [kind |-> "response", msg |-> m, state |-> "none"]
StateEvent(m, s) == [kind |-> "state", msg |-> m, state |-> s]
Receive(m) == [kind |-> "receive", msg |-> m, state |-> "received"]
Frames == {Response(m) : m \in Outbound} \cup {Receive(m) : m \in Inbound}
            \cup {StateEvent(m, s) : m \in Outbound, s \in ServerStates}
MsgIdle == [msg |-> "none", state |-> "none", at |-> "idle"]

MessageInit ==
    /\ spc = [m \in Outbound |-> "idle"]
    /\ messages = {}
    /\ msgState = [m \in Messages |-> "none"]
    /\ msgCompleted = [m \in Messages |-> FALSE]
    /\ msgResult = [m \in Messages |-> "none"]
    /\ msgClosed = [m \in Messages |-> FALSE]
    /\ callbacks = [m \in Messages |-> 0]
    /\ msgWaiting = [m \in Messages |-> "idle"]
    /\ frames = <<>>
    /\ msgReader = MsgIdle
    /\ srv = [m \in Messages |-> "none"]
    /\ lost = FALSE /\ missed = {}

-----------------------------------------------------------------------------
(* SendMessage and Wait                                                    *)

SendGoto(m, p) == spc' = [spc EXCEPT ![m] = p]

\* execute("messaging.send")
SendExecutes(m) ==
    /\ spc[m] = "idle" /\ SendGoto(m, "exec")
    /\ UNCHANGED <<messages, msgWaiting, messageVars, frames, msgReader, srv, lost, missed>>

\* execute fails or times out: no Message
SendFails(m) ==
    /\ spc[m] = "exec" /\ SendGoto(m, "failed")
    /\ UNCHANGED <<messages, msgWaiting, messageVars, frames, msgReader, srv, lost, missed>>

\* The response has arrived: newMessage, c.messages[id] = msg, under the lock.
SendRegisters(m) ==
    /\ spc[m] = "answered" /\ SendGoto(m, "sent")
    /\ messages' = messages \cup {m}
    /\ msgState' = [msgState EXCEPT ![m] = "queued"]
    /\ UNCHANGED <<msgWaiting, msgCompleted, msgResult, msgClosed, callbacks, frames, msgReader, srv, lost, missed>>

MsgWait(m) ==
    /\ msgState[m] # "none" /\ msgWaiting[m] = "idle"
    /\ msgWaiting' = [msgWaiting EXCEPT ![m] = "waiting"]
    /\ UNCHANGED <<spc, messages, messageVars, frames, msgReader, srv, lost, missed>>

\* case <-m.done
MsgWaitReturns(m) ==
    /\ msgWaiting[m] = "waiting" /\ msgClosed[m]
    /\ msgWaiting' = [msgWaiting EXCEPT ![m] = "returned"]
    /\ UNCHANGED <<spc, messages, messageVars, frames, msgReader, srv, lost, missed>>

-----------------------------------------------------------------------------
(* The read loop                                                           *)

Reads(kind) == /\ msgReader = MsgIdle /\ frames # <<>> /\ Head(frames).kind = kind
               /\ frames' = Tail(frames)

\* Hand the response to execute, which may have given up.
ReadResponse ==
    /\ Reads("response")
    /\ LET m == Head(frames).msg IN
       spc' = [spc EXCEPT ![m] = IF @ = "exec" THEN "answered" ELSE @]
    /\ UNCHANGED <<messages, msgWaiting, messageVars, msgReader, srv, lost, missed>>

\* messaging.receive: a Message for the handler's goroutine, not registered
ReadReceive ==
    /\ Reads("receive")
    /\ msgState' = [msgState EXCEPT ![Head(frames).msg] = "received"]
    /\ UNCHANGED <<clientVars, msgCompleted, msgResult, msgClosed, callbacks, msgReader, srv, lost, missed>>

\* messaging.state: look the message up; an unknown one is forgotten.
ReadState ==
    /\ Reads("state")
    /\ LET e == Head(frames) IN
       IF e.msg \in messages
       THEN msgReader' = [msg |-> e.msg, state |-> e.state, at |-> "update"] /\ missed' = missed
       ELSE missed' = missed \cup {e.msg} /\ msgReader' = MsgIdle
    /\ UNCHANGED <<clientVars, messageVars, srv, lost>>

\* Variation: a terminal report completes the message and leaves its state alone.
UpdateState_TerminalKeepsState == LET m == msgReader.msg IN
    /\ msgReader.at = "update"
    /\ IF msgReader.state \in TerminalStates /\ ~msgCompleted[m]
       THEN /\ msgCompleted' = [msgCompleted EXCEPT ![m] = TRUE]
            /\ msgResult' = [msgResult EXCEPT ![m] = msgReader.state]
            /\ callbacks' = [callbacks EXCEPT ![m] = @ + 1]
            /\ UNCHANGED msgState
       ELSE /\ msgState' = [msgState EXCEPT ![m] = msgReader.state]
            /\ UNCHANGED <<msgCompleted, msgResult, callbacks>>
    /\ msgReader' = [msgReader EXCEPT !.at = "finish"]
    /\ UNCHANGED <<clientVars, msgClosed, frames, srv, lost, missed>>

\* Variation: a repeated terminal report completes the message again.
UpdateState_CompletesAgain == LET m == msgReader.msg IN
    /\ msgReader.at = "update"
    /\ msgState' = [msgState EXCEPT ![m] = msgReader.state]
    /\ IF msgReader.state \in TerminalStates
       THEN /\ msgCompleted' = [msgCompleted EXCEPT ![m] = TRUE]
            /\ msgResult' = [msgResult EXCEPT ![m] = msgReader.state]
            /\ callbacks' = [callbacks EXCEPT ![m] = @ + 1]
       ELSE UNCHANGED <<msgCompleted, msgResult, callbacks>>
    /\ msgReader' = [msgReader EXCEPT !.at = "finish"]
    /\ UNCHANGED <<clientVars, msgClosed, frames, srv, lost, missed>>

\* updateState, under the message's lock
UpdateState == LET m == msgReader.msg IN
    /\ msgReader.at = "update"
    /\ msgState' = [msgState EXCEPT ![m] = msgReader.state]
    /\ IF msgReader.state \in TerminalStates /\ ~msgCompleted[m]
       THEN /\ msgCompleted' = [msgCompleted EXCEPT ![m] = TRUE]
            /\ msgResult' = [msgResult EXCEPT ![m] = msgReader.state]
            /\ callbacks' = [callbacks EXCEPT ![m] = @ + 1]
       ELSE UNCHANGED <<msgCompleted, msgResult, callbacks>>
    /\ msgReader' = [msgReader EXCEPT !.at = "finish"]
    /\ UNCHANGED <<clientVars, msgClosed, frames, srv, lost, missed>>

\* Variation: done is not closed.
FinishUpdate_NoClose ==
    /\ msgReader.at = "finish"
    /\ msgReader' = MsgIdle
    /\ UNCHANGED <<clientVars, messageVars, frames, srv, lost, missed>>

\* ... and after it: handlers, then close(done) unless it is closed.
FinishUpdate ==
    /\ msgReader.at = "finish"
    /\ msgClosed' = [msgClosed EXCEPT ![msgReader.msg] = @ \/ msgReader.state \in TerminalStates]
    /\ msgReader' = MsgIdle
    /\ UNCHANGED <<clientVars, msgState, msgCompleted, msgResult, callbacks, frames, srv, lost, missed>>

-----------------------------------------------------------------------------
(* The server and the connection                                           *)

Sends(f) == Len(frames) < MaxFrames /\ frames' = Append(frames, f)

ServerAccepts(m) ==
    /\ spc[m] # "idle" /\ srv[m] = "none"
    /\ srv' = [srv EXCEPT ![m] = "queued"]
    /\ Sends(Response(m))
    /\ UNCHANGED <<clientVars, messageVars, msgReader, lost, missed>>

\* Forward, or the same report again; a terminal state is final.
ServerReports(m, s) ==
    /\ srv[m] \in {"queued", "sent", s}
    /\ srv' = [srv EXCEPT ![m] = s]
    /\ Sends(StateEvent(m, s))
    /\ UNCHANGED <<clientVars, messageVars, msgReader, lost, missed>>

ServerDeliversInbound(m) ==
    /\ srv[m] = "none"
    /\ srv' = [srv EXCEPT ![m] = "received"]
    /\ Sends(Receive(m))
    /\ UNCHANGED <<clientVars, messageVars, msgReader, lost, missed>>

LinkDrops ==
    /\ frames # <<>>
    /\ frames' = <<>> /\ lost' = TRUE
    /\ missed' = missed \cup {frames[i].msg : i \in 1..Len(frames)}
    /\ UNCHANGED <<clientVars, messageVars, msgReader, srv>>

-----------------------------------------------------------------------------
MsgReaderStep == ReadResponse \/ ReadReceive \/ ReadState \/ UpdateState \/ FinishUpdate
ClientStep(m) == SendFails(m) \/ SendRegisters(m)

MessageNext ==
    \/ \E m \in Outbound : \/ SendExecutes(m) \/ ClientStep(m)
                           \/ ServerAccepts(m) \/ \E s \in ServerStates : ServerReports(m, s)
    \/ \E m \in Inbound : ServerDeliversInbound(m)
    \/ \E m \in Messages : MsgWait(m) \/ MsgWaitReturns(m)
    \/ MsgReaderStep \/ LinkDrops

MessageSpec == MessageInit /\ [][MessageNext]_msgVars

\* Goroutines that can move do; nothing is assumed of the server or the network.
MessageFairness ==
    /\ WF_msgVars(MsgReaderStep)
    /\ \A m \in Outbound : WF_msgVars(ClientStep(m))
    /\ \A m \in Messages : WF_msgVars(MsgWaitReturns(m))

MessageFairSpec == MessageSpec /\ MessageFairness

-----------------------------------------------------------------------------
States == {"none", "queued"} \cup ServerStates \cup {"received"}

MessageTypeOK ==
    /\ spc \in [Outbound -> {"idle", "exec", "answered", "sent", "failed"}]
    /\ messages \subseteq Outbound
    /\ msgState \in [Messages -> States] /\ srv \in [Messages -> States]
    /\ msgCompleted \in [Messages -> BOOLEAN] /\ msgClosed \in [Messages -> BOOLEAN]
    /\ msgResult \in [Messages -> States]
    /\ callbacks \in [Messages -> Nat]
    /\ msgWaiting \in [Messages -> {"idle", "waiting", "returned"}]
    /\ frames \in Seq(Frames)
    /\ \/ msgReader = MsgIdle
       \/ msgReader \in [msg : Outbound, state : ServerStates, at : {"update", "finish"}]
    /\ lost \in BOOLEAN /\ missed \subseteq Messages

\* A report about m is in flight or being handled.
InFlight(m) == \/ \E i \in 1..Len(frames) : frames[i].msg = m
               \/ msgReader.msg = m

\* A Message that missed no event is in the state the server reported last, once
\* every report has been handled.
TracksServer == \A m \in messages :
    ~InFlight(m) /\ m \notin missed => msgState[m] = srv[m]

\* A message completes once: one callback, a terminal result, and done closed
\* whenever the read loop is not in the middle of completing it.
CompletesOnce == \A m \in Outbound :
    /\ callbacks[m] = IF msgCompleted[m] THEN 1 ELSE 0
    /\ msgCompleted[m] => msgResult[m] \in TerminalStates
    /\ msgClosed[m] <=> msgCompleted[m] /\ ~(msgReader.msg = m /\ msgReader.at = "finish" /\ ~msgClosed[m])

\* Wait on a Message that missed no event returns once the server is done with it.
TrackedWaitReturns == \A m \in Outbound :
    msgWaiting[m] = "waiting" /\ srv[m] \in {"delivered", "undelivered"}
        ~> msgWaiting[m] = "returned" \/ m \in missed

-----------------------------------------------------------------------------
\* A Message is a Completion: its terminal state, its callback, done and Wait.
MessageEnds == INSTANCE Completion WITH
    Objects <- Messages, Outcomes <- TerminalStates, Pending <- "none",
    outcome <- msgResult, notified <- callbacks, waiter <- msgWaiting,
    closed <- [m \in Messages |-> IF msgClosed[m] THEN 1 ELSE 0]

\* Every step of SendMessage, the read loop and the server is a step of the
\* completion, or invisible to whoever waits, however often a terminal state is
\* reported: one result, which stays, one callback, and done closed after it.
MessagesImplementCompletion == MessageEnds!Spec

-----------------------------------------------------------------------------
(* What the comments and the documentation say of messages.                *)

\* message.Wait "blocks until delivered/failed", so it returns when the message is
\* delivered or undelivered, as long as no connection was lost.
SentMessageWaitReturns == \A m \in Outbound :
    msgWaiting[m] = "waiting" /\ srv[m] \in {"delivered", "undelivered"}
        ~> msgWaiting[m] = "returned" \/ lost

=============================================================================
