--------------------------- MODULE MCRelayObjects ---------------------------
(* RelayAction and RelayMessage for TLC, one at a time: they share no state,  *)
(* and `object' says which of them moves. A prompt and a detection, which     *)
(* complete by rules of their own; an outbound message and an inbound one.    *)
EXTENDS RelayAction, RelayMessage, TLC

CONSTANTS a1, a2, m1, in1

MCActions == {a1, a2}
MCType == (a1 :> "playAndCollect") @@ (a2 :> "detect")
MCOutbound == {m1}
MCInbound == {in1}

VARIABLE object

mcVars == <<object, vars, msgVars>>

MCInit == object \in {"action", "message"} /\ Init /\ MessageInit

AsAction(A) == object = "action" /\ A /\ UNCHANGED <<object, msgVars>>
AsMessage(A) == object = "message" /\ A /\ UNCHANGED <<object, vars>>

MCNext == AsAction(Next) \/ AsMessage(MessageNext)

\* The fairness of each part.
MCFairness ==
    /\ WF_mcVars(AsAction(ReaderStep))
    /\ \A a \in Actions : WF_mcVars(AsAction(VerbStep(a))) /\ WF_mcVars(AsAction(WaitReturns(a)))
    /\ WF_mcVars(AsMessage(MsgReaderStep))
    /\ \A m \in Outbound : WF_mcVars(AsMessage(ClientStep(m)))
    /\ \A m \in Messages : WF_mcVars(AsMessage(MsgWaitReturns(m)))

MCSpec == MCInit /\ [][MCNext]_mcVars /\ MCFairness
=============================================================================
