---------------------------- MODULE MCRelayCall -----------------------------
(* RelayCall for TLC: a typed wait, a WaitFor on the same state, a           *)
(* WaitForEnded, and one handler.                                            *)
EXTENDS RelayCall, TLC

CONSTANTS typed, plain, ended, h

MCWaiters == {typed, plain, ended}
MCKind == [w \in Waiters |-> IF w = typed THEN "state" ELSE "event"]
MCTarget == [w \in Waiters |-> IF w = ended THEN "ended" ELSE "answered"]
MCHandlers == {h}
=============================================================================
