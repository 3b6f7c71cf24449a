-------------------------- MODULE MCAgentRequests ---------------------------
(* AgentRequests for TLC: two requests and a setter.                         *)
EXTENDS AgentRequests

CONSTANTS c1, c2, set

MCCalls == {c1, c2}
MCSetters == {set}
=============================================================================
