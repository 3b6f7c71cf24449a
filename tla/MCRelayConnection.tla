-------------------------- MODULE MCRelayConnection --------------------------
(* RelayConnection for TLC: every constant is a number or a flag of the cfg. *)
EXTENDS RelayConnection
=============================================================================
