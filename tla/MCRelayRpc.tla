----------------------------- MODULE MCRelayRpc -----------------------------
(* RelayRpc for TLC: two ordinary calls and one made by the OnEvent hook.   *)
EXTENDS RelayRpc

CONSTANTS r1, r2, h1

MCRequests == {r1, r2, h1}
MCHookRequests == {h1}
MCBodies == {"str404"}
=============================================================================
