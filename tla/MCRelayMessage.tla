--------------------------- MODULE MCRelayMessage ---------------------------
(* RelayMessage for TLC: two outbound messages and an inbound one.          *)
EXTENDS RelayMessage

CONSTANTS m1, m2, in1

MCTwo == {m1, m2}
MCOne == {m1}
MCIn == {in1}
MCNone == {}
=============================================================================
