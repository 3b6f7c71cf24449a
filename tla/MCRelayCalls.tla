---------------------------- MODULE MCRelayCalls ----------------------------
(* RelayCalls for TLC.                                                      *)
EXTENDS RelayCalls, TLC

CONSTANTS d1, d2, t1, t2, l1, l2, i1

\* Two dials, a leg of the first one, and an inbound call
MCTwoDials == {d1, d2}
MCTwoTags == {t1, t2}
MCTagOf == (d1 :> t1) @@ (d2 :> t2)
MCMixedCalls == {l1, i1}
MCMixedLegTag == (l1 :> t1) @@ (i1 :> NoTag)
MCAnswerOnly == {"answered"}

\* One dial with two legs racing
MCOneDial == {d1}
MCOneTag == {t1}
MCOneTagOf == d1 :> t1
MCTwoLegs == {l1, l2}
MCTwoLegsTag == (l1 :> t1) @@ (l2 :> t1)
MCFullLife == {"ringing", "answered", "ending", "ended"}

\* The legs are interchangeable (used with safety properties only).
LegSymmetry == Permutations({l1, l2})
=============================================================================
