----------------------------- MODULE MCSdkParts -----------------------------
(* The parts of the SDK beside the RELAY client for TLC, one at a time: those *)
(* that do not move rest in an initial state.                                 *)
EXTENDS SdkParts, TLC

-----------------------------------------------------------------------------
(* One request of RestRetry, three pages of RestPaginator.                 *)

CONSTANTS p1, p2, p3

MCMethods == {"GET", "POST"}
MCStatuses == {404, 429, 500, 503}
MCDefaultRetryOnStatus == {429, 500, 502, 503, 504}
MCSignals == {"absent", "armed", "fired"}
MCPages == {p1, p2, p3}

(* Two overlapping runs of a server or an agent.                           *)

CONSTANTS r1, r2, shut, q1, s1, s2, h1, h2

MCRuns == {r1, r2}
MCStops == {shut}
MCRequests == {q1}
MCServes == {s1, s2}
MCHandlers == {h1, h2}

(* Two requests to an agent and a setter.                                  *)

CONSTANTS c1, c2, set

MCCalls == {c1, c2}
MCSetters == {set}

(* A skill with one instance; two instances of another and a duplicate. One *)
(* tool name is asked for by both skills.                                  *)

CONSTANTS k1, k2, k3, k4, t1, t2

MCAdds == {k1, k2, k3, k4}
MCSkillOf == [k \in MCAdds |-> IF k = k1 THEN "datetime" ELSE "datasphere"]
MCToolOf == (k1 :> t1) @@ (k2 :> t1) @@ (k3 :> t2) @@ (k4 :> t1)
MCMulti == {"datasphere"}
MCNone == {}

(* A context whose steps may share a name.                                 *)

CONSTANTS o1, o2, n1, n2, tool

MCStepObjs == {o1, o2}
MCStepNames == {n1, n2}
MCFlowTools == {tool}

(* Two crawls of a site with shortcuts and cycles, one that has its fill.  *)

CONSTANTS w1, w2, scrape, a, b, c, d, e, f

MCCrawls == {w1, w2}
MCScrapes == {scrape}
MCUrls == {a, b, c, d, e, f}
MCWithText == MCUrls \ {c, e}
MCStartUrl == (w1 :> a) @@ (w2 :> e) @@ (scrape :> a)
MCLinksOf == (a :> <<b, c>>) @@ (b :> <<c, a>>) @@ (c :> <<d>>) @@ (d :> <<a, e>>)
             @@ (e :> <<a, f>>) @@ (f :> <<d>>)

(* Three questions, calls that may be repeated.                            *)

CONSTANTS g1, g2, g3

MCToolCalls == {g1, g2, g3}
=============================================================================
