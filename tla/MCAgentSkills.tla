--------------------------- MODULE MCAgentSkills ----------------------------
(* AgentSkills for TLC: two instances of web_search, whose key is asked for  *)
(* before Setup has read the tool name it is made of.                        *)
EXTENDS AgentSkills, TLC

CONSTANTS k1, k2, t1, t2

MCAdds == {k1, k2}
MCSkillOf == [k \in MCAdds |-> "web_search"]
MCToolOf == (k1 :> t1) @@ (k2 :> t2)
MCWebSearch == {"web_search"}
=============================================================================
