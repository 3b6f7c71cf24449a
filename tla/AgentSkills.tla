---------------------------- MODULE AgentSkills ----------------------------
(***************************************************************************)
(* The skills and the tools of an agent: SkillManager (pkg/skills) and the *)
(* tool registry of AgentBase, with AddSkill and RemoveSkill between them. *)
(* AddSkill loads an instance under the manager's lock and registers its   *)
(* tool afterwards, under the agent's; other goroutines act in between.    *)
(* The key an instance is loaded under is asked for before its Setup ran.  *)
(***************************************************************************)
EXTENDS Naturals, Sequences, FiniteSets, SequencesExt

CONSTANTS Adds,        \* calls of AddSkill, each creating an instance of its own
          SkillOf,     \* the skill it names
          ToolOf,      \* the tool its params ask for
          Multi,       \* skills that support several instances
          LateKey,     \* those whose GetInstanceKey reads fields that Setup assigns
          Unnamed,     \* the empty tool name of an instance that was not set up
          User,        \* the handler of a tool the application defined itself
          Nobody       \* nothing there

ASSUME SkillsAssumption ==
    /\ LateKey \subseteq Multi
    /\ {User, Nobody} \cap Adds = {} /\ User # Nobody
    /\ Unnamed \notin {ToolOf[a] : a \in Adds}

VARIABLES
    adding,      \* where each AddSkill is
    ready,       \* instances whose Setup succeeded
    loaded,      \* loadedSkills: the instance under each key
    tools,       \* the handler of each tool
    toolOrder,   \* the names in the order of registration
    removed      \* history: tools taken away or redefined by the application

skillVars == <<adding, ready, loaded, tools, toolOrder, removed>>
registry == <<tools, toolOrder, removed>>

Skills == {SkillOf[a] : a \in Adds}
Names == {ToolOf[a] : a \in Adds} \cup {Unnamed}

\* GetInstanceKey of a fresh instance. A plausible slip, which web_search and
\* info_gatherer have in effect: the tool name is left out.
KeyOf_NameOnly(a) == <<SkillOf[a], Unnamed>>

KeyOf(a) == <<SkillOf[a], IF SkillOf[a] \in Multi \ LateKey THEN ToolOf[a] ELSE Unnamed>>
Keys == {<<s, n>> : s \in Skills, n \in Names}

SkillsInit ==
    /\ adding = [a \in Adds |-> "idle"]
    /\ ready = {}
    /\ loaded = [k \in Keys |-> Nobody]
    /\ tools = [n \in Names |-> Nobody] /\ toolOrder = <<>>
    /\ removed = {}

-----------------------------------------------------------------------------
(* SkillManager.LoadSkill, UnloadSkill.                                    *)

\* The key is taken: an error, or for a multi-instance skill a success without Setup.
LoadDuplicate(a) ==
    /\ adding[a] = "idle" /\ loaded[KeyOf(a)] # Nobody
    /\ adding' = [adding EXCEPT ![a] = IF SkillOf[a] \in Multi THEN "loaded" ELSE "failed"]
    /\ UNCHANGED <<ready, loaded, registry>>

\* A missing environment variable, or Setup refuses the params.
LoadFails(a) ==
    /\ adding[a] = "idle" /\ loaded[KeyOf(a)] = Nobody
    /\ adding' = [adding EXCEPT ![a] = "failed"]
    /\ UNCHANGED <<ready, loaded, registry>>

LoadSucceeds(a) ==
    /\ adding[a] = "idle" /\ loaded[KeyOf(a)] = Nobody
    /\ adding' = [adding EXCEPT ![a] = "loaded"]
    /\ ready' = ready \cup {a}
    /\ loaded' = [loaded EXCEPT ![KeyOf(a)] = a]
    /\ UNCHANGED registry

\* RemoveSkill unloads the instance under a key, a bare name or what ListSkills says of
\* an instance, also one that is still to register; the tools, hints and data it
\* contributed stay.
RemoveSkill(k) ==
    /\ loaded[k] # Nobody
    /\ loaded' = [loaded EXCEPT ![k] = Nobody]
    /\ UNCHANGED <<adding, ready, registry>>

-----------------------------------------------------------------------------
(* The tool registry: DefineTool, RemoveFunction.                          *)

Define(name, handler) ==
    /\ tools' = [tools EXCEPT ![name] = handler]
    /\ toolOrder' = IF tools[name] = Nobody THEN Append(toolOrder, name) ELSE toolOrder

\* RegisterTools of an instance that was not set up has no tool name to give.
AddRegisters(a) ==
    /\ adding[a] = "loaded"
    /\ adding' = [adding EXCEPT ![a] = "added"]
    /\ Define(IF a \in ready THEN ToolOf[a] ELSE Unnamed, a)
    /\ UNCHANGED <<ready, loaded, removed>>

UserDefines(name) ==
    /\ name # Unnamed /\ name \notin removed
    /\ Define(name, User)
    /\ removed' = removed \cup {name}
    /\ UNCHANGED <<adding, ready, loaded>>

RemoveFunction(name) ==
    /\ tools[name] # Nobody
    /\ tools' = [tools EXCEPT ![name] = Nobody]
    /\ toolOrder' = RemoveFirst(toolOrder, name)
    /\ removed' = removed \cup {name}
    /\ UNCHANGED <<adding, ready, loaded>>

-----------------------------------------------------------------------------
SkillsNext ==
    \/ \E a \in Adds : LoadDuplicate(a) \/ LoadFails(a) \/ LoadSucceeds(a) \/ AddRegisters(a)
    \/ \E k \in Keys : RemoveSkill(k)
    \/ \E n \in Names : UserDefines(n) \/ RemoveFunction(n)

SkillsSpec == SkillsInit /\ [][SkillsNext]_skillVars

-----------------------------------------------------------------------------
SkillsTypeOK ==
    /\ adding \in [Adds -> {"idle", "loaded", "failed", "added"}]
    /\ ready \subseteq Adds
    /\ loaded \in [Keys -> Adds \cup {Nobody}]
    /\ tools \in [Names -> Adds \cup {User, Nobody}]
    /\ toolOrder \in Seq(Names) /\ removed \subseteq Names

\* The order and the map never drift apart, whoever defines, redefines and removes:
\* the SWML lists every tool, once.
ToolsListedOnce ==
    \A n \in Names :
        Cardinality({i \in DOMAIN toolOrder : toolOrder[i] = n}) = (IF tools[n] = Nobody THEN 0 ELSE 1)

\* Instances with params of their own do not shadow each other: when AddSkill is
\* done the tool its params ask for exists, or an instance that was set up under its
\* key is about to register it, unloaded meanwhile or not; unless the application
\* removed the tool or the key could not know it.
KnownInstanceHasTool ==
    \A a \in Adds :
        adding[a] = "added" /\ SkillOf[a] \notin LateKey
            => \/ tools[ToolOf[a]] # Nobody \/ ToolOf[a] \in removed
               \/ \E b \in ready : KeyOf(b) = KeyOf(a) /\ adding[b] = "loaded"

\* Tools and skills stay in step: both of the above.
SkillToolsSound == ToolsListedOnce /\ KnownInstanceHasTool

-----------------------------------------------------------------------------
(* What docs/agent_guide.md says of web_search.                            *)

\* "supports multiple instances with different search engines and tool names":
\* every added instance that asks for a tool of its own gets it.
InstanceHasTool ==
    \A a \in Adds : adding[a] = "added" => tools[ToolOf[a]] # Nobody \/ ToolOf[a] \in removed
=============================================================================
