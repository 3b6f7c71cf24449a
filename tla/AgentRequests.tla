--------------------------- MODULE AgentRequests ---------------------------
(***************************************************************************)
(* Requests for the SWML document of one AgentBase (pkg/agent) against     *)
(* goroutines that change the agent: handleRequestWithContext, the copy    *)
(* made for the dynamic-config callback, the render under the agent's      *)
(* RWMutex, and what is shared by reference after the lock is gone. A      *)
(* request or a setter leaves a mark, its own name, where it writes, so    *)
(* that every answer shows whose data it contains.                         *)
(***************************************************************************)
EXTENDS Naturals, FiniteSets

CONSTANTS Calls,    \* requests
          Setters,  \* goroutines that call a setter of the agent once
          Seed      \* what the agent is configured with before it serves

ASSUME CallsAssumption == Calls \cap Setters = {} /\ Seed \notin Calls \cup Setters

VARIABLES
    dynamic,     \* a dynamic-config callback is set
    hooked,      \* an OnSwmlRequest hook returns a global_data entry
    globalData,  \* the agent's globalData, and every map that clone copies
    section,     \* the body of a section of pomSections, one map for all copies
    contexts,    \* the ContextBuilder, one for all copies
    call,        \* where each request is
    copy,        \* the globalData of the copy made for it
    owner,       \* whose map the rendered global_data is: the agent's, the copy's, or new
    extra,       \* that new map
    answer,      \* the marks in the document sent
    readers,     \* how often each request holds the read lock
    setter       \* each setter: idle, waiting for the lock, holding it, done

requestVars == <<dynamic, hooked, globalData, section, contexts, call, copy, owner, extra,
                 answer, readers, setter>>
config == <<dynamic, hooked>>
shared == <<globalData, section, contexts>>
local == <<copy, owner, extra, answer>>

Empty == [data |-> {}, section |-> {}, contexts |-> {}]

RequestsInit ==
    /\ dynamic \in BOOLEAN /\ hooked \in BOOLEAN
    /\ globalData \in {{}, {Seed}} /\ section = {Seed} /\ contexts \in {{}, {Seed}}
    /\ call = [c \in Calls |-> "idle"]
    /\ copy = [c \in Calls |-> {}] /\ extra = [c \in Calls |-> {}]
    /\ owner = [c \in Calls |-> "new"]
    /\ answer = [c \in Calls |-> Empty]
    /\ readers = [c \in Calls |-> 0]
    /\ setter = [s \in Setters |-> "idle"]

CallGoto(c, from, to) == call[c] = from /\ call' = [call EXCEPT ![c] = to]

-----------------------------------------------------------------------------
(* sync.RWMutex: a waiting writer keeps new readers out, whoever they are. *)

WriterPending == \E s \in Setters : setter[s] \in {"waiting", "holding"}

RLock(c) == ~WriterPending /\ readers' = [readers EXCEPT ![c] = @ + 1]
RUnlock(c) == readers' = [readers EXCEPT ![c] = @ - 1]

SetterWaits(s) ==
    /\ setter[s] = "idle"
    /\ setter' = [setter EXCEPT ![s] = "waiting"]
    /\ UNCHANGED <<config, shared, call, local, readers>>

SetterLocks(s) ==
    /\ setter[s] = "waiting"
    /\ \A c \in Calls : readers[c] = 0
    /\ \A other \in Setters : setter[other] # "holding"
    /\ setter' = [setter EXCEPT ![s] = "holding"]
    /\ UNCHANGED <<config, shared, call, local, readers>>

\* UpdateGlobalData, or any other setter.
SetterWrites(s) ==
    /\ setter[s] = "holding"
    /\ setter' = [setter EXCEPT ![s] = "done"]
    /\ globalData' = globalData \cup {s}
    /\ UNCHANGED <<config, section, contexts, call, local, readers>>

-----------------------------------------------------------------------------
(* The dynamic path: clone, callback.                                      *)

CallArrives(c) ==
    /\ CallGoto(c, "idle", IF dynamic THEN "clone" ELSE "lock")
    /\ UNCHANGED <<config, shared, local, readers, setter>>

\* clone() runs under the read lock from its first line to its last. A plausible
\* slip: a map is handed on instead of copied, so that the callback's write to the
\* copy is a write to the agent's map.
CopyWrites_ToAgent(c, marks) ==
    /\ globalData' = globalData \cup marks
    /\ copy' = [copy EXCEPT ![c] = globalData \cup marks]

CopyWrites(c, marks) ==
    /\ copy' = [copy EXCEPT ![c] = @ \cup marks]
    /\ UNCHANGED globalData

CallClones(c) ==
    /\ CallGoto(c, "clone", "callback") /\ ~WriterPending
    /\ copy' = [copy EXCEPT ![c] = globalData]
    /\ UNCHANGED <<config, shared, owner, extra, answer, readers, setter>>

\* The callback configures the copy, under the lock of the copy: any setter of a
\* copied field; PromptAddToSection and PromptAddSubsection, which write into the
\* section map itself; the contexts of DefineContexts, or ResetContexts.
CallbackSets(c) ==
    /\ CallGoto(c, "callback", "render")
    /\ CopyWrites(c, {c})
    /\ UNCHANGED <<config, section, contexts, owner, extra, answer, readers, setter>>

CallbackExtendsSection(c) ==
    /\ CallGoto(c, "callback", "render")
    /\ section' = section \cup {c}
    /\ UNCHANGED <<config, globalData, contexts, local, readers, setter>>

CallbackResetsContexts(c) ==
    /\ CallGoto(c, "callback", "render")
    /\ contexts' = {}
    /\ UNCHANGED <<config, globalData, section, local, readers, setter>>

CallbackAddsContext(c) ==
    /\ CallGoto(c, "callback", "render") /\ contexts # {}
    /\ contexts' = contexts \cup {c}
    /\ UNCHANGED <<config, globalData, section, local, readers, setter>>

\* The copy is rendered under a lock of its own; the contexts are validated
\* against the tools of the agent they are attached to, the original.
RenderCopy(c) ==
    /\ CallGoto(c, "render", "modify")
    /\ contexts = {} \/ ~WriterPending
    /\ owner' = [owner EXCEPT ![c] = IF copy[c] = {} THEN "new" ELSE "copy"]
    /\ answer' = [answer EXCEPT ![c] = [@ EXCEPT !.contexts = contexts]]
    /\ UNCHANGED <<config, shared, copy, extra, readers, setter>>

-----------------------------------------------------------------------------
(* The static path: RenderSWMLForCall on the agent itself.                 *)

RenderLocks(c) ==
    /\ CallGoto(c, "lock", IF contexts = {} THEN "built" ELSE "contexts")
    /\ RLock(c)
    /\ UNCHANGED <<config, shared, local, setter>>

\* ContextBuilder.ToMap validates, and Validate calls ListToolNames of the agent,
\* which takes the read lock the caller holds already.
RenderContexts(c) ==
    /\ CallGoto(c, "contexts", "listed")
    /\ RLock(c)
    /\ answer' = [answer EXCEPT ![c] = [@ EXCEPT !.contexts = contexts]]
    /\ UNCHANGED <<config, shared, copy, owner, extra, setter>>

RenderListed(c) ==
    /\ CallGoto(c, "listed", "built")
    /\ RUnlock(c)
    /\ UNCHANGED <<config, shared, local, setter>>

\* The lock is released and the document keeps the agent's maps. A plausible slip:
\* an early return keeps the lock.
RenderUnlocks_Keeps(c) ==
    /\ CallGoto(c, "built", "modify")
    /\ owner' = [owner EXCEPT ![c] = IF globalData = {} THEN "new" ELSE "agent"]
    /\ UNCHANGED <<config, shared, copy, extra, answer, readers, setter>>

RenderUnlocks(c) ==
    /\ CallGoto(c, "built", "modify")
    /\ RUnlock(c)
    /\ owner' = [owner EXCEPT ![c] = IF globalData = {} THEN "new" ELSE "agent"]
    /\ UNCHANGED <<config, shared, copy, extra, answer, setter>>

-----------------------------------------------------------------------------
(* applySwmlModifications and json.Marshal, without a lock.                *)

CallModifies(c) ==
    /\ CallGoto(c, "modify", "marshal")
    /\ IF hooked
       THEN CASE owner[c] = "agent" -> globalData' = globalData \cup {c} /\ UNCHANGED <<copy, extra>>
              [] owner[c] = "copy"  -> CopyWrites(c, {c}) /\ UNCHANGED extra
              [] owner[c] = "new"   -> extra' = [extra EXCEPT ![c] = {c}] /\ UNCHANGED <<copy, globalData>>
       ELSE UNCHANGED <<globalData, copy, extra>>
    /\ UNCHANGED <<config, section, contexts, owner, answer, readers, setter>>

DataOf(c) == CASE owner[c] = "agent" -> globalData
               [] owner[c] = "copy"  -> copy[c]
               [] owner[c] = "new"   -> extra[c]

CallAnswered(c) ==
    /\ CallGoto(c, "marshal", "answered")
    /\ answer' = [answer EXCEPT ![c] = [@ EXCEPT !.data = DataOf(c), !.section = section]]
    /\ UNCHANGED <<config, shared, copy, owner, extra, readers, setter>>

-----------------------------------------------------------------------------
Callback(c) == \/ CallbackSets(c) \/ CallbackExtendsSection(c)
               \/ CallbackResetsContexts(c) \/ CallbackAddsContext(c)
CallStep(c) == \/ CallClones(c) \/ Callback(c) \/ RenderCopy(c)
               \/ RenderLocks(c) \/ RenderContexts(c) \/ RenderListed(c) \/ RenderUnlocks(c)
               \/ CallModifies(c) \/ CallAnswered(c)
SetterStep(s) == SetterLocks(s) \/ SetterWrites(s)

RequestsNext ==
    \/ \E c \in Calls : CallArrives(c) \/ CallStep(c)
    \/ \E s \in Setters : SetterWaits(s) \/ SetterStep(s)

RequestsSpec == RequestsInit /\ [][RequestsNext]_requestVars

\* Goroutines that can go on do.
RequestsFairness ==
    /\ \A c \in Calls : WF_requestVars(CallStep(c))
    /\ \A s \in Setters : WF_requestVars(SetterStep(s))

-----------------------------------------------------------------------------
Marks == Calls \cup Setters \cup {Seed}

RequestsTypeOK ==
    /\ {dynamic, hooked} \subseteq BOOLEAN
    /\ globalData \subseteq Marks /\ section \subseteq Marks /\ contexts \subseteq Marks
    /\ call \in [Calls -> {"idle", "clone", "callback", "render", "lock", "contexts", "listed",
                           "built", "modify", "marshal", "answered"}]
    /\ copy \in [Calls -> SUBSET Marks] /\ extra \in [Calls -> SUBSET Marks]
    /\ owner \in [Calls -> {"agent", "copy", "new"}]
    /\ answer \in [Calls -> [data : SUBSET Marks, section : SUBSET Marks, contexts : SUBSET Marks]]
    /\ readers \in [Calls -> 0..2] /\ setter \in [Setters -> {"idle", "waiting", "holding", "done"}]

\* With a dynamic-config callback, what a request writes to a copied field of its
\* copy, or its OnSwmlRequest hook adds to the document, stays in that request:
\* neither the agent nor the answer to another request ever shows it.
CopiedDataIsPrivate ==
    dynamic => /\ globalData \cap Calls = {}
               /\ \A c \in Calls : answer[c].data \cap Calls \subseteq {c}

\* A render that already holds the read lock asks for it again behind a waiting
\* setter: neither can go on, and nobody after them.
Reentered == /\ \E c \in Calls : call[c] = "contexts"
             /\ \E s \in Setters : setter[s] = "waiting"

\* Requests and setters do not block each other for ever: the only state they can
\* get stuck in is a static render of contexts overtaken by a waiting setter.
RequestsAreAnswered ==
    <>[](Reentered \/ /\ \A c \in Calls : call[c] \in {"idle", "answered"}
                      /\ \A s \in Setters : setter[s] \in {"idle", "done"})

-----------------------------------------------------------------------------
(* What docs/sdk_features.md says of the dynamic-config callback.          *)

\* "The callback customizes it per-request ... The original agent is unchanged."
OriginalUnchanged ==
    [][dynamic /\ UNCHANGED setter => UNCHANGED shared]_requestVars
=============================================================================
