--------------------------- MODULE InfoGathering ----------------------------
(***************************************************************************)
(* The question sequence of InfoGathererAgent (pkg/prefabs). The server    *)
(* keeps nothing between two tool calls: the platform sends its            *)
(* global_data with every call and merges what the answer says to update.  *)
(* Calls may overlap, be repeated when their answer is late, and be        *)
(* answered out of order.                                                  *)
(***************************************************************************)
EXTENDS Naturals, Sequences

CONSTANTS ToolCalls, \* calls of submit_answer, each sent once or twice
          Questions  \* how many questions there are

ASSUME QuestionsAssumption == Questions \in Nat

VARIABLES
    gathered, \* global_data at the platform: question_index, answers by key_name
    hook,     \* where each call is
    snapshot, \* the global_data it carries
    update,   \* the global_data its answer asks for
    repeated  \* calls sent a second time

gatherVars == <<gathered, hook, snapshot, update, repeated>>

Data(index, answers) == [question_index |-> index, answers |-> answers]

GatherInit ==
    /\ gathered = Data(0, <<>>)
    /\ hook = [c \in ToolCalls |-> "idle"]
    /\ snapshot = [c \in ToolCalls |-> gathered] /\ update = snapshot
    /\ repeated = {}

\* The platform calls the tool with the data as it is now.
ToolCalled(c) ==
    /\ hook[c] = "idle"
    /\ hook' = [hook EXCEPT ![c] = "sent"]
    /\ snapshot' = [snapshot EXCEPT ![c] = gathered]
    /\ UNCHANGED <<gathered, update, repeated>>

\* The answer is late or lost and the call is made again, with the same body.
ToolCalledAgain(c) ==
    /\ hook[c] \in {"sent", "answered", "merged"} /\ c \notin repeated
    /\ hook' = [hook EXCEPT ![c] = "sent"]
    /\ repeated' = repeated \cup {c}
    /\ UNCHANGED <<gathered, snapshot, update>>

\* The answer is recorded under the key of the question the data points at.
\* A plausible slip: the index the data will have is used.
SubmitAnswer_NextKey(c) ==
    LET idx == snapshot[c].question_index
    IN /\ hook[c] = "sent"
       /\ hook' = [hook EXCEPT ![c] = "answered"]
       /\ update' = [update EXCEPT ![c] =
              IF idx >= Questions THEN snapshot[c]
              ELSE Data(idx + 1, Append(snapshot[c].answers, idx + 1))]
       /\ UNCHANGED <<gathered, snapshot, repeated>>

SubmitAnswer(c) ==
    LET idx == snapshot[c].question_index
    IN /\ hook[c] = "sent"
       /\ hook' = [hook EXCEPT ![c] = IF idx >= Questions THEN "refused" ELSE "answered"]
       /\ update' = [update EXCEPT ![c] =
              IF idx >= Questions THEN @
              ELSE Data(idx + 1, Append(snapshot[c].answers, idx))]
       /\ UNCHANGED <<gathered, snapshot, repeated>>

\* The platform merges the update: both keys of it, over what is there.
UpdateMerged(c) ==
    /\ hook[c] = "answered"
    /\ hook' = [hook EXCEPT ![c] = "merged"]
    /\ gathered' = update[c]
    /\ UNCHANGED <<snapshot, update, repeated>>

GatherNext ==
    \E c \in ToolCalls :
        ToolCalled(c) \/ ToolCalledAgain(c) \/ SubmitAnswer(c) \/ UpdateMerged(c)

GatherSpec == GatherInit /\ [][GatherNext]_gatherVars

-----------------------------------------------------------------------------
GatheredData == [question_index : 0..Questions, answers : Seq(0..Questions)]

GatherTypeOK ==
    /\ gathered \in GatheredData
    /\ hook \in [ToolCalls -> {"idle", "sent", "answered", "refused", "merged"}]
    /\ snapshot \in [ToolCalls -> GatheredData] /\ update \in [ToolCalls -> GatheredData]
    /\ repeated \subseteq ToolCalls

\* One answer for each question before the current one, under its own key, in order.
InStep(data) ==
    /\ Len(data.answers) = data.question_index
    /\ \A i \in DOMAIN data.answers : data.answers[i] = i - 1

\* Overlapping, repeated and reordered calls may lose an answer, but never leave the
\* answers out of step with the questions: none is skipped or recorded twice.
AnswersMatchQuestions == InStep(gathered)
=============================================================================
