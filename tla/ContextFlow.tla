---------------------------- MODULE ContextFlow -----------------------------
(***************************************************************************)
(* The steps of a context (pkg/contexts) while the application builds and  *)
(* rebuilds them: an ordered list, and beside it the map GetStep and       *)
(* Validate look names up in. Steps are added, removed, moved and made to  *)
(* refer to steps and tools by name; tools come and go on the agent. ToMap *)
(* renders the list if Validate accepts the map.                           *)
(***************************************************************************)
EXTENDS Naturals, Sequences, FiniteSets, SequencesExt

CONSTANTS StepObjs,     \* the Step values AddStep makes
          StepNames,    \* their names
          FlowTools,    \* SWAIG tools of the agent
          NoRef,        \* nothing referred to, nothing there
          Following     \* the step that follows: "next" in valid_steps, "next_step"
                        \* as a completion_action

\* A step refers to steps by an entry of its valid_steps or by the completion_action
\* of its gather_info, to tools by its functions or by those of a gather question.
Refs == [by : {"valid_steps", "completion_action"}, to : StepNames \cup {Following}]
            \cup [by : {"functions", "questions"}, to : FlowTools]

ASSUME FlowAssumption ==
    /\ IsFiniteSet(StepObjs)
    /\ NoRef \notin StepObjs \cup StepNames \cup Refs
    /\ Following \notin StepNames \cup FlowTools
    /\ StepNames \cap FlowTools = {}

VARIABLES
    steps,       \* c.steps: the steps in order
    stepMap,     \* c.stepMap: the step of each name
    stepName,    \* the name AddStep gave
    stepRef,     \* what the step refers to, one of Refs
    initialStep, \* c.initialStep
    flowTools,   \* the names ListToolNames returns
    doubled      \* history: a name was given while a step had it

flowVars == <<steps, stepMap, stepName, stepRef, initialStep, flowTools, doubled>>

Made == {o \in StepObjs : stepName[o] # NoRef}

FlowInit ==
    /\ steps = <<>> /\ stepMap = [n \in StepNames |-> NoRef]
    /\ stepName = [o \in StepObjs |-> NoRef] /\ stepRef = [o \in StepObjs |-> NoRef]
    /\ initialStep = NoRef /\ flowTools = FlowTools /\ doubled = FALSE

\* Nothing refuses a name that is taken: the map forgets the step that had it.
AddStep(o, n) ==
    /\ stepName[o] = NoRef
    /\ steps' = Append(steps, o)
    /\ stepMap' = [stepMap EXCEPT ![n] = o]
    /\ stepName' = [stepName EXCEPT ![o] = n]
    /\ doubled' = (doubled \/ stepMap[n] # NoRef)
    /\ UNCHANGED <<stepRef, initialStep, flowTools>>

FirstNamed(n) == SelectInSeq(steps, LAMBDA o : stepName[o] = n)

\* Out of the map, and out of the list the first step of that name.
\* A plausible slip: only the list is told.
RemoveStep_KeepsMap(n) ==
    /\ stepMap[n] # NoRef
    /\ steps' = RemoveAt(steps, FirstNamed(n))
    /\ UNCHANGED <<stepMap, stepName, stepRef, initialStep, flowTools, doubled>>

RemoveStep(n) ==
    /\ stepMap[n] # NoRef
    /\ stepMap' = [stepMap EXCEPT ![n] = NoRef]
    /\ steps' = RemoveAt(steps, FirstNamed(n))
    /\ UNCHANGED <<stepName, stepRef, initialStep, flowTools, doubled>>

\* To a 0-based position, clamped to the list.
MoveStep(n, position) ==
    /\ FirstNamed(n) # 0
    /\ LET rest == RemoveAt(steps, FirstNamed(n))
           at == IF position > Len(rest) THEN Len(rest) ELSE position
       IN steps' = InsertAt(rest, at + 1, steps[FirstNamed(n)])
    /\ UNCHANGED <<stepMap, stepName, stepRef, initialStep, flowTools, doubled>>

\* SetValidSteps, SetGatherInfo, SetFunctions, AddGatherQuestion, on a step the
\* application holds.
SetReference(o, r) ==
    /\ o \in Made
    /\ stepRef' = [stepRef EXCEPT ![o] = r]
    /\ UNCHANGED <<steps, stepMap, stepName, initialStep, flowTools, doubled>>

SetInitialStep(n) ==
    /\ initialStep' = n
    /\ UNCHANGED <<steps, stepMap, stepName, stepRef, flowTools, doubled>>

\* DefineTool and RemoveFunction of the agent.
ChangeTools(t) ==
    /\ flowTools' = IF t \in flowTools THEN flowTools \ {t} ELSE flowTools \cup {t}
    /\ UNCHANGED <<steps, stepMap, stepName, stepRef, initialStep, doubled>>

FlowNext ==
    \/ \E o \in StepObjs, n \in StepNames : AddStep(o, n)
    \/ \E n \in StepNames : RemoveStep(n) \/ SetInitialStep(n)
    \/ \E n \in StepNames, i \in 0..Cardinality(StepObjs) : MoveStep(n, i)
    \/ \E o \in StepObjs, r \in Refs : SetReference(o, r)
    \/ \E t \in FlowTools : ChangeTools(t)

FlowSpec == FlowInit /\ [][FlowNext]_flowVars

-----------------------------------------------------------------------------
(* Validate, which ToMap asks before it renders.                           *)

Ref(i) == stepRef[steps[i]]

\* "next" is an entry of valid_steps that every step may have, the last one too; the
\* functions of a question are not looked at.
RefAccepted(i) ==
    Ref(i) # NoRef =>
        /\ Ref(i).to \in StepNames => stepMap[Ref(i).to] # NoRef
        /\ Ref(i).by = "completion_action" /\ Ref(i).to = Following => i # Len(steps)
        /\ Ref(i).by = "functions" => Ref(i).to \in flowTools

Validate ==
    /\ Len(steps) > 0
    /\ initialStep = NoRef \/ stepMap[initialStep] # NoRef
    /\ \A i \in DOMAIN steps : RefAccepted(i)

-----------------------------------------------------------------------------
FlowTypeOK ==
    /\ steps \in Seq(StepObjs)
    /\ stepMap \in [StepNames -> StepObjs \cup {NoRef}]
    /\ stepName \in [StepObjs -> StepNames \cup {NoRef}]
    /\ stepRef \in [StepObjs -> Refs \cup {NoRef}]
    /\ initialStep \in StepNames \cup {NoRef}
    /\ flowTools \subseteq FlowTools /\ doubled \in BOOLEAN

\* The names a reader of the rendered list finds.
Rendered == {stepName[steps[i]] : i \in DOMAIN steps}

\* What step i of the rendered list refers to is not there.
Dangling(i) ==
    /\ Ref(i) # NoRef
    /\ \/ Ref(i).to \in StepNames \ Rendered
       \/ Ref(i).to = Following /\ i + 1 \notin DOMAIN steps
       \/ Ref(i).to \in FlowTools \ flowTools

\* Two kinds of reference may dangle: "next" in valid_steps, and the functions of a
\* question.
MayDangle(i) == \/ Ref(i).by = "questions"
                \/ Ref(i).by = "valid_steps" /\ Ref(i).to = Following

\* The rendered list has an initial step, and no other reference in it dangles.
Closed ==
    /\ steps # <<>>
    /\ initialStep \in Rendered \cup {NoRef}
    /\ \A i \in DOMAIN steps : Dangling(i) => MayDangle(i)

\* Validate judges the map and ToMap renders the list. However steps were added
\* under one name, removed, moved and referred to, a flow that is rendered has no
\* dangling reference but "next" on its last step and functions of a question; and
\* while no name was given twice, none is refused that has no other.
FlowJudgedRightly ==
    /\ Validate => Closed
    /\ ~doubled => (Closed => Validate)
=============================================================================
