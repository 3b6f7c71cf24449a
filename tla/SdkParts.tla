------------------------------ MODULE SdkParts ------------------------------
(***************************************************************************)
(* The parts of the SDK beside the RELAY client, side by side. They share  *)
(* no state in the code: each has a module of its own, and what holds of   *)
(* it there holds of it here. `part' says which of them moves, so that TLC *)
(* can check all of them in one run without their product.                 *)
(***************************************************************************)
EXTENDS RestRetry, RestPaginator, AgentServing, AgentRun, AgentRequests, AgentSkills,
        ContextFlow, SpiderCrawl, InfoGathering

VARIABLE part

Parts == {"retry", "walk", "serving", "run", "requests", "skills", "flow", "spider", "gather"}

restVars == <<vars, walkVars>>
agentVars == <<servingVars, agentRunVars, requestVars>>
toolVars == <<skillVars, flowVars, spiderVars, gatherVars>>
sdkVars == <<part, restVars, agentVars, toolVars>>

SdkInit ==
    /\ part \in Parts
    /\ Init /\ (part # "retry" => method = "GET" /\ ~ctxDone /\ signal = "absent")
    /\ WalkInit /\ (part # "walk" => empty = {} /\ links = [p \in Pages |-> End])
    /\ ServingInit /\ AgentRunInit
    /\ RequestsInit
    /\ (part # "requests" => dynamic /\ ~hooked /\ globalData = {} /\ contexts = {})
    /\ SkillsInit /\ FlowInit /\ SpiderInit /\ GatherInit

AsRetry(A) == part = "retry" /\ A /\ UNCHANGED <<part, walkVars, agentVars, toolVars>>
AsWalk(A) == part = "walk" /\ A /\ UNCHANGED <<part, vars, agentVars, toolVars>>
AsServing(A) ==
    part = "serving" /\ A /\ UNCHANGED <<part, restVars, agentRunVars, requestVars, toolVars>>
AsRun(A) == part = "run" /\ A /\ UNCHANGED <<part, restVars, servingVars, requestVars, toolVars>>
AsRequests(A) ==
    part = "requests" /\ A /\ UNCHANGED <<part, restVars, servingVars, agentRunVars, toolVars>>
AsSkills(A) ==
    part = "skills" /\ A /\ UNCHANGED <<part, restVars, agentVars, flowVars, spiderVars, gatherVars>>
AsFlow(A) ==
    part = "flow" /\ A /\ UNCHANGED <<part, restVars, agentVars, skillVars, spiderVars, gatherVars>>
AsSpider(A) ==
    part = "spider" /\ A /\ UNCHANGED <<part, restVars, agentVars, skillVars, flowVars, gatherVars>>
AsGather(A) ==
    part = "gather" /\ A /\ UNCHANGED <<part, restVars, agentVars, skillVars, flowVars, spiderVars>>

SdkNext ==
    \/ AsRetry(Next) \/ AsWalk(WalkNext)
    \/ AsServing(ServingNext) \/ AsRun(AgentRunNext) \/ AsRequests(RequestsNext)
    \/ AsSkills(SkillsNext) \/ AsFlow(FlowNext) \/ AsSpider(SpiderNext) \/ AsGather(GatherNext)

\* RetryFairness, ServingFairness, AgentRunFairness and RequestsFairness, each of its
\* own part.
SdkFairness ==
    /\ WF_sdkVars(AsRetry(LoopStep)) /\ WF_sdkVars(AsRetry(AttemptAborted))
    /\ WF_sdkVars(AsRetry(SignalPropagates))
    /\ \A r \in Runs : WF_sdkVars(AsServing(RunStep(r))) /\ WF_sdkVars(AsServing(WatcherStep(r)))
    /\ \A s \in Stops : WF_sdkVars(AsServing(StopStep(s)))
    /\ \A q \in Requests : WF_sdkVars(AsServing(RequestAnswered(q)))
    /\ \A r \in Serves : /\ WF_sdkVars(AsRun(ServeStep(r)))
                         /\ WF_sdkVars(AsRun(WatcherCloses(r) \/ WatcherLeaves(r)))
                         /\ WF_sdkVars(AsRun(ReaperStops(r)))
    /\ \A h \in Handlers : WF_sdkVars(AsRun(HandlerCloses(h)))
    /\ \A c \in Calls : WF_sdkVars(AsRequests(CallStep(c)))
    /\ \A s \in Setters : WF_sdkVars(AsRequests(SetterStep(s)))

SdkSpec == SdkInit /\ [][SdkNext]_sdkVars /\ SdkFairness

\* The variables of all parts hold what the code's fields can hold.
SdkTypesOK ==
    /\ TypeOK /\ WalkTypeOK
    /\ ServingTypeOK /\ AgentRunTypeOK /\ RequestsTypeOK
    /\ SkillsTypeOK /\ FlowTypeOK /\ SpiderTypeOK /\ GatherTypeOK
=============================================================================
