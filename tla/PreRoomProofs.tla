---------------------------- MODULE PreRoomProofs ----------------------------
(***************************************************************************)
(* Theorems of PreRoomPlanning: consent, refusals, readiness, questions    *)
(* and cast, for every environment, request, question and bound.           *)
(***************************************************************************)
EXTENDS PreRoomPlanning, ListingProofs

-----------------------------------------------------------------------------
(* The inductive invariant.                                                *)

\* A request in the works has no answer yet and is one that is served.
InTheWorks ==
    /\ stage \in {"idle", "briefing", "casting", "contract"}
    /\ stage # "idle" => reply = NoReply /\ Served(request)
    /\ stage = "briefing" => fault = NoFault

HasBrief == stage \in {"casting", "contract"} \/ Planned

\* The brief is the stub exactly after a fault, and each planner was there
\* when it made its brief.
BriefExplained ==
    HasBrief =>
        /\ brief.source = "fallback" <=> fault # NoFault
        /\ brief.source = "fallback" => request.allow /\ FallbackPlannerReady
        /\ brief.source # "fallback" => PrimaryPlannerReady

\* Which requests are refused or crash, and what by.
ClosedDoors ==
    /\ reply.status = "refused" =>
          ~(Served(request) /\ request.allow /\ FallbackPlannerReady)
    /\ reply.status = "crashed" => ~Served(request) \/ reply.by = "malformed"

\* The answer is made of the brief and the environment it is given with.
AnswerExplained ==
    Planned =>
        /\ reply.contract = BuildRoomStartContract(brief.questions, Readiness,
                                                   OperatorContext, request.allow)
        /\ reply.runtime_context = PlanningRuntimeContext(Readiness)
        /\ reply.operator_context = OperatorContext

IInv == InTheWorks /\ BriefExplained /\ ClosedDoors /\ AnswerExplained

-----------------------------------------------------------------------------
(* The steps.                                                              *)

\* An exchange with a provider that yields no text is an error the role
\* planner answers with keywords, or a body that is no completion.
LEMMA ExchangeOutcomes ==
    \A t \in DOMAIN Generate : Generate[t] \in RolePlannerCatches \cup {"malformed", "text"}
BY DEF Generate, RolePlannerCatches, Transient

\* What the environment tells stays while the environment does.
LEMMA ReadinessStays ==
    ASSUME UNCHANGED env
    PROVE  /\ Readiness' = Readiness
           /\ PrimaryPlannerReady' = PrimaryPlannerReady
           /\ FallbackPlannerReady' = FallbackPlannerReady
<1>1. /\ PrimaryPlannerReady' = PrimaryPlannerReady
      /\ FallbackPlannerReady' = FallbackPlannerReady
      /\ ExecutorReady' = ExecutorReady
    BY DEF PrimaryPlannerReady, FallbackPlannerReady, ExecutorReady
<1>2. ExecutorTargets' = ExecutorTargets /\ Guardrails' = Guardrails
    BY DEF ExecutorTargets, Guardrails
<1> QED BY <1>1, <1>2 DEF Readiness

\* The process starts idle, with a blank request.
LEMMA StartInvariant == Init => IInv
<1> SUFFICES ASSUME Init PROVE IInv
    OBVIOUS
<1>1. stage = "idle" /\ reply.status = "none"
    BY DEF Init, NoReply
<1> QED
    BY <1>1 DEF IInv, InTheWorks, BriefExplained, ClosedDoors, AnswerExplained,
       HasBrief, Planned

\* A request that arrives is refused, crashes, or is served.
LEMMA ReceiveKeeps ==
    ASSUME IInv, NEW r \in Requests, Receive(r)
    PROVE  IInv'
<1>1. request' = r /\ fault' = NoFault /\ env' = env /\ stage = "idle"
    BY DEF Receive
<1>2. CASE r.scope = "unsupported"
    <2>1. stage' = "idle" /\ reply' = [status |-> "crashed", by |-> "scope"]
        BY <1>2 DEF Receive
    <2>2. ~Served(r)
        BY <1>2 DEF Served
    <2> QED
        BY <1>1, <2>1, <2>2 DEF IInv, InTheWorks, BriefExplained, ClosedDoors,
           AnswerExplained, HasBrief, Planned, Served
<1>3. CASE r.scope # "unsupported" /\ r.blank
    <2>1. stage' = "idle" /\ reply'.status = "refused"
        BY <1>3 DEF Receive
    <2>2. ~Served(r)
        BY <1>3 DEF Served
    <2> QED
        BY <1>1, <2>1, <2>2 DEF IInv, InTheWorks, BriefExplained, ClosedDoors,
           AnswerExplained, HasBrief, Planned, Served
<1>4. CASE r.scope # "unsupported" /\ ~r.blank
    <2>1. stage' = "briefing" /\ reply' = NoReply
        BY <1>4 DEF Receive
    <2>2. Served(r)
        BY <1>4 DEF Served
    <2> QED
        BY <1>1, <2>1, <2>2 DEF IInv, InTheWorks, BriefExplained, ClosedDoors,
           AnswerExplained, HasBrief, Planned, Served, NoReply
<1> QED BY <1>2, <1>3, <1>4

\* What is left of a failure of the primary planner: the stub, if the
\* operator agreed, there is a fallback and the failure offers it.
LEMMA FailureKeeps ==
    ASSUME IInv, stage = "briefing", UNCHANGED <<env, request, roster>>,
           NEW f, f # NoFault, f.offered = TRUE \/ f.offered = FallbackPlannerReady,
           PrimaryFails(f)
    PROVE  IInv'
<1>1. reply = NoReply /\ Served(request) /\ fault' = f
    BY DEF IInv, InTheWorks, PrimaryFails
<1>2. CASE UsesFallback(f)
    <2>1. stage' = "casting" /\ reply' = NoReply
        BY <1>1, <1>2 DEF PrimaryFails
    <2>2. brief'.source = "fallback"
        BY <1>2 DEF PrimaryFails, Stub
    <2>3. request.allow /\ FallbackPlannerReady
        BY <1>2 DEF UsesFallback
    <2> QED
        BY <1>1, <2>1, <2>2, <2>3 DEF IInv, InTheWorks, BriefExplained, ClosedDoors,
           AnswerExplained, HasBrief, Planned, Served, NoReply, FallbackPlannerReady
<1>3. CASE ~UsesFallback(f)
    <2>1. stage' = "idle" /\ reply'.status = "refused"
        BY <1>3 DEF PrimaryFails
    <2>2. ~(request.allow /\ FallbackPlannerReady)
        BY <1>3 DEF UsesFallback
    <2> QED
        BY <1>1, <2>1, <2>2 DEF IInv, InTheWorks, BriefExplained, ClosedDoors,
           AnswerExplained, HasBrief, Planned, Served, FallbackPlannerReady
<1> QED BY <1>2, <1>3

\* The brief is the primary planner's, or comes from one of its failures.
LEMMA PlanRequirementKeeps ==
    ASSUME IInv, PlanRequirement
    PROVE  IInv'
<1>1. stage = "briefing" /\ UNCHANGED <<env, request, roster>>
    BY DEF PlanRequirement
<1>2. \A error, offered : error # "none" => Fault(error, offered) # NoFault
    BY DEF Fault, NoFault
<1>3. ASSUME NEW f, f # NoFault, f.offered = TRUE \/ f.offered = FallbackPlannerReady,
             PrimaryFails(f)
      PROVE  IInv'
    BY <1>1, <1>3, FailureKeeps
<1>4. \A error, offered : Fault(error, offered).offered = offered
    BY DEF Fault
<1>5. CASE ~PrimaryPlannerReady
    <2>1. PrimaryFails(Fault("planner_unavailable", FallbackPlannerReady))
        BY <1>5 DEF PlanRequirement
    <2> QED BY <1>2, <1>3, <1>4, <2>1
<1>6. CASE PrimaryFails(Fault("planner_timeout", TRUE))
    BY <1>2, <1>3, <1>4, <1>6
<1>7. CASE PrimaryFails(Fault("planner_upstream_error", TRUE))
    BY <1>2, <1>3, <1>4, <1>7
<1>8. CASE PrimaryFails(Fault("planner_invalid_schema", TRUE))
    BY <1>2, <1>3, <1>4, <1>8
<1>9. CASE PrimaryFails(Fault("planner_failure", FallbackPlannerReady))
    BY <1>2, <1>3, <1>4, <1>9
<1>10. ASSUME PrimaryPlannerReady, NEW b \in Briefs, b.source = "agent", brief' = b,
              stage' = "casting", UNCHANGED <<fault, reply>>
       PROVE  IInv'
    <2>1. reply = NoReply /\ Served(request) /\ fault = NoFault
        BY <1>1 DEF IInv, InTheWorks
    <2> QED
        BY <1>1, <1>10, <2>1 DEF IInv, InTheWorks, BriefExplained, ClosedDoors,
           AnswerExplained, HasBrief, Planned, Served, NoReply, PrimaryPlannerReady
<1> QED
    BY <1>5, <1>6, <1>7, <1>8, <1>9, <1>10 DEF PlanRequirement

\* Casting changes neither the brief nor what it rests on.
LEMMA PlanRolesKeeps ==
    ASSUME IInv, PlanRoles
    PROVE  IInv'
<1>1. stage = "casting" /\ reply = NoReply /\ Served(request) /\ HasBrief
      /\ UNCHANGED <<env, request, brief, fault>>
    BY DEF PlanRoles, IInv, InTheWorks, HasBrief
<1>2. ASSUME NEW cast, Cast(cast)
      PROVE  IInv'
    <2>1. stage' = "contract" /\ reply' = NoReply
        BY <1>1, <1>2 DEF Cast
    <2> QED
        BY <1>1, <2>1 DEF IInv, InTheWorks, BriefExplained, ClosedDoors,
           AnswerExplained, HasBrief, Planned, Served, NoReply,
           FallbackPlannerReady, PrimaryPlannerReady
<1>3. ASSUME NEW t \in DOMAIN Generate, Generate[t] \notin RolePlannerCatches \cup {"text"},
             stage' = "idle", reply' = [status |-> "crashed", by |-> Generate[t]]
      PROVE  IInv'
    <2>1. Generate[t] = "malformed"
        BY <1>3, ExchangeOutcomes
    <2> QED
        BY <1>1, <1>3, <2>1 DEF IInv, InTheWorks, BriefExplained, ClosedDoors,
           AnswerExplained, HasBrief, Planned, Served
<1> QED BY <1>2, <1>3 DEF PlanRoles

\* The answer is computed from the brief, which stays.
LEMMA ConcludeKeeps ==
    ASSUME IInv, Conclude
    PROVE  IInv'
<1>1. UNCHANGED <<env, request, brief, fault, roster>> /\ stage' = "idle" /\ HasBrief
    BY DEF Conclude, HasBrief
<1>2. reply'.status \in {"room", "report"}
    BY DEF Conclude
<1>3. /\ reply'.contract = BuildRoomStartContract(brief.questions, Readiness,
                                                  OperatorContext, request.allow)
      /\ reply'.runtime_context = PlanningRuntimeContext(Readiness)
      /\ reply'.operator_context = OperatorContext
    BY DEF Conclude
<1>4. /\ Readiness' = Readiness /\ OperatorContext' = OperatorContext
      /\ PrimaryPlannerReady' = PrimaryPlannerReady
      /\ FallbackPlannerReady' = FallbackPlannerReady
    BY <1>1, ReadinessStays DEF OperatorContext
<1>5. BriefExplained'
    BY <1>1, <1>4 DEF IInv, BriefExplained
<1>6. AnswerExplained'
    BY <1>1, <1>3, <1>4 DEF AnswerExplained
<1> QED
    BY <1>1, <1>2, <1>5, <1>6 DEF IInv, InTheWorks, ClosedDoors

\* No step breaks the invariant.
LEMMA StepInvariant == IInv /\ [Next]_vars => IInv'
<1> SUFFICES ASSUME IInv, [Next]_vars PROVE IInv'
    OBVIOUS
<1>1. CASE Next
    BY <1>1, ReceiveKeeps, PlanRequirementKeeps, PlanRolesKeeps, ConcludeKeeps DEF Next
<1>2. CASE UNCHANGED vars
    <2>1. UNCHANGED <<env, request, stage, brief, fault, reply>>
        BY <1>2 DEF vars
    <2>2. /\ Readiness' = Readiness /\ OperatorContext' = OperatorContext
          /\ PrimaryPlannerReady' = PrimaryPlannerReady
          /\ FallbackPlannerReady' = FallbackPlannerReady
        BY <2>1, ReadinessStays DEF OperatorContext
    <2> QED
        BY <2>1, <2>2 DEF IInv, InTheWorks, BriefExplained, ClosedDoors, AnswerExplained,
           HasBrief, Planned, Served
<1> QED BY <1>1, <1>2

\* The invariant of every behaviour.
LEMMA Invariance == Spec => []IInv
BY StartInvariant, StepInvariant, PTL DEF Spec

-----------------------------------------------------------------------------
(* The theorems.                                                           *)

\* A brief is the diagnostic stub only with the operator's consent, and after
\* a failure of the primary planner (RequirementPlanningService).
THEOREM StubNeedsConsent == Spec => []StubOnlyWithConsent
<1>1. IInv => StubOnlyWithConsent
    BY DEF IInv, BriefExplained, HasBrief, StubOnlyWithConsent
<1> QED BY <1>1, Invariance, PTL

\* With consent and a fallback planner, only an answer to the role planner
\* that is no completion keeps a sensible request from its plan.
THEOREM DoorsStayOpen == Spec => []OnlyABadAnswerCloses
<1>1. IInv => OnlyABadAnswerCloses
    BY DEF IInv, ClosedDoors, OnlyABadAnswerCloses
<1> QED BY <1>1, Invariance, PTL

\* A contract never blames the planner of its own plan: the room may start
\* exactly if the executor is ready (_runtime_readiness_prerequisites).
THEOREM ExecutorAloneBlocks == Spec => []OnlyTheExecutorBlocks
<1>1. ASSUME IInv, Planned PROVE OnlyTheExecutorBlocks
    <2> DEFINE blockers == SystemBlockers(Readiness, request.allow)
    <2>0. reply.contract = BuildRoomStartContract(brief.questions, Readiness,
                                                  OperatorContext, request.allow)
        BY <1>1 DEF IInv, AnswerExplained
    <2>1. /\ reply.contract.system_blockers = blockers
          /\ reply.contract.room_start_ready = (blockers = {})
        BY <2>0 DEF BuildRoomStartContract
    <2>2. PrimaryPlannerReady \/ (request.allow /\ FallbackPlannerReady)
        BY <1>1 DEF IInv, BriefExplained, HasBrief
    <2>3. "planner" \notin blockers
        BY <2>2 DEF SystemBlockers, Readiness
    <2>4. "executor" \in blockers <=> ~ExecutorReady
        BY DEF SystemBlockers, Readiness
    <2>5. blockers \subseteq {"planner", "executor"}
        BY DEF SystemBlockers
    <2>6. blockers = {} <=> ExecutorReady
        BY <2>3, <2>4, <2>5
    <2> HIDE DEF blockers
    <2> QED BY <2>1, <2>3, <2>6 DEF OnlyTheExecutorBlocks
<1>2. IInv => OnlyTheExecutorBlocks
    BY <1>1 DEF OnlyTheExecutorBlocks
<1> QED BY <1>2, Invariance, PTL

-----------------------------------------------------------------------------
(* What the context keeps of the readiness.                                *)

\* A normalized identity tells the supplier and the model as the raw one does.
LEMMA NormalizedTells ==
    ASSUME NEW target, NEW f \in IdentityFields
    PROVE  Text(NormalizeTargetIdentity(target), f) = Text(target, f)
<1> DEFINE kept == {g \in DOMAIN target \cap IdentityFields : target[g] # {}}
           normalized == [g \in kept |-> target[g]]
<1>1. NormalizeTargetIdentity(target) = normalized
    BY DEF NormalizeTargetIdentity
<1>2. DOMAIN normalized = kept
    OBVIOUS
<1>3. CASE f \in kept
    <2>1. normalized[f] = target[f] /\ f \in DOMAIN target
        BY <1>3
    <2> QED BY <1>1, <1>2, <1>3, <2>1 DEF Text, GetOr
<1>4. CASE f \notin kept
    <2>1. f \in DOMAIN target => target[f] = {}
        BY <1>4
    <2> HIDE DEF kept, normalized
    <2> QED BY <1>1, <1>2, <1>4, <2>1 DEF Text, GetOr
<1> QED BY <1>3, <1>4

\* What has no field left tells nothing.
LEMMA NothingLeft ==
    ASSUME NEW target, DOMAIN NormalizeTargetIdentity(target) = {}, NEW f \in IdentityFields
    PROVE  Text(target, f) = {} /\ Text(EmptyDict, f) = {}
<1>1. Text(NormalizeTargetIdentity(target), f) = {}
    BY DEF Text, GetOr
<1>2. DOMAIN EmptyDict = {}
    BY DEF EmptyDict
<1> QED BY <1>1, <1>2, NormalizedTells DEF Text, GetOr

\* The keys of the context and what is under them.
LEMMA ContextKeys ==
    ASSUME NEW readiness
    PROVE  LET context == PlanningRuntimeContext(readiness)
               planner == NormalizeTargetIdentity(readiness.planner_target)
               executors == NormalizedTargets(readiness.executor_targets)
           IN /\ PlannerTarget(context) = IF DOMAIN planner # {} THEN planner ELSE EmptyDict
              /\ GetOr(context, "executor_targets", EmptyDict)
                    = IF DOMAIN executors # {} THEN executors ELSE EmptyDict
              /\ GetOr(context, "executor_guardrails", {}) = readiness.executor_guardrails
<1> DEFINE planner == NormalizeTargetIdentity(readiness.planner_target)
           executors == NormalizedTargets(readiness.executor_targets)
           kept == {mode \in {"planner_mode", "executor_mode"} : readiness[mode] # {}}
                   \cup (IF DOMAIN planner # {} THEN {"planner_target"} ELSE {})
                   \cup (IF DOMAIN executors # {} THEN {"executor_targets"} ELSE {})
                   \cup {"executor_guardrails"}
           context == [key \in kept |-> CASE key = "planner_target" -> planner
                                          [] key = "executor_targets" -> executors
                                          [] OTHER -> readiness[key]]
<1>1. PlanningRuntimeContext(readiness) = context
    BY DEF PlanningRuntimeContext
<1> HIDE DEF planner, executors
<1>2. /\ "planner_target" \in kept <=> DOMAIN planner # {}
      /\ "executor_targets" \in kept <=> DOMAIN executors # {}
      /\ "executor_guardrails" \in kept
    OBVIOUS
<1> HIDE DEF kept
<1>3. DOMAIN context = kept
    OBVIOUS
<1>4. "planner_target" \in kept => context["planner_target"] = planner
    OBVIOUS
<1>5. "executor_targets" \in kept => context["executor_targets"] = executors
    OBVIOUS
<1>6. context["executor_guardrails"] = readiness["executor_guardrails"]
    BY <1>2
<1> HIDE DEF context
<1>7. PlannerTarget(context) = IF DOMAIN planner # {} THEN planner ELSE EmptyDict
    BY <1>2, <1>3, <1>4 DEF PlannerTarget, GetOr
<1>8. GetOr(context, "executor_targets", EmptyDict)
        = IF DOMAIN executors # {} THEN executors ELSE EmptyDict
    BY <1>2, <1>3, <1>5 DEF GetOr
<1>9. GetOr(context, "executor_guardrails", {}) = readiness["executor_guardrails"]
    BY <1>2, <1>3, <1>6 DEF GetOr
<1> QED BY <1>1, <1>7, <1>8, <1>9 DEF planner, executors

\* Of the executor's targets the context keeps the default one, if it tells
\* anything.
LEMMA DefaultKept ==
    ASSUME NEW targets, NEW f \in IdentityFields
    PROVE  LET executors == NormalizedTargets(targets)
               left == IF DOMAIN executors # {} THEN executors ELSE EmptyDict
           IN Text(GetOr(left, "default", EmptyDict), f)
                 = Text(GetOr(targets, "default", EmptyDict), f)
<1> DEFINE executors == NormalizedTargets(targets)
           left == IF DOMAIN executors # {} THEN executors ELSE EmptyDict
           default == targets["default"]
           normalized == [tier \in DOMAIN targets |-> NormalizeTargetIdentity(targets[tier])]
           kept == {t \in DOMAIN targets : DOMAIN normalized[t] # {}}
<1>1. executors = [tier \in kept |-> normalized[tier]]
    BY DEF NormalizedTargets
<1>2. "default" \in DOMAIN targets => normalized["default"] = NormalizeTargetIdentity(default)
    OBVIOUS
<1>3. "default" \in kept
        <=> "default" \in DOMAIN targets /\ DOMAIN NormalizeTargetIdentity(default) # {}
    BY <1>2
<1> HIDE DEF kept, normalized
<1>4. DOMAIN executors = kept /\ ("default" \in kept => executors["default"] = normalized["default"])
    BY <1>1
<1>5. DOMAIN EmptyDict = {}
    BY DEF EmptyDict
<1> HIDE DEF executors, default
<1>6. GetOr(left, "default", EmptyDict)
        = IF "default" \in kept THEN normalized["default"] ELSE EmptyDict
    BY <1>4, <1>5 DEF GetOr
<1> HIDE DEF left
<1>7. CASE "default" \in kept
    <2>1. GetOr(left, "default", EmptyDict) = NormalizeTargetIdentity(default)
        BY <1>2, <1>3, <1>6, <1>7
    <2>2. GetOr(targets, "default", EmptyDict) = default
        BY <1>3, <1>7 DEF GetOr, default
    <2>3. Text(NormalizeTargetIdentity(default), f) = Text(default, f)
        BY NormalizedTells
    <2> QED BY <2>1, <2>2, <2>3 DEF left, executors
<1>8. CASE "default" \notin kept
    <2>1. GetOr(left, "default", EmptyDict) = EmptyDict
        BY <1>6, <1>8
    <2>2. CASE "default" \notin DOMAIN targets
        <3>1. GetOr(targets, "default", EmptyDict) = EmptyDict
            BY <2>2 DEF GetOr
        <3> QED BY <2>1, <3>1 DEF left, executors
    <2>3. CASE "default" \in DOMAIN targets
        <3>1. GetOr(targets, "default", EmptyDict) = default
            BY <2>3 DEF GetOr, default
        <3>2. DOMAIN NormalizeTargetIdentity(default) = {}
            BY <1>3, <1>8, <2>3
        <3>3. Text(default, f) = {} /\ Text(EmptyDict, f) = {}
            BY <3>2, NothingLeft
        <3> QED BY <2>1, <3>1, <3>3 DEF left, executors
    <2> QED BY <2>2, <2>3
<1> QED BY <1>7, <1>8

\* The context gives the same evidence as the readiness it was kept of.
LEMMA SameEvidence ==
    ASSUME NEW operator
    PROVE  Evidence(PlanningRuntimeContext(Readiness), operator) = Evidence(Readiness, operator)
<1> DEFINE context == PlanningRuntimeContext(Readiness)
           planner == NormalizeTargetIdentity(Readiness.planner_target)
<1>1. /\ PlannerTarget(Readiness) = Readiness.planner_target
      /\ GetOr(Readiness, "executor_targets", EmptyDict) = Readiness.executor_targets
      /\ GetOr(Readiness, "executor_guardrails", {}) = Readiness.executor_guardrails
    BY DEF Readiness, PlannerTarget, GetOr
<1>2. ASSUME NEW f \in IdentityFields
      PROVE  Text(PlannerTarget(context), f) = Text(PlannerTarget(Readiness), f)
    <2>1. PlannerTarget(context) = IF DOMAIN planner # {} THEN planner ELSE EmptyDict
        BY ContextKeys
    <2>2. Text(planner, f) = Text(Readiness.planner_target, f)
        BY NormalizedTells
    <2>3. DOMAIN planner = {}
            => Text(Readiness.planner_target, f) = {} /\ Text(EmptyDict, f) = {}
        BY NothingLeft
    <2> HIDE DEF planner, context
    <2> QED BY <1>1, <2>1, <2>2, <2>3
<1>3. ASSUME NEW f \in IdentityFields
      PROVE  Text(DefaultExecutor(context), f) = Text(DefaultExecutor(Readiness), f)
    <2> DEFINE executors == NormalizedTargets(Readiness.executor_targets)
               left == IF DOMAIN executors # {} THEN executors ELSE EmptyDict
    <2>1. GetOr(context, "executor_targets", EmptyDict) = left
        BY ContextKeys
    <2>2. Text(GetOr(left, "default", EmptyDict), f)
            = Text(GetOr(Readiness.executor_targets, "default", EmptyDict), f)
        BY DefaultKept
    <2> HIDE DEF left, context
    <2> QED BY <1>1, <2>1, <2>2 DEF DefaultExecutor
<1>4. GetOr(context, "executor_guardrails", {}) = GetOr(Readiness, "executor_guardrails", {})
    BY <1>1, ContextKeys
<1> HIDE DEF context
<1>5. "supplier" \in IdentityFields /\ "model" \in IdentityFields
    BY DEF IdentityFields
<1>6. /\ TargetIdentityKnown(PlannerTarget(context))
            <=> TargetIdentityKnown(PlannerTarget(Readiness))
      /\ TargetIdentityKnown(DefaultExecutor(context))
            <=> TargetIdentityKnown(DefaultExecutor(Readiness))
      /\ GuardrailsKnown(context) <=> GuardrailsKnown(Readiness)
    BY <1>2, <1>3, <1>4 DEF TargetIdentityKnown, GuardrailsKnown
<1>7. /\ Named(PlannerTarget(context)) = Named(PlannerTarget(Readiness))
      /\ Named(DefaultExecutor(context)) = Named(DefaultExecutor(Readiness))
    BY <1>2, <1>3, <1>5 DEF Named
<1>8. RuntimeEvidence(context) = RuntimeEvidence(Readiness)
    BY <1>6, <1>7 DEF RuntimeEvidence, PlannerEvidence, ExecutorEvidence
<1>9. KnownContext(context, operator) = KnownContext(Readiness, operator)
    BY <1>6 DEF KnownContext, ProviderIdentityKnown
<1> QED BY <1>8, <1>9 DEF Evidence, context

\* The meeting, which filters the questions again by the context that was
\* kept field by field (_planning_runtime_context), and the contract, made from
\* the readiness itself, find the same questions open, whatever the words.
THEOREM SameQuestionsOpen == Spec => []MeetingAgreesOnQuestions
<1>1. ASSUME IInv, Planned PROVE MeetingAgreesOnQuestions
    <2> DEFINE context == PlanningRuntimeContext(Readiness)
    <2>1. reply.contract.contextual_open_questions
            = Unanswered(brief.questions, Readiness, OperatorContext)
        BY <1>1 DEF IInv, AnswerExplained, BuildRoomStartContract
    <2>2. reply.runtime_context = context /\ reply.operator_context = OperatorContext
        BY <1>1 DEF IInv, AnswerExplained
    <2>3. Evidence(context, OperatorContext) = Evidence(Readiness, OperatorContext)
        BY SameEvidence
    <2> HIDE DEF context
    <2>4. Unanswered(brief.questions, context, OperatorContext)
            = Unanswered(brief.questions, Readiness, OperatorContext)
        BY <2>3 DEF Unanswered, AnsweredByContext
    <2> QED BY <2>1, <2>2, <2>4 DEF MeetingAgreesOnQuestions
<1>2. IInv => MeetingAgreesOnQuestions
    BY <1>1 DEF MeetingAgreesOnQuestions
<1> QED BY <1>2, Invariance, PTL

-----------------------------------------------------------------------------
(* Keywords.                                                               *)

\* The smaller of two numbers.
LEMMA SmallerOfTwo ==
    ASSUME NEW m \in Int, NEW n \in Int
    PROVE  Min({m, n}) = IF m <= n THEN m ELSE n
<1>1. \E x \in {m, n} : \A y \in {m, n} : x <= y
    BY DEF Min
<1>2. /\ Min({m, n}) \in {m, n}
      /\ \A y \in {m, n} : Min({m, n}) <= y
    BY <1>1, Zenon DEF Min
<1> QED BY <1>2

\* The catalog has four roles.
LEMMA FourRoles ==
    /\ Roles = {"implementation", "risk", "product", "operations"}
    /\ IsFiniteSet(Roles)
<1>1. Roles = {Catalog[i] : i \in 1..4}
    BY DEF Roles, ToSet, Catalog
<1>2. Catalog[1] = "implementation" /\ Catalog[2] = "risk" /\ Catalog[3] = "product"
      /\ Catalog[4] = "operations"
    BY DEF Catalog
<1>3. \A i : i \in 1..4 <=> i = 1 \/ i = 2 \/ i = 3 \/ i = 4
    OBVIOUS
<1>4. Roles = {"implementation", "risk", "product", "operations"}
    BY <1>1, <1>2, <1>3
<1>5. IsFiniteSet({"implementation"})
    BY FS_Singleton
<1>6. IsFiniteSet({"implementation"} \cup {"risk"})
    BY <1>5, FS_AddElement
<1>7. IsFiniteSet(({"implementation"} \cup {"risk"}) \cup {"product"})
    BY <1>6, FS_AddElement
<1>8. IsFiniteSet((({"implementation"} \cup {"risk"}) \cup {"product"}) \cup {"operations"})
    BY <1>7, FS_AddElement
<1>9. Roles = (({"implementation"} \cup {"risk"}) \cup {"product"}) \cup {"operations"}
    BY <1>4
<1> QED BY <1>4, <1>8, <1>9, Zenon

\* Each has a place of its own in it.
LEMMA PlaceInCatalog ==
    ASSUME NEW r \in Roles
    PROVE  Index(r) \in 1..4 /\ Catalog[Index(r)] = r
<1>1. DOMAIN Catalog = 1..4
    BY DEF Catalog
<1>2. \E i \in DOMAIN Catalog : Catalog[i] = r
    BY DEF Roles, ToSet
<1>3. Index(r) \in DOMAIN Catalog /\ Catalog[Index(r)] = r
    BY <1>2, Zenon DEF Index
<1> QED BY <1>1, <1>3

\* A brief has room for up to three of the system's constraints.
LEMMA ConstraintsKept ==
    ASSUME NEW b \in Briefs
    PROVE  SystemConstraintsKept(b) \in 0..3
<1>1. b.own \in 1..6
    BY BriefAssumption DEF Briefs
<1>2. 6 - b.own \in 0..5
    BY <1>1
<1> DEFINE k == 6 - b.own
<1>3. 3 \in Int /\ k \in Int
    BY <1>2
<1> HIDE DEF k
<1>4. Min({3, k}) = IF 3 <= k THEN 3 ELSE k
    BY <1>3, SmallerOfTwo, Zenon
<1>5. SystemConstraintsKept(b) = Min({3, k})
    BY DEF SystemConstraintsKept, k
<1>6. k \in 0..5
    BY <1>2 DEF k
<1> QED BY <1>4, <1>5, <1>6

\* A score is a number of keywords.
LEMMA ScoreIsANumber ==
    ASSUME NEW b \in Briefs, NEW role \in Roles
    PROVE  Score(b, role) \in Nat
<1>1. b.said[role] \in Nat
    BY BriefAssumption DEF Briefs
<1>2. SystemConstraintsKept(b) \in 0..3
    BY ConstraintsKept
<1>3. SystemKeywords[role] \in Seq(Nat) /\ Len(SystemKeywords[role]) = 3
    <2>1. CASE role = "implementation"
        BY <2>1 DEF SystemKeywords
    <2>2. CASE role = "risk"
        BY <2>2 DEF SystemKeywords
    <2>3. CASE role = "product"
        BY <2>3 DEF SystemKeywords
    <2>4. CASE role = "operations"
        BY <2>4 DEF SystemKeywords
    <2> QED BY <2>1, <2>2, <2>3, <2>4, FourRoles
<1> DEFINE k == SystemConstraintsKept(b)
<1> HIDE DEF k
<1>4. k # 0 => SystemKeywords[role][k] \in Nat
    <2>1. k # 0 => k \in 1..3
        BY <1>2 DEF k
    <2>2. DOMAIN SystemKeywords[role] = 1..3
        BY <1>3
    <2> QED BY <1>3, <2>1, <2>2
<1>5. Score(b, role) = b.said[role] + IF k = 0 THEN 0 ELSE SystemKeywords[role][k]
    BY DEF Score, k
<1> QED BY <1>1, <1>4, <1>5

\* Roles are ranked by a strict total order.
LEMMA AboveIsTotal ==
    ASSUME NEW b \in Briefs, NEW S \in SUBSET Roles
    PROVE  StrictTotal(S, Above(b))
<1> DEFINE f == [r \in S |-> Score(b, r)]
           g == [r \in S |-> Index(r)]
<1>1. \A r \in S : f[r] \in Nat /\ f[r] = Score(b, r)
    BY ScoreIsANumber
<1>2. \A r \in S : g[r] \in Nat /\ g[r] = Index(r) /\ Catalog[g[r]] = r
    BY PlaceInCatalog
<1> HIDE DEF f, g
<1>3. \A r, s \in S : <<r, s>> \in Above(b) <=> f[r] > f[s] \/ (f[r] = f[s] /\ g[r] < g[s])
    <2> SUFFICES ASSUME NEW r \in S, NEW s \in S
                 PROVE  <<r, s>> \in Above(b) <=>
                            f[r] > f[s] \/ (f[r] = f[s] /\ g[r] < g[s])
        OBVIOUS
    <2>1. <<r, s>> \in Above(b) <=>
              \/ Score(b, r) > Score(b, s)
              \/ (Score(b, r) = Score(b, s) /\ Index(r) < Index(s))
        BY DEF Above
    <2>2. f[r] = Score(b, r) /\ f[s] = Score(b, s) /\ g[r] = Index(r) /\ g[s] = Index(s)
        BY <1>1, <1>2
    <2> QED BY <2>1, <2>2
<1>4. \A r, s \in S : r # s => g[r] # g[s]
    BY <1>2
<1>5. \A r \in S : ~(f[r] > f[r] \/ (f[r] = f[r] /\ g[r] < g[r]))
    BY <1>1, <1>2
<1>6. \A r, s \in S : r # s => \/ f[r] > f[s] \/ (f[r] = f[s] /\ g[r] < g[s])
                               \/ f[s] > f[r] \/ (f[s] = f[r] /\ g[s] < g[r])
    BY <1>1, <1>2, <1>4
<1>7. \A r, s, t \in S : /\ f[r] > f[s] \/ (f[r] = f[s] /\ g[r] < g[s])
                         /\ f[s] > f[t] \/ (f[s] = f[t] /\ g[s] < g[t])
                         => f[r] > f[t] \/ (f[r] = f[t] /\ g[r] < g[t])
    BY <1>1, <1>2
<1> QED BY <1>3, <1>5, <1>6, <1>7 DEF StrictTotal

-----------------------------------------------------------------------------
(* Casts.                                                                  *)

\* Up to n specialists of the catalog, none twice, and at least one.
Seated(cast, n) == cast \in Seq(Roles) /\ Len(cast) \in 1..n /\ Once(cast)

\* The beginning of a cast.
LEMMA FirstSeats ==
    ASSUME NEW cast \in Seq(Roles), Once(cast), NEW n \in Nat
    PROVE  LET first == SubSeq(cast, 1, Min({n, Len(cast)}))
           IN  /\ first \in Seq(Roles) /\ Once(first)
               /\ Len(first) = Min({n, Len(cast)})
               /\ \A i \in DOMAIN first : i \in DOMAIN cast /\ first[i] = cast[i]
<1> DEFINE m == Min({n, Len(cast)})
           first == SubSeq(cast, 1, m)
<1>1. m \in Nat /\ m <= Len(cast) /\ Len(cast) \in Nat
    <2>1. n \in Int /\ Len(cast) \in Int /\ Len(cast) \in Nat
        OBVIOUS
    <2>2. m = IF n <= Len(cast) THEN n ELSE Len(cast)
        BY <2>1, SmallerOfTwo, Zenon
    <2> HIDE DEF m
    <2> QED BY <2>1, <2>2
<1> HIDE DEF m
<1>2. first \in Seq(Roles) /\ Len(first) = m /\ DOMAIN first = 1..m
    BY <1>1
<1>3. \A i \in 1..m : i \in DOMAIN cast /\ first[i] = cast[i]
    BY <1>1
<1> HIDE DEF first
<1>4. Once(first)
    BY <1>2, <1>3 DEF Once
<1> QED BY <1>2, <1>3, <1>4 DEF m, first

\* Another role takes the last seat.
LEMMA OneMoreSeat ==
    ASSUME NEW cast \in Seq(Roles), Once(cast), NEW role \in Roles,
           \A i \in DOMAIN cast : cast[i] # role
    PROVE  /\ Append(cast, role) \in Seq(Roles)
           /\ Once(Append(cast, role))
           /\ Len(Append(cast, role)) = Len(cast) + 1
           /\ \A i \in DOMAIN cast : Append(cast, role)[i] = cast[i]
           /\ Append(cast, role)[Len(cast) + 1] = role
<1> DEFINE n == Len(cast)
           more == Append(cast, role)
<1>1. n \in Nat /\ DOMAIN cast = 1..n
    OBVIOUS
<1>2. /\ more \in Seq(Roles) /\ Len(more) = n + 1 /\ DOMAIN more = 1..(n + 1)
      /\ \A i \in 1..n : more[i] = cast[i]
      /\ more[n + 1] = role
    OBVIOUS
<1> HIDE DEF more, n
<1>3. \A i \in 1..(n + 1) : i \in 1..n \/ i = n + 1
    BY <1>1
<1>4. Once(more)
    <2> SUFFICES ASSUME NEW i \in 1..(n + 1), NEW j \in 1..(n + 1), more[i] = more[j]
                 PROVE  i = j
        BY <1>2 DEF Once
    <2>1. CASE i \in 1..n /\ j \in 1..n
        BY <1>1, <1>2, <2>1 DEF Once
    <2>2. CASE i = n + 1 \/ j = n + 1
        BY <1>1, <1>2, <1>3, <2>2
    <2> QED BY <1>3, <2>1, <2>2
<1> QED BY <1>1, <1>2, <1>4 DEF more, n

\* _ensure_role keeps a cast a cast, of three at most, and seats the role.
LEMMA EnsureRoleSeats ==
    ASSUME NEW cast, Seated(cast, 3), NEW role \in Roles
    PROVE  Seated(EnsureRole(cast, role), 3) /\ role \in ToSet(EnsureRole(cast, role))
<1>1. CASE role \in ToSet(cast)
    BY <1>1 DEF EnsureRole
<1>2. CASE role \notin ToSet(cast)
    <2> DEFINE first == SubSeq(cast, 1, Min({2, Len(cast)}))
               more == Append(first, role)
    <2>1. cast \in Seq(Roles) /\ Once(cast) /\ Len(cast) \in 1..3
        BY DEF Seated
    <2>2. /\ first \in Seq(Roles) /\ Once(first) /\ Len(first) = Min({2, Len(cast)})
          /\ \A i \in DOMAIN first : i \in DOMAIN cast /\ first[i] = cast[i]
        BY <2>1, FirstSeats
    <2>3. Min({2, Len(cast)}) \in 1..2
        <3>1. 2 \in Int /\ Len(cast) \in Int
            BY <2>1
        <3>2. Min({2, Len(cast)}) = IF 2 <= Len(cast) THEN 2 ELSE Len(cast)
            BY <3>1, SmallerOfTwo, Zenon
        <3> QED BY <2>1, <3>2
    <2>4. \A i \in DOMAIN first : first[i] # role
        BY <1>2, <2>2 DEF ToSet
    <2> HIDE DEF first
    <2>5. /\ more \in Seq(Roles) /\ Once(more) /\ Len(more) = Len(first) + 1
          /\ more[Len(first) + 1] = role
        BY <2>2, <2>4, OneMoreSeat
    <2>6. EnsureRole(cast, role) = more
        BY <1>2 DEF EnsureRole, first
    <2> HIDE DEF more
    <2>7. Len(more) \in 1..3 /\ Len(first) + 1 \in DOMAIN more
        BY <2>2, <2>3, <2>5
    <2>8. role \in ToSet(more)
        BY <2>5, <2>7 DEF ToSet
    <2> QED BY <2>5, <2>6, <2>7, <2>8 DEF Seated
<1> QED BY <1>1, <1>2

\* The roles with most keywords, filled up to two, are a cast of three at
\* most.
LEMMA BestThreeSeated ==
    ASSUME NEW b \in Briefs
    PROVE  Seated(BestThree(b), 3)
<1> DEFINE S == {r \in Roles : Score(b, r) > 0}
           ranked == Listed(S, Above(b))
           best == SubSeq(ranked, 1, Min({3, Len(ranked)}))
           c == Cardinality(S)
<1>1. IsFiniteSet(S) /\ S \in SUBSET Roles
    BY FourRoles, FS_Subset
<1> HIDE DEF S
<1>2. StrictTotal(S, Above(b)) /\ c \in Nat
    BY <1>1, AboveIsTotal, FS_CardinalityType
<1>3. ranked \in [1..c -> S] /\ Lists(ranked, S, Above(b))
    BY <1>1, <1>2, ListedLists
<1>4. \A i, j \in 1..c : ranked[i] = ranked[j] => i = j
    BY <1>1, <1>2, <1>3, ListedOnce
<1> HIDE DEF ranked, c
<1>5. ranked \in Seq(Roles) /\ DOMAIN ranked = 1..c /\ Len(ranked) \in Nat
    <2>1. ranked \in [1..c -> Roles]
        BY <1>1, <1>3
    <2> QED BY <1>2, <2>1, SeqDef
<1>6. Once(ranked)
    BY <1>4, <1>5 DEF Once
<1>7. /\ best \in Seq(Roles) /\ Once(best) /\ Len(best) = Min({3, Len(ranked)})
    BY <1>5, <1>6, FirstSeats
<1>8. Len(best) \in 0..3
    <2>1. 3 \in Int /\ Len(ranked) \in Int
        BY <1>5
    <2>2. Min({3, Len(ranked)}) = IF 3 <= Len(ranked) THEN 3 ELSE Len(ranked)
        BY <2>1, SmallerOfTwo, Zenon
    <2> HIDE DEF best
    <2> QED BY <1>5, <1>7, <2>2
<1>9. BestThree(b) = IF best = <<>> THEN <<"implementation", "risk">>
                     ELSE IF Len(best) > 1 THEN best
                     ELSE Append(best, IF best[1] = "risk" THEN "implementation" ELSE "risk")
    BY DEF BestThree, ranked, S
<1> HIDE DEF best
<1>10. CASE best = <<>>
    <2>1. Seated(<<"implementation", "risk">>, 3)
        BY FourRoles DEF Seated, Once
    <2> QED BY <1>9, <1>10, <2>1
<1>11. CASE Len(best) > 1
    <2>1. best # <<>> /\ Len(best) \in 1..3
        BY <1>7, <1>8, <1>11
    <2> QED BY <1>7, <1>9, <1>11, <2>1 DEF Seated
<1>12. CASE best # <<>> /\ ~(Len(best) > 1)
    <2> DEFINE second == IF best[1] = "risk" THEN "implementation" ELSE "risk"
    <2>1. Len(best) = 1 /\ DOMAIN best = {1}
        <3>1. Len(best) # 0
            BY <1>7, <1>12
        <3>2. Len(best) = 1
            BY <1>8, <1>12, <3>1
        <3>3. best \in Seq(Roles)
            BY <1>7
        <3>4. DOMAIN best = 1..Len(best)
            BY <3>3
        <3> QED BY <3>2, <3>4
    <2>2. second \in Roles /\ best[1] # second
        BY FourRoles
    <2> HIDE DEF second
    <2>3. Append(best, second) \in Seq(Roles) /\ Once(Append(best, second))
          /\ Len(Append(best, second)) = 2
        BY <1>7, <2>1, <2>2, OneMoreSeat
    <2>4. BestThree(b) = Append(best, second)
        BY <1>9, <1>12 DEF second
    <2> QED BY <2>3, <2>4 DEF Seated
<1> QED BY <1>10, <1>11, <1>12

\* The keywords seat a cast of three at most, with the risk specialist in it
\* if the brief mentions risk.
LEMMA KeywordsSeat ==
    ASSUME NEW b \in Briefs
    PROVE  /\ Seated(CastByKeywords(b), 3)
           /\ Score(b, "risk") > 0 => "risk" \in ToSet(CastByKeywords(b))
<1>1. "implementation" \in Roles /\ "risk" \in Roles
    BY FourRoles
<1> DEFINE first == Ensured(b, BestThree(b), "implementation")
<1>2. Seated(first, 3)
    BY <1>1, BestThreeSeated, EnsureRoleSeats DEF Ensured
<1> HIDE DEF first
<1>3. CastByKeywords(b) = IF Score(b, "risk") > 0 THEN EnsureRole(first, "risk") ELSE first
    BY DEF CastByKeywords, Ensured, first
<1>4. Seated(EnsureRole(first, "risk"), 3) /\ "risk" \in ToSet(EnsureRole(first, "risk"))
    BY <1>1, <1>2, EnsureRoleSeats
<1> QED BY <1>2, <1>3, <1>4

\* What is kept of a role planner's answer, or else of the keywords, is a
\* cast of four at most.
LEMMA PicksSeat ==
    ASSUME NEW b \in Briefs, NEW picks \in Picks
    PROVE  Seated(CastFromPicks(b, picks), 4)
<1> DEFINE P == {i \in Firsts(picks) : picks[i] \in Roles}
           cast == Picked(picks, P)
           c == Cardinality(P)
           first == SubSeq(cast, 1, Min({4, Len(cast)}))
<1>1. picks \in Seq(Roles \cup {"stranger"})
    BY PicksAssumption DEF Picks
<1>2. /\ P \in SUBSET DOMAIN picks
      /\ \A i, j \in P : picks[i] = picks[j] => i = j
      /\ \A i \in P : picks[i] \in Roles
    BY <1>1, FirstPlaces
<1> HIDE DEF P
<1>3. /\ cast \in Seq(Roles \cup {"stranger"}) /\ DOMAIN cast = 1..c /\ c \in Nat
      /\ Len(cast) = c
    BY <1>1, <1>2, PickedType
<1>4. \A k \in 1..c : cast[k] \in Roles
    BY <1>1, <1>2, PickedType
<1>5. \A k, m \in 1..c : cast[k] = cast[m] => k = m
    BY <1>1, <1>2, PickedOnce
<1> HIDE DEF cast, c
<1>6. cast \in Seq(Roles) /\ Once(cast)
    BY <1>3, <1>4, <1>5 DEF Once
<1>7. CastFromPicks(b, picks) = IF cast = <<>> THEN CastByKeywords(b) ELSE first
    BY DEF CastFromPicks, cast, P
<1>8. CASE cast = <<>>
    <2>1. Seated(CastByKeywords(b), 3)
        BY KeywordsSeat
    <2> HIDE DEF first
    <2> QED BY <1>7, <1>8, <2>1 DEF Seated
<1>9. CASE cast # <<>>
    <2>1. first \in Seq(Roles) /\ Once(first) /\ Len(first) = Min({4, Len(cast)})
        BY <1>6, FirstSeats
    <2>2. Min({4, Len(cast)}) \in 1..4
        <3>1. 4 \in Int /\ Len(cast) \in Int
            BY <1>6
        <3>2. Min({4, Len(cast)}) = IF 4 <= Len(cast) THEN 4 ELSE Len(cast)
            BY <3>1, SmallerOfTwo, Zenon
        <3>3. Len(cast) \in Nat /\ Len(cast) # 0
            BY <1>6, <1>9
        <3> QED BY <3>2, <3>3
    <2> HIDE DEF first
    <2> QED BY <1>7, <1>9, <2>1, <2>2 DEF Seated
<1> QED BY <1>8, <1>9

-----------------------------------------------------------------------------
(* The cast of the plan.                                                   *)

\* Requests and briefs are of their kinds, and a plan's cast is seated; one
\* that nothing but keywords could choose was chosen by them.
CastInv ==
    /\ env \in Environments
    /\ request \in Requests
    /\ brief \in Briefs \cup {NoBrief}
    /\ stage \in {"casting", "contract"} \/ Planned => brief \in Briefs
    /\ stage = "contract" \/ Planned =>
          /\ Seated(roster, 4)
          /\ env.default # "complete" => roster = CastByKeywords(brief)

\* The stub is a brief with one constraint of its own.
LEMMA StubIsABrief ==
    ASSUME NEW said \in [Roles -> Mentions]
    PROVE  Stub(said) \in Briefs
BY BriefAssumption DEF Stub, Briefs

\* A process starts with a blank request and no plan.
LEMMA CastBegins == Init => CastInv
<1> SUFFICES ASSUME Init PROVE CastInv
    OBVIOUS
<1>1. [kind |-> "preflight", allow |-> FALSE, blank |-> TRUE, scope |-> "",
       own |-> NoContext] \in Requests
    BY DEF Requests, Contexts
<1>2. stage = "idle" /\ ~Planned
    BY DEF Init, Planned, NoReply
<1> QED BY <1>1, <1>2 DEF Init, CastInv

\* No step breaks the invariant of the cast.
LEMMA CastStep == CastInv /\ InTheWorks /\ [Next]_vars => CastInv'
<1> SUFFICES ASSUME CastInv, InTheWorks, [Next]_vars PROVE CastInv'
    OBVIOUS
<1>1. ASSUME NEW r \in Requests, Receive(r) PROVE CastInv'
    <2>1. env' = env /\ request' = r /\ brief' = NoBrief
        BY <1>1 DEF Receive
    <2>2. \/ stage' = "idle" /\ reply' = [status |-> "crashed", by |-> "scope"]
          \/ /\ stage' = "idle"
             /\ reply' = [status |-> "refused", fault |-> Fault("invalid_requirement", FALSE)]
          \/ stage' = "briefing" /\ reply' = NoReply
        BY <1>1 DEF Receive
    <2>3. stage' \in {"idle", "briefing"}
        BY <2>2
    <2>4. reply'.status \in {"crashed", "refused", "none"}
        <3>1. ASSUME reply' = [status |-> "crashed", by |-> "scope"]
              PROVE  reply'.status = "crashed"
            BY <3>1
        <3>2. ASSUME reply' = [status |-> "refused", fault |-> Fault("invalid_requirement", FALSE)]
              PROVE  reply'.status = "refused"
            BY <3>2
        <3>3. ASSUME reply' = NoReply PROVE reply'.status = "none"
            BY <3>3 DEF NoReply
        <3> QED BY <2>2, <3>1, <3>2, <3>3
    <2>5. ~Planned'
        BY <2>4 DEF Planned
    <2> QED BY <2>1, <2>3, <2>5 DEF CastInv
<1>2. CASE PlanRequirement
    <2>1. /\ UNCHANGED <<env, request, roster>> /\ stage = "briefing" /\ reply = NoReply
        BY <1>2 DEF PlanRequirement, InTheWorks
    <2>2. ASSUME NEW b \in Briefs, brief' = b, stage' = "casting", UNCHANGED reply
          PROVE  CastInv'
        <3>1. ~Planned'
            BY <2>1, <2>2 DEF Planned, NoReply
        <3> QED BY <2>1, <2>2, <3>1 DEF CastInv
    <2>3. ASSUME NEW f, PrimaryFails(f) PROVE CastInv'
        <3>1. CASE UsesFallback(f)
            <4>1. /\ \E said \in [Roles -> Mentions] : brief' = Stub(said)
                  /\ stage' = "casting" /\ UNCHANGED reply
                BY <2>3, <3>1 DEF PrimaryFails
            <4> QED BY <2>2, <4>1, StubIsABrief
        <3>2. CASE ~UsesFallback(f)
            <4>1. stage' = "idle" /\ UNCHANGED brief /\ ~Planned'
                BY <2>3, <3>2 DEF PrimaryFails, Planned
            <4> QED BY <2>1, <4>1 DEF CastInv
        <3> QED BY <3>1, <3>2
    <2> QED BY <1>2, <2>2, <2>3 DEF PlanRequirement
<1>3. CASE PlanRoles
    <2>1. /\ UNCHANGED <<env, request, brief>> /\ stage = "casting" /\ reply = NoReply
          /\ brief \in Briefs
        BY <1>3 DEF PlanRoles, InTheWorks, CastInv
    <2>2. ASSUME NEW cast, Cast(cast), Seated(cast, 4),
                 env.default # "complete" => cast = CastByKeywords(brief)
          PROVE  CastInv'
        <3>1. roster' = cast /\ stage' = "contract" /\ ~Planned'
            BY <2>1, <2>2 DEF Cast, Planned, NoReply
        <3>2. CastByKeywords(brief)' = CastByKeywords(brief)
            BY <2>1
        <3> QED BY <2>1, <2>2, <3>1, <3>2 DEF CastInv, Seated
    <2>3. Seated(CastByKeywords(brief), 4)
        BY <2>1, KeywordsSeat DEF Seated
    <2>4. ASSUME stage' = "idle", reply'.status = "crashed" PROVE CastInv'
        <3>1. ~Planned'
            BY <2>4 DEF Planned
        <3> QED BY <2>1, <2>4, <3>1 DEF CastInv
    <2>5. ASSUME Cast(CastByKeywords(brief)) PROVE CastInv'
        BY <2>2, <2>3, <2>5
    <2>6. ASSUME NEW picks \in Picks, Cast(CastFromPicks(brief, picks)),
                 env.default = "complete"
          PROVE  CastInv'
        <3>1. Seated(CastFromPicks(brief, picks), 4)
            BY <2>1, PicksSeat
        <3> QED BY <2>2, <2>6, <3>1
    <2> QED BY <1>3, <2>4, <2>5, <2>6 DEF PlanRoles
<1>4. CASE Conclude
    <2>1. /\ UNCHANGED <<env, request, brief, roster>> /\ stage = "contract"
          /\ stage' = "idle"
        BY <1>4 DEF Conclude
    <2>2. CastByKeywords(brief)' = CastByKeywords(brief)
        BY <2>1
    <2> QED BY <2>1, <2>2 DEF CastInv, Seated
<1>5. CASE UNCHANGED vars
    <2>1. UNCHANGED <<env, request, stage, brief, roster, reply>>
        BY <1>5 DEF vars
    <2>2. CastByKeywords(brief)' = CastByKeywords(brief) /\ Planned' = Planned
        BY <2>1 DEF Planned
    <2> QED BY <2>1, <2>2 DEF CastInv, Seated
<1> QED BY <1>1, <1>2, <1>3, <1>4, <1>5 DEF Next

\* The invariant of every behaviour.
LEMMA CastInvariance == Spec => []CastInv
<1>1. IInv => InTheWorks
    BY DEF IInv
<1> QED BY <1>1, Invariance, CastBegins, CastStep, PTL DEF Spec

\* A plan has one to four specialists of the catalog and nobody twice,
\* whatever the brief mentions and whatever the role planner's model answers
\* (HeuristicRolePlanner, LLMRolePlanner).
THEOREM PlansAreTyped == Spec => []TypeOK
<1>1. CastInv => TypeOK
    <2> SUFFICES ASSUME CastInv PROVE TypeOK
        OBVIOUS
    <2>1. Planned => Len(roster) \in 1..4 /\ ToSet(roster) \subseteq Roles
                     /\ IsInjective(roster)
        BY DEF CastInv, Seated, Once, ToSet, IsInjective
    <2> QED BY <2>1 DEF CastInv, TypeOK
<1> QED BY <1>1, CastInvariance, PTL

\* Where keywords choose the cast, a brief that mentions risk has the risk
\* specialist: _ensure_role gives it a seat last, and nobody takes that.
THEOREM RiskIsSeated == Spec => []RiskHasASeat
<1>1. CastInv => RiskHasASeat
    <2> SUFFICES ASSUME CastInv, Planned, env.default # "complete", Score(brief, "risk") > 0
                 PROVE  "risk" \in ToSet(roster)
        BY DEF RiskHasASeat
    <2>1. brief \in Briefs /\ roster = CastByKeywords(brief)
        BY DEF CastInv
    <2> QED BY <2>1, KeywordsSeat
<1> QED BY <1>1, CastInvariance, PTL

=============================================================================
