--------------------------- MODULE PreRoomPlanning ---------------------------
(***************************************************************************)
(* What happens between a request for a room and the room: the meeting     *)
(* brief (orchestration/brief_planner.py), the cast of specialists         *)
(* (orchestration/pre_room_planning.py) and the room-start contract, as    *)
(* runtime/http_api.py wires them from the environment.  Planning awaits   *)
(* nothing: its two LLM calls hold the event loop, so that requests are    *)
(* served one after another.                                               *)
(***************************************************************************)
EXTENDS Providers, Preflight, SequencesExt, Listing

CONSTANTS
    PlannerModes,  \* DECISION_ROOM_PLANNER_MODE of the environments checked
    Supplier,      \* words of a supplier's name
    Model,         \* words of a model's name
    MaxPicks,      \* bound: entries of a role planner's answer
    Mentions,      \* keywords of one role a requirement may contain
    OwnConstraints \* constraints a brief may state, at least 1; those from the
                   \* seventh on are cut

ASSUME BriefAssumption ==
    /\ Mentions \subseteq Nat
    /\ OwnConstraints \subseteq 1..6
    /\ 1 \in OwnConstraints
ASSUME NamesAssumption == Supplier # {} /\ Model # {}
ASSUME PicksAssumption == MaxPicks \in Nat

VARIABLES
    env,       \* the environment the process was started with
    request,   \* the request being served
    stage,     \* "idle", or the planning step at work
    brief,     \* the MeetingBrief
    fault,     \* the primary planner's failure for this request, if any
    roster,    \* candidate_specialist_roster
    reply      \* the answer to the last request

vars == <<env, request, stage, brief, fault, roster, reply>>

-----------------------------------------------------------------------------
(* Environments.  default and others: what MODEL_DEFAULT_* states, and what *)
(* MODEL_ESCALATION_* and MODEL_FALLBACK_* do, taken alike: all of a target, *)
(* all but its key (for the others as good as the supplier alone), its      *)
(* supplier alone, or nothing.  injected: the executor is given to the      *)
(* runtime.                                                                *)

Stated == {"complete", "keyless", "supplier", "nothing"}
Environments == [mode : PlannerModes, default : Stated, others : Stated \ {"keyless"},
                 injected : BOOLEAN]

\* _target_identity: blank fields are left out.
TargetIdentity(stated) ==
    CASE stated \in {"complete", "keyless"} ->
            [f \in IdentityFields |-> IF f = "supplier" THEN Supplier ELSE Model]
      [] stated = "supplier" -> [f \in {"supplier"} |-> Supplier]
      [] stated = "nothing" -> EmptyDict

ExecutorTargets ==
    [tier \in {"default", "escalation", "fallback"} |->
        TargetIdentity(IF tier = "default" THEN env.default ELSE env.others)]

\* _executor_guardrails: time-outs are told of the suppliers there are.
Guardrails ==
    {"request_timeout_default_sec", "transient_max_attempts", "disaster_fallback_policy",
     "route_visibility"}
    \cup (IF env.default # "nothing" \/ env.others # "nothing" THEN {"provider_timeouts"}
          ELSE {})

PrimaryPlannerReady == env.mode # "fallback_only" /\ env.default = "complete"
FallbackPlannerReady == env.mode # "primary"
ExecutorReady == env.injected \/ (env.default = "complete" /\ env.others = "complete")

\* runtime_readiness.  An executor that is not injected is "llm"; a
\* "centralized" one tells the same and its topology.
Readiness ==
    [primary_planner_ready |-> PrimaryPlannerReady,
     fallback_planner_ready |-> FallbackPlannerReady,
     executor_ready |-> ExecutorReady,
     planner_mode |-> {env.mode},
     planner_target |-> IF env.mode = "fallback_only" THEN EmptyDict
                        ELSE TargetIdentity(env.default),
     executor_mode |-> {IF env.injected THEN "injected" ELSE "llm"},
     executor_targets |-> IF env.injected THEN EmptyDict ELSE ExecutorTargets,
     executor_guardrails |-> IF env.injected THEN {} ELSE Guardrails]

-----------------------------------------------------------------------------
(* Requests.                                                               *)

Contexts == {NoContext} \cup {[NoContext EXCEPT !["resolved_room_start_inputs"] = {q}] : q \in Questions}
Requests == [kind : {"preflight", "create"}, allow : BOOLEAN, blank : BOOLEAN,
             scope : {"", "interactive_room_start", "unsupported"}, own : Contexts]
Served(r) == ~r.blank /\ r.scope # "unsupported"

OperatorContext == ResolveOperatorContext(request.scope, request.own)

NoFault == [error |-> "none", offered |-> FALSE]
Fault(error, offered) == [error |-> error, offered |-> offered]

-----------------------------------------------------------------------------
(* The brief.  own: how many constraints it states itself; said: how many  *)
(* keywords of each role it contains beside those of the system            *)
(* constraints it keeps.                                                   *)

Catalog == <<"implementation", "risk", "product", "operations">>
Roles == ToSet(Catalog)

\* Questions are filtered one by one, so that one at a time is enough.
Briefs == [source : {"agent", "fallback"}, own : OwnConstraints, said : [Roles -> Mentions],
           questions : {{}} \cup {{q} : q \in Questions}]

NoBrief == [source |-> "none"]

\* HeuristicRequirementPlanner; its one question is left out.
Stub(said) == [source |-> "fallback", own |-> 1, said |-> said, questions |-> {}]

\* Keywords of each role in the first n SYSTEM_CONSTRAINTS, and how many of
\* these _merge_system_constraints keeps behind the brief's own.
SystemKeywords ==
    [implementation |-> <<0, 1, 1>>, risk |-> <<0, 2, 3>>,
     product |-> <<1, 1, 1>>, operations |-> <<1, 3, 4>>]
SystemConstraintsKept(b) == Min({3, 6 - b.own})

Score(b, role) ==
    LET kept == SystemConstraintsKept(b)
    IN b.said[role] + IF kept = 0 THEN 0 ELSE SystemKeywords[role][kept]

-----------------------------------------------------------------------------
(* Casting.                                                                *)

\* _ensure_role: into a free seat, or in place of the third.  The mutant
\* does not look who sits already.
SeatedTwice(cast, role) == Append(SubSeq(cast, 1, Min({2, Len(cast)})), role)
EnsureRole(cast, role) ==
    IF role \in ToSet(cast) THEN cast ELSE Append(SubSeq(cast, 1, Min({2, Len(cast)})), role)

Index(role) == CHOOSE i \in DOMAIN Catalog : Catalog[i] = role

\* HeuristicRolePlanner: the three roles with most keywords, filled up to
\* two; implementation and then risk are put in if the brief mentions them.
Above(b) ==
    {p \in Roles \X Roles :
        \/ Score(b, p[1]) > Score(b, p[2])
        \/ Score(b, p[1]) = Score(b, p[2]) /\ Index(p[1]) < Index(p[2])}
BestThree(b) ==
    LET ranked == Listed({r \in Roles : Score(b, r) > 0}, Above(b))
        best == SubSeq(ranked, 1, Min({3, Len(ranked)}))
    IN IF best = <<>> THEN <<"implementation", "risk">>
       ELSE IF Len(best) > 1 THEN best
       ELSE Append(best, IF best[1] = "risk" THEN "implementation" ELSE "risk")

Ensured(b, cast, role) == IF Score(b, role) > 0 THEN EnsureRole(cast, role) ELSE cast
\* The mutant ensures the two roles in the other order.
RiskFirst(b) == Ensured(b, Ensured(b, BestThree(b), "risk"), "implementation")
CastByKeywords(b) == Ensured(b, Ensured(b, BestThree(b), "implementation"), "risk")

\* LLMRolePlanner: known roles without repeats, four at most; a stranger is
\* a role outside the catalog.
Picks == UNION {[1..n -> Roles \cup {"stranger"}] : n \in 0..MaxPicks}
CastFromPicks(b, picks) ==
    LET cast == Picked(picks, {i \in Firsts(picks) : picks[i] \in Roles})
    IN IF cast = <<>> THEN CastByKeywords(b) ELSE SubSeq(cast, 1, Min({4, Len(cast)}))

\* The errors of the role planner's call that it answers with the keywords
\* instead.  The mutant lets time-outs through.
HttpErrorsOnly == {"rate_limited", "server_error", "rejected"}
RolePlannerCatches == Transient

-----------------------------------------------------------------------------
(* Serving a request.                                                      *)

NoReply == [status |-> "none"]

Init ==
    /\ env \in Environments
    /\ request = [kind |-> "preflight", allow |-> FALSE, blank |-> TRUE, scope |-> "",
                  own |-> NoContext]
    /\ stage = "idle"
    /\ brief = NoBrief
    /\ fault = NoFault
    /\ roster = <<>>
    /\ reply = NoReply

\* create_room or preflight_room, up to plan_requirement.  A scope nobody
\* supports is a ValueError; a blank requirement is refused.
Receive(r) ==
    /\ stage = "idle"
    /\ request' = r
    /\ fault' = NoFault
    /\ IF r.scope = "unsupported" THEN
          stage' = "idle" /\ reply' = [status |-> "crashed", by |-> "scope"]
       ELSE IF r.blank THEN
          /\ stage' = "idle"
          /\ reply' = [status |-> "refused", fault |-> Fault("invalid_requirement", FALSE)]
       ELSE stage' = "briefing" /\ reply' = NoReply
    /\ brief' = NoBrief
    /\ roster' = <<>>
    /\ UNCHANGED env

\* _use_primary_failure: the stub needs the operator's consent.  The mutant
\* does without.
WithoutConsent(f) == FallbackPlannerReady /\ f.offered
UsesFallback(f) == request.allow /\ FallbackPlannerReady /\ f.offered

PrimaryFails(f) ==
    /\ fault' = f
    /\ \/ /\ UsesFallback(f)
          /\ \E said \in [Roles -> Mentions] : brief' = Stub(said)
          /\ stage' = "casting"
          /\ UNCHANGED reply
       \/ /\ ~UsesFallback(f)
          /\ stage' = "idle"
          /\ reply' = [status |-> "refused", fault |-> f]
          /\ UNCHANGED brief

\* RequirementPlanningService.plan_requirement.  Errors the LLM planner knows
\* offer a fallback whether there is one or not; what it does not know, a
\* body that is no completion, offers one only if there is one.
PlanRequirement ==
    /\ stage = "briefing"
    /\ \/ /\ ~PrimaryPlannerReady
          /\ PrimaryFails(Fault("planner_unavailable", FallbackPlannerReady))
       \/ /\ PrimaryPlannerReady
          /\ \/ PrimaryFails(Fault("planner_timeout", TRUE))
             \/ PrimaryFails(Fault("planner_upstream_error", TRUE))
             \/ PrimaryFails(Fault("planner_invalid_schema", TRUE))
             \/ PrimaryFails(Fault("planner_failure", FallbackPlannerReady))
       \/ /\ PrimaryPlannerReady
          /\ \E b \in Briefs : b.source = "agent" /\ brief' = b
          /\ stage' = "casting"
          /\ UNCHANGED <<fault, reply>>
    /\ UNCHANGED <<env, request, roster>>

Cast(cast) == roster' = cast /\ stage' = "contract" /\ UNCHANGED reply

\* plan_roles, validate_roles and build_profiles: without a complete default
\* target the keywords decide.  An error outside RolePlannerCatches is
\* nobody's: the endpoint answers 500.
PlanRoles ==
    /\ stage = "casting"
    /\ \/ env.default # "complete" /\ Cast(CastByKeywords(brief))
       \/ /\ env.default = "complete"
          /\ \E t \in DOMAIN Generate :
                \/ Generate[t] \in RolePlannerCatches /\ Cast(CastByKeywords(brief))
                \/ /\ Generate[t] \notin RolePlannerCatches \cup {"text"}
                   /\ stage' = "idle"
                   /\ reply' = [status |-> "crashed", by |-> Generate[t]]
                   /\ UNCHANGED roster
                \/ /\ Generate[t] = "text"
                   /\ \E picks \in Picks : Cast(CastFromPicks(brief, picks))
    /\ UNCHANGED <<env, request, brief, fault>>

\* The contract is built and the plan answered: a room is created whether the
\* contract is ready or not.  An operator context without content is left out
\* of the answer, and what is left out reads as NoContext.
Conclude ==
    /\ stage = "contract"
    /\ stage' = "idle"
    /\ reply' = [status |-> IF request.kind = "create" THEN "room" ELSE "report",
                 contract |-> BuildRoomStartContract(brief.questions, Readiness,
                                                     OperatorContext, request.allow),
                 runtime_context |-> PlanningRuntimeContext(Readiness),
                 operator_context |-> OperatorContext]
    /\ UNCHANGED <<env, request, brief, fault, roster>>

\* A request that is not served need not carry a context.
Next == (\E r \in Requests : Receive(r) /\ (Served(r) \/ r.own = NoContext)) \/ PlanRequirement \/ PlanRoles \/ Conclude

Spec == Init /\ [][Next]_vars

-----------------------------------------------------------------------------
(* Properties.                                                             *)

Planned == reply.status \in {"room", "report"}

\* Every variable holds a value of its kind; a plan has one to four
\* specialists of the catalog, none twice.
TypeOK ==
    /\ env \in Environments
    /\ request \in Requests
    /\ brief \in Briefs \cup {NoBrief}
    /\ Planned =>
          /\ Len(roster) \in 1..4
          /\ ToSet(roster) \subseteq Roles
          /\ IsInjective(roster)

\* A brief is the diagnostic stub only if the operator allowed that in the
\* same request and the primary planner failed for it.
StubOnlyWithConsent ==
    Planned => (brief.source = "fallback" <=> fault # NoFault)
               /\ (brief.source = "fallback" => request.allow)

\* With consent and a fallback planner, a sensible request gets its plan
\* through every failure of the provider in either call, but for one: an
\* answer to the role planner that is no completion.
OnlyABadAnswerCloses ==
    /\ request.allow
    /\ FallbackPlannerReady
    /\ Served(request)
    => /\ reply.status # "refused"
       /\ reply.status = "crashed" => reply.by = "malformed"

\* A plan that was made never names the planner as a blocker, so that its
\* contract is ready exactly if the executor is.
OnlyTheExecutorBlocks ==
    Planned => /\ "planner" \notin reply.contract.system_blockers
               /\ reply.contract.room_start_ready <=> ExecutorReady

\* The meeting filters questions again, by the context its planning artifacts
\* carry.  That is not the readiness the contract was made from but what was
\* kept of it field by field, and yet the meeting finds open exactly what the
\* contract found open.
MeetingAgreesOnQuestions ==
    Planned => Unanswered(brief.questions, reply.runtime_context, reply.operator_context)
                  = reply.contract.contextual_open_questions

\* A cast chosen by keywords has the risk specialist whenever the brief
\* mentions risk: its seat is ensured last and nobody takes it.
RiskHasASeat ==
    Planned /\ env.default # "complete" /\ Score(brief, "risk") > 0
        => "risk" \in ToSet(roster)

\* What the entry scope's defaults are said to be: inputs that still belong to
\* the operator.  A question about such an input stays open unless the
\* operator has resolved it.
RequiredInputsAreAsked ==
    Planned => \A q \in brief.questions :
        q \subseteq RequiredInput \cup StopWords
        /\ q \notin request.own["resolved_room_start_inputs"]
        => q \in reply.contract.contextual_open_questions

=============================================================================
