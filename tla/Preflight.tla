------------------------------ MODULE Preflight ------------------------------
(***************************************************************************)
(* The room-start contract (orchestration/preflight.py): what stands in    *)
(* the way of a room, and which of the planner's questions the context     *)
(* already answers.  A question and a line of context are sets of words;   *)
(* two lines with the same words count as the same text.                   *)
(***************************************************************************)
EXTENDS Naturals, FiniteSets

CONSTANTS
    Questions,   \* questions a planner may ask: sets of words
    StopWords    \* words _semantic_tokens ignores

-----------------------------------------------------------------------------
(* Operator context (orchestration/operator_entry_contracts.py), by key.   *)

Keys == {"resolved_room_start_inputs", "auto_resolved_context",
         "operator_required_inputs", "human_control_contract"}
NoContext == [k \in Keys |-> {}]

\* _entry_scope_defaults of interactive_room_start, one line for each key;
\* entry_contract and transport_contract are of the same nature.
RequiredInput == {"hard", "business", "technical", "constraint", "shape", "planning"}
ScopeDefaults ==
    [NoContext EXCEPT
        !["auto_resolved_context"] = {{"planner", "executor", "target", "identity", "taken"}},
        !["operator_required_inputs"] = {RequiredInput},
        !["human_control_contract"] = {{"operators", "inject", "human", "messages"}}]

\* resolve_operator_context: defaults of the scope, then the operator's own
\* lists after them.
ResolveOperatorContext(scope, own) ==
    LET base == IF scope = "interactive_room_start" THEN ScopeDefaults ELSE NoContext
    IN [k \in Keys |-> base[k] \cup own[k]]

Label == [k \in Keys |->
             CASE k = "operator_required_inputs" -> {"operator", "required", "inputs"}
               [] k = "auto_resolved_context" -> {"auto", "resolved", "context"}
               [] k = "human_control_contract" -> {"human", "control", "contract"}
               [] k = "resolved_room_start_inputs" -> {}]

-----------------------------------------------------------------------------
(* Runtime dicts: functions on the keys they have.  A text is the set of    *)
(* its words and blank if it has none; of the guardrails, the keys that     *)
(* hold a value are kept.                                                   *)

GetOr(dict, key, default) == IF key \in DOMAIN dict THEN dict[key] ELSE default
EmptyDict == [key \in {} |-> {}]

IdentityFields == {"supplier", "model"}

\* _normalize_target_identity, and a mutant that forgets the model.
SupplierOnly(target) == [f \in DOMAIN target \cap {"supplier"} |-> target[f]]
NormalizeTargetIdentity(target) ==
    [f \in {g \in DOMAIN target \cap IdentityFields : target[g] # {}} |-> target[f]]

\* executor_targets without the tiers that have nothing left.
NormalizedTargets(targets) ==
    LET normalized == [tier \in DOMAIN targets |-> NormalizeTargetIdentity(targets[tier])]
    IN [tier \in {t \in DOMAIN targets : DOMAIN normalized[t] # {}} |-> normalized[tier]]

\* _planning_runtime_context: what the planning artifacts keep of the
\* readiness a room was planned under.
PlanningRuntimeContext(readiness) ==
    LET planner == NormalizeTargetIdentity(readiness.planner_target)
        executors == NormalizedTargets(readiness.executor_targets)
        kept == {mode \in {"planner_mode", "executor_mode"} : readiness[mode] # {}}
                \cup (IF DOMAIN planner # {} THEN {"planner_target"} ELSE {})
                \cup (IF DOMAIN executors # {} THEN {"executor_targets"} ELSE {})
                \cup {"executor_guardrails"}
    IN [key \in kept |-> CASE key = "planner_target" -> planner
                           [] key = "executor_targets" -> executors
                           [] OTHER -> readiness[key]]

-----------------------------------------------------------------------------
(* Evidence, read from the readiness or from the context kept of it.        *)

PlannerTarget(runtime) == GetOr(runtime, "planner_target", EmptyDict)
DefaultExecutor(runtime) ==
    GetOr(GetOr(runtime, "executor_targets", EmptyDict), "default", EmptyDict)
Text(target, field) == GetOr(target, field, {})

TargetIdentityKnown(target) == \A f \in IdentityFields : Text(target, f) # {}
ProviderIdentityKnown(runtime) ==
    /\ TargetIdentityKnown(PlannerTarget(runtime))
    /\ TargetIdentityKnown(DefaultExecutor(runtime))
GuardrailsKnown(runtime) == GetOr(runtime, "executor_guardrails", {}) # {}

FromReadiness == {"provider", "identity", "is", "known", "from", "runtime", "readiness"}
Named(target) ==
    {"supplier", "model"} \cup Text(target, "supplier") \cup Text(target, "model")

\* _runtime_context_evidence_lines.
PlannerEvidence(target) ==
    {{"primary", "planner"} \cup FromReadiness \cup Named(target),
     {"planner", "target", "identity", "is", "known", "before", "room", "start"}}
ExecutorEvidence(target) ==
    {{"default", "executor"} \cup FromReadiness \cup Named(target),
     {"specific", "provider", "identity", "for", "the", "room", "is", "known", "before",
      "start"}}
RuntimeEvidence(runtime) ==
    LET planner == PlannerTarget(runtime)
        executor == DefaultExecutor(runtime)
    IN (IF TargetIdentityKnown(planner) THEN PlannerEvidence(planner) ELSE {})
       \cup (IF TargetIdentityKnown(executor) THEN ExecutorEvidence(executor) ELSE {})
       \cup (IF GuardrailsKnown(runtime)
             THEN {{"executor", "guardrails", "are", "known", "from", "runtime", "readiness"}}
             ELSE {})

\* _known_context_lines.
KnownContext(runtime, operator) ==
    operator["auto_resolved_context"]
    \cup (IF ProviderIdentityKnown(runtime)
          THEN {{"planner", "and", "default", "executor", "target", "identities", "are",
                 "known", "from", "runtime", "context"}}
          ELSE {})
    \cup (IF GuardrailsKnown(runtime)
          THEN {{"executor", "guardrails", "are", "known", "from", "runtime", "context"}}
          ELSE {})
    \cup (IF operator["human_control_contract"] # {}
          THEN {{"human", "control", "surface", "is", "already", "fixed", "before", "room",
                 "start"}}
          ELSE {})

\* _context_evidence_lines: every key of the operator context counts, the
\* inputs the operator still owes included.
Evidence(runtime, operator) ==
    UNION {{Label[k] \cup line : line \in operator[k]} : k \in Keys}
    \cup RuntimeEvidence(runtime)
    \cup KnownContext(runtime, operator)

\* _question_answered_by_context: the same text, or enough words in common.
AnsweredByContext(question, runtime, operator) ==
    LET tokens == question \ StopWords
        needed == IF Cardinality(tokens) <= 2 THEN 1 ELSE 2
    IN \E line \in Evidence(runtime, operator) :
          \/ line = question
          \/ tokens # {} /\ Cardinality(tokens \cap (line \ StopWords)) >= needed

Unanswered(questions, runtime, operator) ==
    {q \in questions : ~AnsweredByContext(q, runtime, operator)}

-----------------------------------------------------------------------------
(* The contract.                                                           *)

\* _runtime_readiness_prerequisites; the mutant ignores the operator's
\* consent to a fallback.
ConsentIgnored(readiness, allow) ==
    {b \in {"planner", "executor"} :
        \/ b = "planner" /\ ~readiness.primary_planner_ready
        \/ b = "executor" /\ ~readiness.executor_ready}
SystemBlockers(readiness, allow) ==
    {b \in {"planner", "executor"} :
        \/ /\ b = "planner"
           /\ ~readiness.primary_planner_ready
           /\ ~(allow /\ readiness.fallback_planner_ready)
        \/ b = "executor" /\ ~readiness.executor_ready}

BuildRoomStartContract(questions, readiness, operator, allow) ==
    [room_start_ready |-> SystemBlockers(readiness, allow) = {},
     system_blockers |-> SystemBlockers(readiness, allow),
     contextual_open_questions |-> Unanswered(questions, readiness, operator)]

=============================================================================
