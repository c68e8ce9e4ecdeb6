------------------------------ MODULE RoundBuild ------------------------------
(***************************************************************************)
(* The build of one round (orchestration/round_orchestrator.py): a speaker *)
(* strategy asks the host or the supervisor who speaks                     *)
(* (speaker_strategies.py, host_agent.py, central_mas.py), every nominated *)
(* specialist runs its loop of thoughts, tool calls and a final claim      *)
(* (specialist_agent.py), and the synthesis closes the round.  Agents run  *)
(* one after another; what each of them suspends at is an LLM call, and    *)
(* an action below is what the code does from one answer to the next.      *)
(***************************************************************************)
EXTENDS ProviderCalls, ToolRegistry, SequencesExt, Listing

CONSTANTS
    Roster,          \* roles of candidate_specialist_roster, in order
    FallbackRoster,  \* roles of _fallback_specialists
    Strangers,       \* roles a model may name that nobody planned
    MaxNominations,  \* bound: entries of a speaker plan
    TurnBudget,      \* turn_budget of each role
    UnknownTool      \* a tool name nobody registers

VARIABLES
    topology,  \* "host_led" or "supervisor_led"
    stage,     \* the agent at work, or how the build ended
    named,     \* the runnable turns of the parsed plan
    order,     \* the specialists assigned, in speaking order
    spoken,    \* turn_results: specialists that have emitted
    step,      \* iteration of the specialist at work
    pad,       \* its scratchpad
    journal,   \* events published by the build
    failure    \* why the build raised

planVars == <<topology, named, order>>
turnVars == <<spoken, step, pad>>
buildVars == <<stage, planVars, turnVars, journal, failure>>
vars == <<callVars, registry, refused, buildVars>>

Planned == IF Roster = <<>> THEN FallbackRoster ELSE Roster
PlannedRoles == ToSet(Planned)

ASSUME NominationsAssumption == MaxNominations \in Nat
\* SpecialistAgent.run gives everybody at least one iteration.
ASSUME BudgetAssumption == \A role \in PlannedRoles : TurnBudget[role] \in Nat \ {0}

Working == stage \in {"selecting", "speaking", "summing"}

-----------------------------------------------------------------------------
(* The speaker plan.                                                       *)

Slots == [agent : PlannedRoles \cup Strangers, run : BOOLEAN, order : 0..1]
Answers == UNION {[1..n -> Slots] : n \in 0..MaxNominations}

Agents(slots) == [i \in DOMAIN slots |-> slots[i].agent]

\* parse_host_agenda: the turns stand as they are, or the answer is refused.
HostPlanIsValid(turns) ==
    /\ Len(turns) \in 1..5
    /\ ToSet(Agents(turns)) \subseteq PlannedRoles
    /\ \A i, j \in DOMAIN turns : turns[i].agent = turns[j].agent => i = j

\* The order of the places of entries with an order of their own: entries of
\* equal order keep their places (list.sort is stable).
ByOrder(slots) ==
    {p \in (DOMAIN slots) \X (DOMAIN slots) :
        \/ slots[p[1]].order < slots[p[2]].order
        \/ slots[p[1]].order = slots[p[2]].order /\ p[1] < p[2]}

\* parse_supervisor_plan keeps the first entry of each known role and sorts
\* by order.  The mutant keeps roles nobody planned.
StrangersKept(slots) == Picked(slots, Firsts(Agents(slots)))
SupervisorSlots(slots) ==
    SortedBy(slots, {i \in Firsts(Agents(slots)) : slots[i].agent \in PlannedRoles},
             ByOrder(slots))

\* The turns the supervisor wants run.
RunnableTurns(slots) == Agents(Picked(slots, {i \in DOMAIN slots : slots[i].run}))

\* resolve_turn_specialists: the planned specialists behind the requested
\* roles, without repeats; the first two if there is none.
ResolveTurnSpecialists(requested) ==
    LET known == {i \in Firsts(requested) : requested[i] \in PlannedRoles}
    IN IF known # {}
       THEN Picked(requested, known)
       ELSE SubSeq(Planned, 1, Min({2, Len(Planned)}))

\* The strategies pair the resolved specialists with the requested turns by
\* position, and keep the pairs that agree on the role.
Assigned(requested) ==
    LET resolved == ResolveTurnSpecialists(requested)
    IN Picked(resolved, {i \in DOMAIN resolved \cap DOMAIN requested :
                            resolved[i] = requested[i]})

-----------------------------------------------------------------------------
(* The journal.                                                            *)

Write(key, about) == [type |-> "memory.write", key |-> key, about |-> about]
ToolEvent(type, role) == [type |-> type, key |-> "", about |-> role]

AgendaWrites == <<Write("latest_host_agenda", "host"), Write("host.agenda", "host"),
                  Write("last_self_agenda", "host")>>
PlanWrites == <<Write("latest_supervisor_plan", "supervisor"),
                Write("supervisor.plan", "supervisor")>>
ClaimWrites(role) == <<Write("latest_claim", role), Write("specialist.claim", role),
                       Write("last_self_claim", role)>>
SynthesisWrites == <<Write("latest_synthesis", "synthesis"),
                     Write("synthesis.summary", "synthesis"),
                     Write("last_self_synthesis", "synthesis")>>

-----------------------------------------------------------------------------
(* The build.                                                              *)

Init ==
    /\ limit \in AttemptLimits
    /\ \E strained \in BOOLEAN :
          /\ sig = SignalsForRound(strained)
          /\ route = Route(SignalsForRound(strained))
    /\ tries = 0
    /\ rerouted = FALSE
    /\ reroutes = 0
    /\ cause = "none"
    /\ registry = <<>>
    /\ refused = FALSE
    /\ topology \in {"host_led", "supervisor_led"}
    /\ stage = "selecting"
    /\ named = <<>>
    /\ order = <<>>
    /\ spoken = 0
    /\ step = 1
    /\ pad = <<>>
    /\ journal = <<>>
    /\ failure = "none"

Raise(why) == stage' = "failed" /\ failure' = why
\* The answer reached its agent and was of no use.
RefuseAnswer(why) ==
    /\ Answered
    /\ Raise(why)

\* HostAgent.run and HostLedSpeakerStrategy.plan_speakers.
HostSelects(answer) ==
    /\ stage = "selecting"
    /\ topology = "host_led"
    /\ \/ /\ ~HostPlanIsValid(answer)
          /\ RefuseAnswer("unparseable")
          /\ UNCHANGED <<planVars, journal>>
       \/ /\ HostPlanIsValid(answer)
          /\ Answered
          /\ named' = Agents(answer)
          /\ order' = Assigned(Agents(answer))
          /\ journal' = journal \o AgendaWrites
          /\ stage' = "speaking"
          /\ UNCHANGED <<topology, failure>>
    /\ UNCHANGED <<turnVars, registry, refused>>

\* SupervisorAgent.run and SupervisorLedSpeakerStrategy.plan_speakers: the
\* plan is in memory before the strategy finds that nobody runs.
SupervisorSelects(answer) ==
    LET slots == SupervisorSlots(answer)
        runnable == RunnableTurns(slots)
    IN
    /\ stage = "selecting"
    /\ topology = "supervisor_led"
    /\ \/ /\ slots = <<>>
          /\ RefuseAnswer("unparseable")
          /\ UNCHANGED <<planVars, journal>>
       \/ /\ slots # <<>>
          /\ runnable = <<>>
          /\ RefuseAnswer("nobody runs")
          /\ journal' = journal \o PlanWrites
          /\ UNCHANGED planVars
       \/ /\ runnable # <<>>
          /\ Answered
          /\ named' = runnable
          /\ order' = Assigned(runnable)
          /\ journal' = journal \o PlanWrites
          /\ stage' = "speaking"
          /\ UNCHANGED <<topology, failure>>
    /\ UNCHANGED <<turnVars, registry, refused>>

Speaker == order[spoken + 1]

\* SpecialistAgent.run: the claim ends the turn.
AfterTurn == IF spoken + 1 = Len(order) THEN "summing" ELSE "speaking"

Emit ==
    /\ stage = "speaking"
    /\ Answered
    /\ journal' = journal \o ClaimWrites(Speaker)
    /\ spoken' = spoken + 1
    /\ step' = 1
    /\ pad' = <<>>
    /\ stage' = AfterTurn
    /\ UNCHANGED <<planVars, failure, registry, refused>>

\* A thought or a tool call uses up an iteration; after the last one the
\* agent raises AgentBudgetExhausted.
UseIteration(entry) ==
    /\ pad' = Append(pad, entry)
    /\ UNCHANGED spoken
    /\ IF step < TurnBudget[Speaker]
       THEN step' = step + 1 /\ UNCHANGED <<stage, failure>>
       ELSE UNCHANGED step /\ Raise("budget")

Think ==
    /\ stage = "speaking"
    /\ Answered
    /\ UseIteration([kind |-> "think", ok |-> TRUE])
    /\ UNCHANGED <<planVars, journal, registry, refused>>

\* _dispatch_tool journals the call and its result around the dispatch.  The
\* history remembers a discovered tool that failed although its server was
\* well.
CallTool(name, outcome) ==
    LET ok == Dispatch(name, outcome) IN
    /\ stage = "speaking"
    /\ Answered
    /\ journal' = journal \o <<ToolEvent("agent.tool_call", Speaker),
                               ToolEvent("agent.tool_result", Speaker)>>
    /\ UseIteration([kind |-> "tool", ok |-> ok])
    /\ refused' = \/ refused
                  \/ name \in DOMAIN registry /\ outcome = "result" /\ ~ok
    /\ UNCHANGED <<planVars, registry>>

\* SynthesisAgent.run, and the round is returned.
Synthesize ==
    /\ stage = "summing"
    /\ Answered
    /\ journal' = journal \o SynthesisWrites
    /\ stage' = "returned"
    /\ UNCHANGED <<planVars, turnVars, failure, registry, refused>>

\* A specialist or the synthesis answers with something that does not parse.
AnswerUnparseable ==
    /\ stage \in {"speaking", "summing"}
    /\ RefuseAnswer("unparseable")
    /\ UNCHANGED <<planVars, turnVars, journal, registry, refused>>

\* Attempts on the fallback route: a supervisor makes one (central_mas.py
\* has its own copy of the calls), every other agent as many as before.
FallbackAttempts ==
    IF stage = "selecting" /\ topology = "supervisor_led" THEN 1 ELSE limit
Patience == IF rerouted THEN FallbackAttempts ELSE limit

\* BaseLLMAgent.generate_text and central_mas._generate_with_retries: an
\* attempt of the agent at work fails.
AttemptFails(error) ==
    /\ Working
    /\ \/ /\ TryAgain(error, Patience) \/ Reroute(error)
          /\ UNCHANGED <<stage, failure>>
       \/ /\ GiveUp(error, Patience)
          /\ Raise(error)
    /\ UNCHANGED <<planVars, turnVars, journal, registry, refused>>

\* The drive task is cancelled while it waits for a provider.  The mutant
\* cancels a build that is over.
CancelTheDone ==
    /\ stage' = "cancelled"
    /\ UNCHANGED <<callVars, planVars, turnVars, journal, failure, registry, refused>>
Cancel ==
    /\ Working
    /\ stage' = "cancelled"
    /\ UNCHANGED <<callVars, planVars, turnVars, journal, failure, registry, refused>>

AgentStep ==
    \/ \E answer \in Answers : HostSelects(answer) \/ SupervisorSelects(answer)
    \/ Emit
    \/ Think
    \/ \E name \in Names \cup {UnknownTool}, outcome \in RunOutcomes :
          CallTool(name, outcome)
    \/ Synthesize
    \/ AnswerUnparseable
    \/ \E t \in DOMAIN Generate : Generate[t] # "text" /\ AttemptFails(Generate[t])

\* Other threads change the registry while the build runs.
ToolsChange ==
    /\ Working
    /\ RegistryChanges
    /\ UNCHANGED <<callVars, buildVars>>

Next == AgentStep \/ Cancel \/ ToolsChange

Spec == Init /\ [][Next]_vars

\* A provider answers or times out; nobody is obliged to cancel a build or
\* to change the tools.
FairSpec == Spec /\ WF_vars(AgentStep)

-----------------------------------------------------------------------------
(* Properties.                                                             *)

\* Every variable holds a value of its kind.
TypeOK ==
    /\ CallTypeOK
    /\ stage \in {"selecting", "speaking", "summing", "returned", "failed", "cancelled"}
    /\ ToSet(order) \subseteq PlannedRoles
    /\ spoken \in 0..Len(order)
    /\ stage = "speaking" => step \in 1..TurnBudget[Speaker]

\* Once a call has been rerouted, no agent of the round goes back to the
\* route that was found dead: signals and route travel from agent to agent.
RerouteLasts ==
    [][reroutes > 0 => route' = route /\ Disaster(sig')]_vars

\* The agents nominated by the plan are the ones that speak, in its order:
\* pairing specialists with turns by position loses nobody, and the round is
\* not returned before all of them have spoken.
NobodyIsSkipped ==
    /\ stage # "selecting" /\ named # <<>> => order = named
    /\ stage = "returned" => spoken = Len(named) /\ spoken > 0

\* A build ends unless providers stop answering: no agent thinks, calls
\* tools or tries again for ever.
BuildEnds == <>(~Working)

\* The build keeps the contract the drive task relies on.
Contract == INSTANCE BuildContract WITH
    Specialists <- PlannedRoles,
    phase <- IF Working THEN "building" ELSE stage,
    lineup <- IF stage = "returned" THEN order ELSE <<>>,
    writes <- Len(journal)
KeepsContract == Contract!Spec

=============================================================================
