# Meetkat decision room, in TLA+

Formal models of the decision-room runtime in `src/decision_room`
and of the part of `frontend/src` that follows a room. TLC checks the models on
small instances, TLAPS proves the theorems for every value of the constants.
`PROJECT.json` is the machine-readable index: components, runs, mutants, the map
from definitions to source lines, findings, hazards and theorems.

Paths below are relative to `src/src/decision_room` unless they start with
`frontend/`, `docs/` or `tests/`.

## 1. The system

A *room* is one meeting. An operator states a requirement; pre-room planning
derives a topic, constraints and a roster of specialists; `RoomRuntime.create_room`
journals the opening events and starts an asyncio task that drives the meeting
round by round. In a round an executor calls language models (a host or a
supervisor, the specialists, a synthesis role) and returns a `RoomRound`; the
orchestrator streams it as events; the runtime decides whether the meeting goes
on. Every fact of a room is an event of its journal, and everything a client
sees is a projection of the journal.

| component | state | operations | correct when |
|---|---|---|---|
| runtime and drive task (`runtime/room_runtime.py`) | sessions, per room: journal, projector, subscribers, task | `create_room`, `_drive_room`, `publish`, `post_human_message`, `post_human_override`, `close`, `register_subscriber` | one end per room, last and explained; rounds in sequence; overrides stop the task; every meeting ends |
| journal and projector (`runtime/room_event_journal.py`, `room_projector.py`) | the events; a `RoomSnapshot` | `append`, `replay`, `apply` | `room_seq` is gapless; the snapshot is a function of the journal |
| control policy (`policies/room_control.py`) | none | write admission, end payloads | no write after the end |
| round emission (`orchestration/room_orchestrator.py`) | none (position in a coroutine) | `build_round`, `emit_round` | speakers are announced first; partial text is the speaker's |
| streaming endpoints (`runtime/http_api.py`) | one coroutine per connection | WebSocket and SSE handlers | nothing is delivered twice; the end arrives |
| frontend transport and store (`frontend/src/lib/transport.ts`, `room-store.ts`, `routes/room.tsx`) | `currentSeq`, the store | connect, fail over, reload | each event applied once, in order |
| round build and signals (`orchestration/room_executor.py`, `round_orchestrator.py`, `mas/hybrid.py`) | none beyond the snapshot it reads | phase, signals, consensus, end signal | a converged meeting ends; what a round leaves open or advises steers the next |
| speaker selection (`orchestration/speaker_strategies.py`, `central_mas.py`) | none | host or supervisor plans who speaks | every nominated specialist speaks, in order |
| agents (`agents/*.py`) | none | prompts, tool loop, retries, memory writes | budget respected, failures surface, nothing is journaled after the build |
| tools (`tools/registry.py`, `mcp_adapter.py`) | the registered tools, behind a lock | register, unregister, discover, dispatch | a listed tool answers |
| providers and routing (`providers`, `routing`, `policies`) | counters carried in the signals | route, retry, reroute once, fall back | a fallback only for a disaster; no way back to a dead route |
| memory (`memory/store.py`, `helpers.py`) | room memory by scope and role, its files; long-term lessons on disk and in a cache | write, recall, persist lessons | the memory is a function of the journal; lessons leave by age |
| pre-room planning (`orchestration/pre_room_planning.py`, `brief_planner.py`, `preflight.py`, `operator_entry_contracts.py`) | none beyond the environment | brief, cast, readiness and contract | a stub needs consent; failures of a planner close no door; contract and meeting agree |
| decision record and index (`runtime/decision_record.py`, `decision_index.py`) | files | export, index | the record matches the snapshot |

How they interact: the drive task calls the executor and the orchestrator and
hands both `publish`; `publish` appends to the journal, applies the event to the
projector and puts it in the subscribers' queues; the HTTP handlers call the
runtime and drain those queues; executors read the *live* snapshot object.

What is hard: the drive task suspends at dozens of points per round, and at each
of them messages, overrides, other connections and the shutdown run; the
override writes the end of the meeting by a path of its own; connections fail,
lag and overflow while the room publishes; a client's snapshot and its stream
are two requests; providers fail in the middle of a build; other threads change
the tools; disks fail and processes die between a write and its replacement. `PROJECT.json` lists each hazard at its line.

## 2. The modules

| module | what it is |
|---|---|
| `RoomRuntime` | a room: journal, projection, drive task, operator calls |
| `MeetingLifecycle` | what a room promises, with no journal or task; `RoomRuntime` implements it |
| `MCRoomRuntime` | `RoomRuntime` with two specialists, for TLC |
| `RoomRuntimeProofs` | theorems about `RoomRuntime`: types, ends, order of the journal, live text, overrides, and the refinement of `MeetingLifecycle` |
| `RoomStream` | a browser that follows a room |
| `RoomStreamProofs` | theorems about `RoomStream` |
| `Claims` | what a round of turns measures: clusters of claims, confidence, margin |
| `ClaimClusters` | the clustering loop, one claim per step, against `Claims` |
| `ClaimClusterProofs` | theorems about `ClaimClusters` |
| `Convergence` | rounds that feed one another until the meeting ends |
| `ConvergenceProofs` | theorems about `Convergence` |
| `Providers` | what an exchange with a model provider becomes |
| `ProviderCalls` | tiers, disaster policy, retries and the reroute of a call |
| `ToolRegistry` | registration, MCP discovery and dispatch of tools |
| `RoundBuild` | the build of a round, agent by agent, over the two modules above |
| `BuildContract` | what the drive task may assume of a build; `RoundBuild` implements it |
| `MCRoundBuild` | `RoundBuild` with two specialists, for TLC |
| `RoundBuildProofs` | theorems about `RoundBuild` |
| `LessonStore` | the files and caches of long-term lessons, write by write |
| `RoomMemory` | meetings, their memory and record, over `LessonStore` |
| `RoomMemoryProofs` | theorems about `RoomMemory` and `LessonStore` |
| `Preflight` | readiness, evidence, and the room-start contract |
| `PreRoomPlanning` | requests for a room: brief, cast, contract, over `Preflight` |
| `PreRoomProofs` | theorems about `PreRoomPlanning` |
| `Listing` | lists made from sets: `sorted`, filters, first occurrences |
| `ListingProofs` | lemmas about `Listing`, and induction over sets |

### RoomRuntime

The service is one asyncio event loop. A coroutine runs until it really
suspends: at `asyncio.sleep`, in a worker thread of an LLM call, in `gather`.
`async with session.lock` does not suspend, because no holder of the lock ever
awaits; `publish` is therefore atomic, and so is all the code from one
suspension point to the next. That is what an action is here:

| action | code between suspension points |
|---|---|
| `Init` | `create_room` up to the scheduling of the task |
| `BeginRound` | the task's first step, or its wake-up from `between_round_delay`, to the executor's first LLM call; reads the focus from the live snapshot |
| `BuildPublishes` | an agent, whichever, journals `memory.write` between two LLM calls |
| `BuildReturns` | the build's last call returns: `_ensure_round_participants_joined`, then the host's first chunk |
| `BuildFails` | the build raises: the `except` branch of `_drive_room` |
| `StreamChunk` | wake-up from the chunk delay with text left |
| `FinishHostMessage` | commit and message of the host, then the handoff and its pause, or the first specialist |
| `FinishMessage` | commit and message of a specialist, then the pause |
| `WakeBetweenTurns` | the next specialist, a challenge, or the round's end: summary, consensus check, and either `meeting.ended` or the pause before the next round |
| `WakeAfterChallenge` | the challenger's first chunk |
| `TaskCancelled` | `CancelledError` at the suspension point, re-raised |
| `PostHumanMessage`, `PostHumanOverride`, `OverrideReturns`, `Close` | the calls of the HTTP layer |

The state is the journal (an event is its type, its role, its round and a note:
the cause of an end, what a check says, whether a summary has a candidate), the
projection's fields that control anything, and the task's local state. An
executor is an environment: any non-empty sequence of distinct specialists, any
message length up to `MaxChunks`, handoff or not, challenge or not, candidate
or not, end or not. `parse_supervisor_plan` and the host's agenda nominate a role at
most once a round. The number of chunks is chosen step by step, which yields
the same behaviours as choosing it with the text.

Not in the module: the wording and payloads, the other rooms (rooms share
nothing but the stores), the memory projection (`memory.write` is journaled
and otherwise ignored, so that its writer does not matter), and
`agent.tool_call` and `agent.tool_result`, which the projector lists in a field of the
snapshot that controls nothing and which fall, like `memory.write`, between two
calls of a build; `RoundBuild` has them.

### RoomStream

One room, one page. The handler replays the journal from the sequence number the
client asks for, with a suspension in each send when the connection is full, and
then registers a queue; the client hands events to its store and remembers the
highest number; a lost connection fails over from WebSocket to SSE; a navigation
loads a fresh snapshot, which replaces the store and restarts the stream. An
event is its number, and its kind tells what SSE clients have no listener for
(`tool.*`, `memory.write`: `SSE_EVENT_TYPES`).

A connection that is gone takes its queue with it in the model. In the code a
WebSocket handler that waits in `queue.get` keeps its queue registered until the
next event; that queue feeds nobody.

### Claims, ClaimClusters and Convergence

`Claims` holds the pure part of `_measure_signals_from_turns`. A claim is the set
of its words; a claim written without Latin letters or digits has none and joins
no cluster. Confidences, shares and gaps are thousandths. `Founders` says without a
loop which claims open a cluster; `ClaimClusters` runs the code's loop over every
short sequence of claims and checks that it finds those founders and their
members.

`Convergence` makes one step of a whole round: `phase_for_round`,
`signals_for_round`, the coordination action, the measured claims, the synthesis,
`signals_after_round`, the consensus check, `resolve_round_end_signal`, and the
projection of the summary and of the consensus event, from which the next round starts. `RoomRuntime`
has the same round at every suspension point but leaves its content open; here
the content is what counts, and a message of the operator falls between rounds.
`depth` counts transcript entries up to seven, beyond which no rule looks.
Inputs are every measurement up to `MaxTurns` claims can give and every
synthesis `_parse_synthesis_output` accepts; `Answered` holds the questions
`question_answered_by_context` recognises, which depends on the planning
artifacts alone and so is fixed for a room. The list of open questions is cut at
`QuestionLimit`, six in the code. The model keeps which questions are listed and
not their order: `Filled` says that a list keeps what it has and takes as many
new questions as fit, any of them. What a rule looks at is who comes first, the
questions still open, the agenda's or the synthesis' own, and that order is
`OpenQuestions`. Of the routing signals the
module keeps those that steer a round; support, confidence and margin before a
round only pick a model tier.

### Providers, ProviderCalls, ToolRegistry, RoundBuild and BuildContract

`RoomRuntime` leaves a build open: it writes, and it returns or raises.
`RoundBuild` is that build. Its agents run one after another and suspend at LLM
calls only, so an action is what the code does from one answer, or failed
attempt, to the next.

| action | code |
|---|---|
| `Init` | `RoundOrchestrator.build_round` up to the first call: signals and route of the round |
| `HostSelects`, `SupervisorSelects` | the speaker strategy, from the parsed answer to the assignments, with the writes of the agent |
| `Think`, `CallTool`, `Emit` | one iteration of `SpecialistAgent.run`; `Emit` includes `_persist_claim` and the turn to the next specialist |
| `Synthesize` | `SynthesisAgent.run` and the end of `build_round` |
| `AnswerUnparseable` | the parser of a specialist or of the synthesis raises |
| `AttemptFails` | one failed attempt: `TryAgain`, `Reroute` or `GiveUp` of `ProviderCalls` |
| `Cancel` | `CancelledError` in an LLM call |
| `ToolsChange` | `register`, `unregister` or `register_mcp_tools` by another thread |

`ProviderCalls` keeps of `DecisionSignals` what routing looks at: whether a
provider was unreachable, the two counters, and *strain*, the disjunction that
asks for the escalation tier. `limit` is `MODEL_REQUEST_MAX_ATTEMPTS`. The pair
of signals and route is handed from agent to agent as in `RouteExecution`;
`central_mas.py` has a copy of the call loop of its own, whose second route gets
one attempt (`FallbackAttempts`), although its comment claims identical error
semantics. Backoff pauses are not modelled: nothing reads the clock.

Speaker plans are sequences of slots with a role, a flag and an order; both
parsers and the pairing by position are operators on them. Roles nobody planned
(`Strangers`) appear in answers. A tool's name is a sequence of fragments, so that
a prefixed name is a concatenation. A call may name any tool, registered or not;
the list an agent read for its prompt is not kept, because `dispatch` looks the
name up again whatever the prompt said. `DiscoveredToolsAnswer` is therefore
about the registry of the moment of the call, not about what was listed before
it: a tool that has gone since, or a name that another tool took, is an ordinary
outcome, and the build goes on (`BuildEnds`).

`BuildContract` is the abstract build: writes grow, a round that is returned has
distinct specialists, at least one, and after the end nothing is written. It is what
`RoomRuntime`'s `BuildPublishes`, `BuildReturns`, `BuildFails` and `TaskCancelled`
assume, and `KeepsContract` shows that `RoundBuild` implements it.

### LessonStore and RoomMemory

`RoomMemory` follows the `memory.write` events of a meeting through the projector
into the room memory and its files: a write to disk may fail at every event
(the exception is swallowed after the state has changed), and a process may die
between any two steps. A value is the number of the round that wrote it.
`MemoryOf` says without steps which memory a journal stands for.
`RecordedPlans` is what the decision record lists of the supervisor's plans, from
events that are capped and a fact that is not.

`LessonStore` splits an append into its cache update, `tmp.write_text` and
`tmp.replace`, because a failure or the death of the process may come between
them. Within a process the lock makes appends exclusive; two processes that use
one directory (the server and `scripts/run_meeting_and_export.py`) share only the
files. A lesson is the number of its meeting.

### Listing

Speaker plans, casts and the history of a memory are lists that the code sorts or
filters. `Listing` defines them over an order given as a set of pairs: `Listed`
sorts a finite set, `Picked` keeps some places of a list in their order, `Firsts`
are the places a loop with a `seen` set does not skip. The operators of the
community modules for this take an operator as their argument, which is closed to
the provers.

### Preflight and PreRoomPlanning

`PreRoomPlanning` serves requests one after another, because planning awaits
nothing and holds the event loop through both of its LLM calls. `Receive` is the
endpoint up to the planner, `PlanRequirement` the brief with its six ways to
fail, `PlanRoles` the cast, `Conclude` the contract and the answer. An
environment is the planner mode, what it states of the default target and of
the other two (all of it, all but the key of the supplier, the supplier alone,
nothing), and whether an executor is injected; the dicts of `runtime_readiness`
are computed from it as in `http_api.py`. The brief keeps how many
constraints it states, since that decides how many system constraints, and so
which of their keywords, are appended to it, and how often it names the keywords of each role.

In `Preflight` a question and a line of context are sets of words, and a line
answers a question that shares enough words with it. The dicts of a readiness are
functions on the keys they have; a text in them is the set of its words, and of the
guardrails the keys with a value are kept. `PlanningRuntimeContext` makes from a
readiness the context the meeting works with, key by key as
`_planning_runtime_context` does: modes without blanks, targets reduced to the
fields with a value, targets and tiers dropped when none is left. A meeting with an
injected executor, for one, has no `executor_targets` there, although the
readiness has an empty dict. The evidence lines of runtime and context are those of
`preflight.py`, each with all its words. Two simplifications remain in the
defaults of an entry scope (`ScopeDefaults`): one line stands for the three of a key, and
the two contracts without a rule of their own (`entry_contract`,
`transport_contract`) are left out. They would be evidence of the same kind, in the
contract and in the meeting alike.

## 3. Runs

All runs but `pre_room` disable TLC's deadlock check, because a room or a build
that has ended and a client that has caught up stop, and so do bounded meetings
and claim lists.

| run | instance | checks |
|---|---|---|
| `room_meeting` | 2 specialists (one joins late), 2 rounds, 1 chunk, 1 operator message, fairness | `TypeOK`, `NothingFollowsMeetingEnded`, `EndFollowsItsCause`, `RoundsRunInSequence`, `SpeakersJoinedFirst`, `RolesJoinOnce`, `MeetingEnds`, `OverrideIsAnswered`, `ImplementsLifecycle` |
| `room_streaming` | 1 round, 2 chunks, 1 operator message, 1 memory write | `LiveTextIsTheSpeakers`, `OverrideAnswerIsFinal` |
| `stream_delivery` | queue 2, buffer 1, 5 events, 2 loads, 1 drop, fairness | `TypeOK`, `AppliedOnceInOrder`, `InFlightIsUnseen`, `EndReachesSubscriber` |
| `claim_clusters` | every sequence of up to 4 claims over 3 words | `LoopFindsTheFounders` |
| `convergence` | 4 rounds, up to 2 speakers, 2 words, 1 candidate, 2 questions of which 1 is listed, advice | `TypeOK`, `ThresholdIsOutOfReach`, `RaisedQuestionBlocksDecide`, `ProposalSettlesThePhase`, `AdviceLastsOneRound`, `RepeatedFollowUpEnds`, `NoQuestionIsDisplaced` |
| `round_build` | 2 specialists with budgets 3 and 1, 1 stranger, plans of up to 2 turns, 1 or 2 attempts, 3 distinct targets, 1 local and 1 discovered tool, fairness | `TypeOK`, `FallbackNeedsADisaster`, `NobodyIsSkipped`, `DiscoveredToolsAnswer`, `RerouteLasts`, `KeepsContract`, `BuildEnds` |
| `room_memory` | 1 process, 2 roles, 3 meetings of up to 2 rounds, caps of 2 | `TypeOK`, `MemoryFollowsJournal`, `RecordHasTheLatestPlan`, `LessonsLeaveByAge` |
| `pre_room` | 3 planner modes, 4 ways to state the default target and 3 the others, answers of up to 2 roles, 1 or 6 constraints, 0 or 5 keywords of each role, 2 questions | `TypeOK`, `StubOnlyWithConsent`, `OnlyABadAnswerCloses`, `OnlyTheExecutorBlocks`, `MeetingAgreesOnQuestions`, `RiskHasASeat` |

The bounds of `claim_clusters` and `convergence`: four claims are the first number at which a claim can
resemble two founders and a later member of either; two speakers give no
cluster, one and two, and four listed points saturate what a synthesis adds;
four rounds show a round that follows one it must ignore (an old question, an
old piece of advice) as well as one it must heed. A limit of one question with two
to be raised makes every list a full one, to which a further question is
raised. `ConvergenceProofs` removes
these bounds for the properties, and `ClaimClusterProofs` those of `claim_clusters`.

Why these bounds are enough. Two rounds show every transition between rounds and
both ways to end (`MaxRounds` only matters through "is it the last"); two
specialists show a late join, a return and a challenge; two chunks show the
first, a later and the last chunk. Operator messages may come at every
suspension point of both runs. A queue of two that
receives five events overflows with and without the client's help; one lost
connection covers the failover, and the second load the navigation that
overtakes a running stream. The counters `MaxHuman`, `MaxBuildWrites`, `MaxEvents`,
`MaxLoads` and `MaxDrops` bound the environment only.

Two attempts are the threshold of the disaster policy and one is below it. A
budget of three holds a thought or a tool call before the last one, a budget of
one (the default) holds nothing but the claim. Plans of two turns, with a stranger and
an order, can nominate twice, out of order, and somebody unknown. Three
meetings overflow the lesson cap of two, two rounds the cap on events. In
`pre_room` the bounds decide only what a planner may write: six constraints leave no
place for a system constraint and one leaves place for all three, five keywords
outweigh any the system constraints contribute and none does not; questions are
filtered one by one, so that briefs of at most one suffice, the two asked having one and
two words that count. A role planner's answer of two entries can repeat a role and
name a stranger; that a third or fourth entry is kept as well is not checked.

Fairness. `RoundBuild` assumes weak fairness of the agents' steps taken together:
every attempt ends in an answer or an error, for the HTTP client has a time-out.
Nobody is obliged to cancel a build or to change the tools. `RoomRuntime` assumes weak fairness of the drive task and of the
override's `gather`: the event loop runs every ready coroutine, sleeps are
finite, and an LLM call returns or raises within the provider's timeout.
Nothing obliges an operator to act or the service to stop. `RoomStream`
assumes weak fairness of the handler, of delivery and of the browser's handlers
and reconnect timer, none of publishing, navigating or breaking connections; the
drops are bounded, since a connection that always breaks delivers nothing.

Every property has a mutant in `PROJECT.json`: a plausible slip in one mapped
definition (a forgotten cancellation, a stale roster, a wrong round test, a queue that
drops the newest event, ...) under which TLC finds the property violated.

## 4. Findings

Runs that expect a violation each check one statement of the repository's own
documents that the code does not keep.

| run | statement | what happens |
|---|---|---|
| `stream_replay_gap` | `docs/tech/P0-1-mas-runtime-interface-freeze.md:114`: replay the gap, then switch to the live stream | events published while the replay is being sent are in neither |
| `tool_prefix` | `tools/mcp_adapter.py:7`: every tool the client exposes is registered | with `name_prefix` the adapter asks the server for the prefixed name, which the server does not know: no discovered tool ever answers |
| `lessons_shared` | `memory/store.py:169`: append-only | an append rewrites the file from a list cached at the first read, and takes away what another process wrote since |
| `operator_inputs` | `docs/plans/active/PLAN-20260405-003.md:224`: the defaults say which inputs still belong to the operator | the list of those inputs counts as evidence, so a question about one of them is taken as answered and dropped |

Observed while modelling, and left without a run of their own:

* `post_human_override` journals `meeting.ended` itself and skips the lessons
  (`room_runtime.py:385`).
* `last_human_message` is never cleared, so every later round's focus turns to a
  message that has been taken up (`room_executor.py:326`).
* A full subscriber queue drops its oldest event, and the client acknowledges
  past it (`room_runtime.py:560`).
* The measured signals never reach the thresholds of `mas/hybrid.py`
  (`ThresholdIsOutOfReach`): a meeting that agrees ends by the synthesis's word or by
  its budget. `rounds_without_progress` is 0 or 1, so the rules that wait for 2
  never fire.
* A question that is raised while the list of open questions is full is lost: it is in no
  snapshot and holds up no decision (`round_orchestrator.py:205`). The old ones stay, which
  is what `NoQuestionIsDisplaced` says.
* The supervisor's open questions bypass the filter of answered questions
  (`central_mas.py:210`).
* The primary planner's errors offer a fallback even where none is configured;
  the refusal then tells the client `can_fallback` although a second request
  fares no better (`brief_planner.py`, mode `primary`).
* A body of the role planner that is no completion raises through the endpoint;
  `OnlyABadAnswerCloses` names this exception.
* System constraints are dropped from a brief that states more than three of its
  own (`SystemConstraintsKept`).
* In a cast by keywords the seat ensured for implementation may be taken again
  for risk (`EnsureRole`).

## 5. Proofs

`RoomRuntimeProofs` proves, for any finite set of specialists, any opening
roster, round budget and message length:

* `TypeCorrect`: `Spec => []TypeOK`
* `EndIsLast`: `Spec => []NothingFollowsMeetingEnded`
* `EndExplained`: `Spec => []EndFollowsItsCause`

They rest on the named assumptions of `RoomRuntime` (roles are finitely many and none
is called `host`, `synthesis`, `human` or `system`; the roster repeats nobody;
the bounds are numbers), which TLC evaluates in every run.

None of the three is inductive alone. That nothing follows the end needs to know
that a room that has ended has no running task, or a cancelled one; and that a
check which signals the end is never left as the last event. `IInv` adds

* `LogMatchesStatus`: the projected status is "ended" exactly when the last
  event is `meeting.ended`, and no earlier event is;
* `Explained`: every end and every end-signalling check has its neighbour, and
  checks carry rounds that have begun;
* `EndedRoomIsQuiet`: in an ended room the task has stopped or is cancelled;
* `ChallengeHasSpeaker`: a task that waits after a challenge has a speaker.

The proof follows the code: lemmas say what appending plain events, a check or an
end does to the log part of the invariant, and each action is then one lemma.
Proved lemmas about `NextTurn` and `FinishRound` are shared by the actions that
end in them.

The second half of `RoomRuntimeProofs` goes on from `IInv` and proves, under the
same assumptions:

* `JournalInOrder`: `Spec => []OrderInv`, and from it
  `RoundsInSequence`: `Spec => []RoundsRunInSequence`,
  `JoinBeforeSpeech`: `Spec => []SpeakersJoinedFirst`,
  `JoinOnce`: `Spec => []RolesJoinOnce`
* `LiveTextMatches`: `Spec => []LiveTextIsTheSpeakers`
* `OverrideIsFinal`: `Spec => OverrideAnswerIsFinal`
* `RoomImplementsMeeting`: `Spec => ImplementsLifecycle`

All but the live text rest on one lemma, `StepIsBatch`: every step of a room
leaves journal, projection, round and line-up alone or appends one *batch*, which joins only strangers
and each once, lets only joined roles speak, stays in the current round, and goes on,
takes a message, closes the round, or ends the meeting. What follows is about
batches, not about the twelve actions. `OrderInv` is the three properties with

* `LineupJoined`: the specialists of the current line-up have joined, which is
  what makes a speech of theirs orderly;
* `RosterFollowsJournal`: the projected roster is that of the journal's joins;
* `RoundsClosed`: no event is of a later round than the current one, and every
  event of an earlier one has that round's closing check behind it.

For the refinement, a batch maps to the abstract step of its last event
(`BatchRefines`), and a quiet step to a stutter or, where only the task is
concerned, to nothing at all; the abstract round count is `Completed`. An override
is final because a room that has ended accepts no batch and a task that has
stopped takes no step (`OverrideInv`). `LiveInv` adds to the live text that a
cancelled task has a cause (`CancelHasCause`), without which a step that a
cancellation interrupts would leave partial text behind in a running room.

`ConvergenceProofs` proves, for any words, confidences, numbers of speakers and
questions, and any round budget:

* `ThresholdNeverReached`: `Spec => []ThresholdIsOutOfReach`
* `QuestionsBlockDecide`: `Spec => []RaisedQuestionBlocksDecide`
* `ProposalSettles`: `Spec => []ProposalSettlesThePhase`
* `AdviceIsFresh`: `Spec => []AdviceLastsOneRound`
* `FollowUpEnds`: `Spec => []RepeatedFollowUpEnds`
* `QuestionsKeepTheirPlace`: `Spec => NoQuestionIsDisplaced`
* `MeetingTyped`: `Spec => []TypeOK`

The first is inductive by itself. Its lemma `MeasuredSplit` says that a round
measures either a margin of 0 or 0.05 (no cluster, or one) or a disagreement of a
half or more; the boost of a synthesis moves the one to 0.11 at most and the other to
0.38 at least (`NoRoundReaches`). The next five share the invariant `HInv`,
whose additions are that the snapshot a round starts from is what the last one
left (`Linked`), that nothing left open is closed (`QuestionsKept`) and that no list
is longer than the limit (`WithinLimit`). The limit is why the last is needed: what is
still visible fits into a list (`NothingIsCut`), keeps its place while agenda and
synthesis fill up the rest (`FilledKeeps`), and so reaches the next round
(`VisibleStays`). `MeetingTyped`
is the ranges of the signals, each from the expressions that clamp it: the sum and
the mean of the confidences are typed by the set form of induction below
(`SumIsNatural`, `MeanIsNatural`), the best mean leads the next by a natural number
(`LeadIsNatural`), and from these the measured values follow (`MeasureTyped`). They
rest on `SignalAssumption` and `InputAssumption`.

`ClaimClusterProofs` proves, for any finite set of words and any number of claims
(`WordsAssumption`: a text has finitely many words):

* `LoopFinds`: `Spec => []LoopFindsTheFounders`
* `ClustersDiffering`: `Spec => []ClustersDiffer`, which is no invariant of a run,
  for it follows from the first

`FoundersAre` unfolds the recursive `Founders` into what it says of each claim. From
it follow that what a list's claims found and whom they join does not depend on
the claims behind them (`FoundersOfMore`, `FounderOfMore`), and so how founders and
members change with one claim more (`OneClaimMore`); each branch of the loop then
keeps up with that (`WordlessClaimFinds`, `NewClusterFinds`,
`JoinedClusterFinds`). That the first match in the list of clusters is the claim's
founder rests on the clusters being in the order of their founders, which is why
`LoopFindsTheFounders` says so.

`RoundBuildProofs` proves, for any roster, budgets, targets, attempt limits, plan
lengths and tools:

* `CallsTyped`: `Spec => []CallTypeOK`
* `FallbackExplained`: `Spec => []FallbackNeedsADisaster`
* `DeadRoutesStayDead`: `Spec => RerouteLasts`
* `UnprefixedToolsAnswer`: if `Prefix = <<>>`, `Spec => []DiscoveredToolsAnswer`
* `BuildTyped`: `Spec => []TypeOK`
* `EverybodyNamedSpeaks`: `Spec => []NobodyIsSkipped`
* `BuildKeepsTheContract`: `Spec => KeepsContract`

The first three share the invariant `CInv`: the route is always the one the
signals select, the signals are clean until the first reroute and show an
explained disaster from then on (`CallsExplained`), and an agent at work has an
attempt left. The argument is that of `OnlyDisasterReroutes`: a failure does not
change the strain, so the selected route changes only when a disaster appears, and
`DisasterLasts`: the counters grow. A round therefore reroutes at most once
(`RerouteKeeps`). They rest on `TargetAssumption` and `LimitsAssumption`. The
hypothesis of `UnprefixedToolsAnswer` is the one `tool_prefix` shows to be needed.

The last three share `TurnsInv`: the order of the turns repeats nobody and is the
one the plan names (`Lineup`), the turns before the current one are done, and a
build sums up and returns only after the last. That both parsers and the pairing by position come to such an
order is shown with the lemmas of `ListingProofs`: a filter by first occurrences
repeats nobody (`FirstPlaces`, `PickedOnce`), and a list without repetition loses
nothing when it is resolved against the roster (`AllFirst`, `PickedAll`). They
add `NominationsAssumption` and `BudgetAssumption` (`max(1, ...)` in
`SpecialistAgent.run`).

`PreRoomProofs` proves, for any environment, request, words and bounds:

* `StubNeedsConsent`: `Spec => []StubOnlyWithConsent`
* `DoorsStayOpen`: `Spec => []OnlyABadAnswerCloses`
* `ExecutorAloneBlocks`: `Spec => []OnlyTheExecutorBlocks`
* `SameQuestionsOpen`: `Spec => []MeetingAgreesOnQuestions`
* `PlansAreTyped`: `Spec => []TypeOK`
* `RiskIsSeated`: `Spec => []RiskHasASeat`

Its invariant says which planner made the brief and with whose leave
(`BriefExplained`), why a request was turned away (`ClosedDoors`), and of what the
answer is made (`AnswerExplained`); the second and third theorem need the first
of these, because whether a planner is a blocker is decided after its work.
`SameQuestionsOpen` compares two dicts that differ: `ContextKeys` says which keys the
context has, `NormalizedTells` that a target without its blank fields reads as the
target (an absent field is a blank one), `DefaultKept` that this also holds of a
default tier that was dropped with what held it, and `SameEvidence` that the two
yield the same evidence lines. The last two share `CastInv`, which keeps the cast that a stage was left with
(`Seated`, and `CastByKeywords` where no model was asked). The risk specialist keeps its seat
because it is ensured last, in a list of which at most two seats are kept for
others. They rest on `BriefAssumption` and `PicksAssumption`.

`RoomMemoryProofs` proves, for any roles, caps, numbers of meetings and rounds,
and any number of processes:

* `MemoryIsTheJournals`: `Spec => []MemoryFollowsJournal`
* `LatestPlanIsRecorded`: `Spec => []RecordHasTheLatestPlan`

and, if `OneProcess`:

* `MemoryTyped`: `Spec => []TypeOK`
* `LessonsLeaveOnlyByAge`: `Spec => LessonsLeaveByAge`

For the first, `MemoryNext` says that the memory of a journal one write longer
is the memory with that write remembered: the newest events of a filtered list
are those of its newest with one more (`PickedAppend`, `NewestOfNewest`), and no other scope
or key changes. The second needs `RecordInv` besides: a journal's place tells its
round, the latest fact is the last round's, and the events in memory are the
journal's. The two about lessons need that one process uses the directory:
`lessons_shared` is the counterexample for two. `LessonsInv` is four parts:

* `ShelvesTyped`: every list is ascending and within the cap, so that no file is
  torn;
* `LessonsNumbered`: what an append has still to write is newer than anything on
  its shelf;
* `AppendsStaged`: between two writes of an append, the temporary file is what the
  cache holds;
* `CachesFollow`: what a file has and the cache has not is older than all of a
  full cache. The cache may be ahead of the file by appends that failed or died
  with a write, which is why "the cache is the file" is no invariant.

They rest on `EventCapAssumption`, `MeetingsAssumption`, `LessonCapAssumption`,
`RolesAssumption` and `MarkersAssumption` (the markers of an absent, torn or
unread list are not lists).

The installed provers cannot instantiate an induction theorem that takes a
predicate. `ListingProofs` states induction for the set of the numbers that have
a property instead (`NatInductionOn`, `SubsetInduction`, from the
well-ordering of the numbers by `LeastOf`), which they can. From it follow that every finite
set has exactly one listing (`ListingExists`, `ListingUnique`), that listings of
numbers ascend, and what `Picked` and `Firsts` do to a list.

`RoomStreamProofs` proves, for any sizes of queue and buffer, any number of events,
drops and reloads:

* `TypeCorrect`: `Spec => []TypeOK`
* `StoreInOrder`: `Spec => []AppliedOnceInOrder`
* `FlightUnseen`: `Spec => []InFlightIsUnseen`

Neither order property is inductive. `OrderInv` adds that a handler sends from its
backlog or from its queue, never from both (`OneSource`), that what is left to
send lies behind the wire and all of it ahead of what the client has acknowledged
(`Ahead`), and that the store stays below that mark (`StoreBehind`). The first
lemmas say of `Ahead` what the code does to two sequences: an event is appended
behind (`PushAhead`), dropped by a full queue (`DropAhead`), sent (`ShiftAhead`),
delivered (`DeliverAhead`), or replayed (`ReplayAhead`); each action is then one
lemma. They rest on `StreamAssumption`.

Only model-checked: liveness (`MeetingEnds`, `OverrideIsAnswered`,
`EndReachesSubscriber`, `BuildEnds`), for the prover does not handle fairness. Every
other property of a passing run is a theorem, `DiscoveredToolsAnswer` and the last
two of `RoomMemoryProofs` under the hypotheses named with them.

## 6. What is not modelled

* Prompts, the wording of events, messages, briefs and records, logging and
  rendering: no property is about them.
* The parsers of model output, beyond which answers they refuse and which roles,
  turns and flags they keep.
* The HTTP client: `Providers` says what its outcomes become.
* `preflight.assess_external_dependency_preflight`: nothing in the program calls it.
* `applyRoomEvent` of the frontend, a second projection of the events with
  defaults of its own; `RoomStream` checks what it is given.
* The decision record but for its plans, and the index: both format what others
  hold.
* The demo executor (its rounds are among those `RoomRuntime` allows) and the
  scripts but for the one that shares the lessons.
* The second build after a `TypeError`: it publishes nothing.

TLC explores one room at a time: rooms share the lesson store (`LessonStore`,
where a process appends for one meeting at a time, as its lock has it) and the
tool registry (`ToolsChange`).

## 7. Plan

What is left, most important first:

1. `ClientProjection`: the frontend's `applyRoomEvent` against the server's
   projector.
2. The decision index, and the record against the snapshot.
