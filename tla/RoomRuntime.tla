----------------------------- MODULE RoomRuntime -----------------------------
(***************************************************************************)
(* One room of the decision-room runtime (runtime/room_runtime.py): the    *)
(* event journal and its projection, the task that drives the meeting      *)
(* (_drive_room, with the emission order of RoomOrchestrator.emit_round),  *)
(* and the calls an operator makes while it runs: human messages, the      *)
(* human override and the shutdown of the service.                         *)
(*                                                                         *)
(* The service is one asyncio event loop.  The room lock is never held     *)
(* across an await, so publish() does not suspend its caller, and code     *)
(* between two real suspension points (asyncio.sleep, the worker thread    *)
(* of an LLM call, gather) runs atomically.  One action below is what the  *)
(* code does from one suspension point to the next; pc names the point     *)
(* the drive task is suspended at.                                         *)
(***************************************************************************)
EXTENDS Naturals, Sequences, FiniteSets

CONSTANTS
    Specialists,     \* the specialist roles an executor may nominate
    OpeningRoster,   \* the roles create_room announces, in order
    MaxRounds,       \* RoomControlConfig.max_rounds
    MaxChunks,       \* most chunks _split_chunks makes of a message
    MaxHuman,        \* bound: human messages the operator posts
    MaxBuildWrites   \* bound: memory.write events journaled by one build

ASSUME SpecialistsAssumption ==
    /\ IsFiniteSet(Specialists)
    /\ Specialists \cap {"host", "synthesis", "human", "system"} = {}
ASSUME RosterAssumption ==
    /\ OpeningRoster \in Seq(Specialists)
    /\ \A i, j \in DOMAIN OpeningRoster :
          OpeningRoster[i] = OpeningRoster[j] => i = j
ASSUME BoundsAssumption ==
    /\ MaxRounds \in Nat \ {0}
    /\ MaxChunks \in Nat \ {0}
    /\ MaxHuman \in Nat
    /\ MaxBuildWrites \in Nat

VARIABLES
    journal,       \* RoomEventJournal._events; room_seq is the index
    status,        \* snapshot.status
    participants,  \* the specialist roles in snapshot.participants
    live,          \* the speakers with an entry in snapshot.live_chunks
    candidate,     \* snapshot.candidate_decision is not empty
    heard,         \* human.message events so far; snapshot.last_human_message
                   \* is the text of the latest one
    lessons,       \* the roles whose lesson of this room is in long-term memory
    pc,            \* where the drive task is suspended
    round,         \* its round_index
    lineup,        \* the speakers of round_data.messages[1:]
    turn,          \* the message being emitted: 0 is the host's
    chunks,        \* chunks of that message emitted so far
    writes,        \* memory.write events of the build in progress
    focus,         \* resolve_focus of the round: "plan" or "human"
    cancelled,     \* task.cancel() was called on the drive task
    override,      \* the caller of post_human_override
    open           \* the session is still in RoomRuntime._sessions

roomVars == <<journal, status, participants, live, candidate, heard>>
roundVars == <<round, lineup, turn, chunks, writes, focus>>
vars == <<roomVars, lessons, pc, roundVars, cancelled, override, open>>

-----------------------------------------------------------------------------
(* Events, reduced to what the runtime and its clients tell apart.         *)

EventTypes == {"planning.completed", "room.started", "agent.joined",
               "memory.write", "message.chunk", "message.commit",
               "agent.message", "agent.handoff", "agent.challenge",
               "agent.summary", "consensus.check", "human.message",
               "human.override", "meeting.ended"}
Speakers == Specialists \cup {"host", "synthesis", "human", "system"}
EndCauses == {"orchestration", "budget", "override", "runtime_failure"}
Notes == EndCauses \cup {"", "end", "continue", "candidate"}
Event == {e \in [type : EventTypes, by : Speakers, round : Nat, note : Notes] :
             e.type = "agent.joined" => e.by \in Specialists}

Ev(type, by, r, note) == [type |-> type, by |-> by, round |-> r, note |-> note]
Ended(cause) == Ev("meeting.ended", "system", 0, cause)
Check(r, note) == Ev("consensus.check", "system", r, note)
Joined(role) == Ev("agent.joined", role, 0, "")
JoinEvents(roles) == [i \in 1..Len(roles) |-> Joined(roles[i])]

Has(es, type) == \E i \in DOMAIN es : es[i].type = type
By(es, types) == {es[i].by : i \in {k \in DOMAIN es : es[k].type \in types}}

\* Sequences of distinct specialists: parse_supervisor_plan and the host's
\* agenda nominate a role at most once a round.
Lineups ==
    {s \in UNION {[1..n -> Specialists] : n \in 0..Cardinality(Specialists)} :
        \A i, j \in DOMAIN s : s[i] = s[j] => i = j}

\* The roles of a lineup that still have to join, in speaking order.
AreNewcomers(joins, speakers, known) ==
    /\ {joins[i] : i \in DOMAIN joins}
          = {speakers[i] : i \in DOMAIN speakers} \ known
    /\ \A i, j \in DOMAIN joins : \A k, m \in DOMAIN speakers :
          i < j /\ joins[i] = speakers[k] /\ joins[j] = speakers[m] => k < m

-----------------------------------------------------------------------------
(* Writing to the room.                                                    *)

\* Speakers whose partial text is shown: a chunk adds it, the full message
\* takes it away.
LiveNeverPopped(es) == live \cup By(es, {"message.chunk"})
LiveAfter(es) == (live \cup By(es, {"message.chunk"})) \ By(es, {"agent.message"})

\* RoomProjector.apply of each event, on the fields this module keeps.
Project(es) ==
    /\ status' = IF Has(es, "meeting.ended") THEN "ended" ELSE status
    /\ participants' = participants \cup By(es, {"agent.joined"})
    /\ live' = LiveAfter(es)
    /\ candidate' = IF Has(es, "agent.summary")
                    THEN \E i \in DOMAIN es : es[i].note = "candidate"
                    ELSE candidate
    /\ heard' = IF Has(es, "human.message") THEN heard + 1 ELSE heard

\* RoomRuntime._append_event of each event: the journal and its projection.
AppendEvents(es) ==
    /\ journal' = journal \o es
    /\ Project(es)

\* persist_meeting_lessons_from_snapshot: one lesson for each specialist in
\* the transcript, provided the meeting has a candidate decision.
LessonsOf(log, decided) ==
    IF decided
    THEN By(log, {"agent.message", "agent.challenge"}) \cap Specialists
    ELSE {}

\* RoomRuntime.publish, for the events one uninterrupted run publishes.
Publish(es) ==
    /\ AppendEvents(es)
    /\ lessons' = IF Has(es, "meeting.ended")
                  THEN lessons \cup LessonsOf(journal', candidate')
                  ELSE lessons

-----------------------------------------------------------------------------
(* The drive task.                                                         *)

Running == open /\ ~cancelled

\* create_room runs without suspension, so the room is first seen with its
\* opening events journaled and its task scheduled.
Init ==
    /\ journal = <<Ev("planning.completed", "system", 0, ""),
                   Ev("room.started", "system", 0, "")>>
                 \o JoinEvents(OpeningRoster)
    /\ status = "running"
    /\ participants = {OpeningRoster[i] : i \in DOMAIN OpeningRoster}
    /\ live = {}
    /\ candidate = FALSE
    /\ heard = 0
    /\ lessons = {}
    /\ pc = "scheduled"
    /\ round = 1
    /\ lineup = <<>>
    /\ turn = 0
    /\ chunks = 0
    /\ writes = 0
    /\ focus = "plan"
    /\ cancelled = FALSE
    /\ override = "idle"
    /\ open = TRUE

\* resolve_focus, read from the live snapshot as the build begins.
ResolveFocus == IF heard > 0 THEN "human" ELSE "plan"

\* The first step of the task, or its wake-up from between_round_delay: the
\* executor starts to build the round.
BeginRound ==
    /\ Running
    /\ pc \in {"scheduled", "roundDelay"}
    /\ pc' = "building"
    /\ writes' = 0
    /\ focus' = ResolveFocus
    /\ UNCHANGED <<roomVars, lessons, round, lineup, turn, chunks, cancelled,
                   override, open>>

\* An agent of the build (host, supervisor, specialist or synthesis) journals
\* a memory write between two LLM calls, as "system".
BuildPublishes ==
    /\ Running
    /\ pc = "building"
    /\ writes < MaxBuildWrites
    /\ Publish(<<Ev("memory.write", "system", round, "")>>)
    /\ writes' = writes + 1
    /\ UNCHANGED <<pc, round, lineup, turn, chunks, focus,
                   cancelled, override, open>>

\* The roles _ensure_round_participants_joined takes as joined, and two
\* mutants of it: every planned role, and the opening roster.
AllPlannedRoles == Specialists
RolesJoinedAtStart == {OpeningRoster[i] : i \in DOMAIN OpeningRoster}
JoinedRoles == participants

\* build_round returns: _ensure_round_participants_joined, then the first
\* chunk of the host's message.
BuildReturns(speakers, joins) ==
    /\ Running
    /\ pc = "building"
    /\ AreNewcomers(joins, speakers, JoinedRoles)
    /\ Publish(JoinEvents(joins) \o <<Ev("message.chunk", "host", round, "")>>)
    /\ pc' = "streaming"
    /\ lineup' = speakers
    /\ turn' = 0
    /\ chunks' = 1
    /\ UNCHANGED <<round, writes, focus, cancelled, override, open>>

\* What the exception handler publishes, and the mutant that returns without
\* closing the meeting.
FailsSilently == <<>>
FailureEvents == <<Ended("runtime_failure")>>

\* build_round raises.
BuildFails ==
    /\ Running
    /\ pc = "building"
    /\ Publish(FailureEvents)
    /\ pc' = "stopped"
    /\ UNCHANGED <<roundVars, cancelled, override, open>>

Speaker == IF turn = 0 THEN "host" ELSE lineup[turn]

\* The task wakes from the chunk delay with text left to send.
StreamChunk ==
    /\ Running
    /\ pc = "streaming"
    /\ chunks < MaxChunks
    /\ Publish(<<Ev("message.chunk", Speaker, round, "")>>)
    /\ chunks' = chunks + 1
    /\ UNCHANGED <<pc, round, lineup, turn, writes, focus,
                   cancelled, override, open>>

\* What closes a round; the mutant forgets the consensus check.
SummaryOnly(decided, note) ==
    <<Ev("agent.summary", "synthesis", round, IF decided THEN "candidate" ELSE "")>>
RoundEvents(decided, note) ==
    <<Ev("agent.summary", "synthesis", round, IF decided THEN "candidate" ELSE ""),
      Check(round, note)>>

\* Why the room closes after a round whose check carries note, "" when it
\* does not; the mutants spend the budget one round early, or late.
ClosingCauseLate(note) ==
    CASE note = "end" -> "orchestration"
      [] note = "continue" /\ round > MaxRounds -> "budget"
      [] OTHER -> ""
ClosingCauseEarly(note) ==
    CASE note = "end" -> "orchestration"
      [] note = "continue" /\ round >= MaxRounds - 1 -> "budget"
      [] OTHER -> ""
ClosingCause(note) ==
    CASE note = "end" -> "orchestration"
      [] note = "continue" /\ round = MaxRounds -> "budget"
      [] OTHER -> ""

\* The rest of a round after its last speaker, up to the next suspension.
\* earlier holds what the same run has published already.
FinishRound(earlier) ==
    \E decided \in BOOLEAN, note \in {"end", "continue"} :
        /\ UNCHANGED <<lineup, turn, chunks>>
        /\ \/ /\ ClosingCause(note) # ""
              /\ Publish(earlier \o RoundEvents(decided, note)
                                 \o <<Ended(ClosingCause(note))>>)
              /\ pc' = "stopped"
              /\ round' = round
           \/ /\ ClosingCause(note) = ""
              /\ Publish(earlier \o RoundEvents(decided, note))
              /\ pc' = "roundDelay"
              /\ round' = round + 1

\* A specialist starts to speak: the first chunk of its message.
StartMessage(earlier, next) ==
    /\ Publish(earlier \o <<Ev("message.chunk", lineup[next], round, "")>>)
    /\ turn' = next
    /\ chunks' = 1
    /\ pc' = "streaming"
    /\ UNCHANGED <<round, lineup>>

\* A later speaker whose message names the claim it targets first challenges
\* it, and pauses.
Challenge(earlier, next) ==
    /\ next > 1
    /\ Publish(earlier \o <<Ev("agent.challenge", lineup[next], round, "")>>)
    /\ turn' = next
    /\ pc' = "challengeDelay"
    /\ UNCHANGED <<round, lineup, chunks>>

\* The next iteration of emit_round's loop over the specialists.
NextTurn(earlier) ==
    \/ /\ turn < Len(lineup)
       /\ StartMessage(earlier, turn + 1)
    \/ /\ turn < Len(lineup)
       /\ Challenge(earlier, turn + 1)
    \/ /\ turn = Len(lineup)
       /\ FinishRound(earlier)

MessageEvents == <<Ev("message.commit", Speaker, round, ""),
                   Ev("agent.message", Speaker, round, "")>>

\* The host's message is complete; a handoff pauses, otherwise the first
\* specialist follows at once.
FinishHostMessage ==
    /\ Running
    /\ pc = "streaming"
    /\ turn = 0
    /\ \/ /\ Publish(MessageEvents \o <<Ev("agent.handoff", "host", round, "")>>)
          /\ pc' = "turnDelay"
          /\ UNCHANGED <<round, lineup, turn, chunks>>
       \/ NextTurn(MessageEvents)
    /\ UNCHANGED <<writes, focus, cancelled, override, open>>

\* A specialist's message is complete; the task pauses between turns.
FinishMessage ==
    /\ Running
    /\ pc = "streaming"
    /\ turn > 0
    /\ Publish(MessageEvents)
    /\ pc' = "turnDelay"
    /\ UNCHANGED <<roundVars, cancelled, override, open>>

\* The task wakes from between_turn_delay.
WakeBetweenTurns ==
    /\ Running
    /\ pc = "turnDelay"
    /\ NextTurn(<<>>)
    /\ UNCHANGED <<writes, focus, cancelled, override, open>>

WakeAfterChallenge ==
    /\ Running
    /\ pc = "challengeDelay"
    /\ StartMessage(<<>>, turn)
    /\ UNCHANGED <<writes, focus, cancelled, override, open>>

\* A cancelled task ends at the suspension point it waits at: CancelledError
\* is re-raised past every handler.  The mutant catches it and waits again.
SwallowsCancel == cancelled /\ pc # "stopped" /\ UNCHANGED vars
TaskCancelled ==
    /\ cancelled
    /\ pc # "stopped"
    /\ pc' = "stopped"
    /\ UNCHANGED <<roomVars, lessons, roundVars, cancelled, override, open>>

DriveStep ==
    \/ BeginRound
    \/ BuildPublishes
    \/ \E speakers \in Lineups \ {<<>>}, joins \in Lineups :
          BuildReturns(speakers, joins)
    \/ BuildFails
    \/ StreamChunk
    \/ FinishHostMessage
    \/ FinishMessage
    \/ WakeBetweenTurns
    \/ WakeAfterChallenge
    \/ TaskCancelled

-----------------------------------------------------------------------------
(* Operator and service calls.                                             *)

\* assert_accepts_writes, and the mutant that only asks for the session.
AnyRoom == open
AcceptsWrites == open /\ status # "ended"

PostHumanMessage ==
    /\ AcceptsWrites
    /\ heard < MaxHuman
    /\ Publish(<<Ev("human.message", "human", 0, "")>>)
    /\ UNCHANGED <<pc, roundVars, cancelled, override, open>>

\* _cancel_room_task up to its await, and the mutant that forgets it.
LeaveTaskRunning == UNCHANGED cancelled
CancelTask == cancelled' = (pc # "stopped")

\* The override appends both events under the lock, without publish, and
\* cancels the task before it first suspends.
PostHumanOverride ==
    /\ AcceptsWrites
    /\ AppendEvents(<<Ev("human.override", "human", 0, ""), Ended("override")>>)
    /\ CancelTask
    /\ override' = "waiting"
    /\ UNCHANGED <<lessons, pc, roundVars, open>>

\* gather has waited for the task, and the mutant that does not wait.
NotAwaited == TRUE
TaskAwaited == pc = "stopped"

\* The override's answer; its snapshot is gone if the service was closed.
OverrideReturns ==
    /\ override = "waiting"
    /\ TaskAwaited
    /\ override' = IF open THEN "returned" ELSE "unknown_room"
    /\ UNCHANGED <<roomVars, lessons, pc, roundVars, cancelled, open>>

\* RoomRuntime.close: forget the sessions, cancel the tasks still running.
Close ==
    /\ open
    /\ open' = FALSE
    /\ cancelled' = (cancelled \/ pc # "stopped")
    /\ UNCHANGED <<roomVars, lessons, pc, roundVars, override>>

Next ==
    \/ DriveStep
    \/ PostHumanMessage
    \/ PostHumanOverride
    \/ OverrideReturns
    \/ Close

Spec == Init /\ [][Next]_vars

\* The event loop runs a task whose delay is over, an LLM call returns or
\* raises within its provider timeout, and gather wakes its caller; nothing
\* obliges an operator to act.
Fairness == WF_vars(DriveStep) /\ WF_vars(OverrideReturns)
FairSpec == Spec /\ Fairness

-----------------------------------------------------------------------------
(* Properties.                                                             *)

\* Every variable holds a value of its kind.
TypeOK ==
    /\ journal \in Seq(Event)
    /\ status \in {"running", "ended"}
    /\ participants \subseteq Specialists
    /\ live \subseteq Speakers
    /\ candidate \in BOOLEAN
    /\ heard \in Nat
    /\ lessons \subseteq Specialists
    /\ pc \in {"scheduled", "roundDelay", "building", "streaming", "turnDelay",
               "challengeDelay", "stopped"}
    /\ round \in 1..MaxRounds
    /\ lineup \in Seq(Specialists)
    /\ turn \in 0..Len(lineup)
    /\ chunks \in 0..MaxChunks
    /\ writes \in 0..MaxBuildWrites
    /\ focus \in {"plan", "human"}
    /\ cancelled \in BOOLEAN
    /\ override \in {"idle", "waiting", "returned", "unknown_room"}
    /\ open \in BOOLEAN

\* Whatever the interleaving of the drive task with overrides, messages and
\* shutdown, meeting.ended is the last event a room journals, and so there
\* is one at most.
NothingFollowsMeetingEnded ==
    \A i \in DOMAIN journal :
        journal[i].type = "meeting.ended" => i = Len(journal)

\* The event a room ends on is explained by the one journaled right before
\* it, with nothing in between: an orchestration end by the check that
\* signalled it, a budget end by the check of the last round, an override end
\* by the override; and a check that signals the end is always acted on.
EndFollowsItsCause ==
    \A i \in DOMAIN journal :
        /\ journal[i] = Ended("orchestration") =>
              i > 1 /\ journal[i - 1] = Check(round, "end")
        /\ journal[i] = Ended("budget") =>
              i > 1 /\ journal[i - 1] = Check(MaxRounds, "continue")
        /\ journal[i] = Ended("override") =>
              i > 1 /\ journal[i - 1].type = "human.override"
        /\ journal[i].type = "consensus.check" /\ journal[i].note = "end" =>
              i < Len(journal) /\ journal[i + 1] = Ended("orchestration")

\* Rounds do not overlap: before the first event of a later round comes the
\* check that closes the earlier one.
RoundsRunInSequence ==
    \A i, j \in DOMAIN journal :
        /\ i < j
        /\ journal[i].round > 0
        /\ journal[j].round > journal[i].round
        => \E k \in i..(j - 1) : journal[k] = Check(journal[i].round, "continue")

SpeakingTypes == {"message.chunk", "message.commit", "agent.message", "agent.challenge"}

\* A specialist has been announced before it is first heard in the room.
SpeakersJoinedFirst ==
    \A j \in DOMAIN journal :
        journal[j].type \in SpeakingTypes /\ journal[j].by \in Specialists =>
            \E i \in 1..(j - 1) : journal[i] = Joined(journal[j].by)

\* A role is announced once, however many rounds it returns in.
RolesJoinOnce ==
    \A i, j \in DOMAIN journal :
        /\ journal[i].type = "agent.joined"
        /\ journal[j].type = "agent.joined"
        /\ journal[i].by = journal[j].by
        => i = j

\* While the room runs, the partial text a client shows is that of the
\* message being streamed, and there is none between messages.
LiveTextIsTheSpeakers ==
    status = "running" /\ open =>
        live = IF pc = "streaming" THEN {Speaker} ELSE {}

\* The snapshot an override answers with is final: from then on neither the
\* room nor its task moves, whoever else calls.
OverrideAnswerIsFinal ==
    [][override = "returned" => UNCHANGED <<roomVars, pc>>]_vars

\* A meeting reaches its end on its own, unless the service is closed.
MeetingEnds == <>(status = "ended" \/ ~open)

\* A caller that overrides a room gets an answer.
OverrideIsAnswered == override = "waiting" ~> override # "waiting"

\* The room implements the abstract meeting: the cause is the note of the
\* event it ended on, and a round counts as completed once its check is
\* journaled, which a round cut short by an override or a failure never is.
Cause == IF status = "ended" THEN journal[Len(journal)].note ELSE "none"
Lifecycle == INSTANCE MeetingLifecycle WITH
    cause <- Cause,
    completed <- IF Cause \in {"orchestration", "budget"} THEN round ELSE round - 1,
    accepted <- heard
ImplementsLifecycle == Lifecycle!Spec

=============================================================================
