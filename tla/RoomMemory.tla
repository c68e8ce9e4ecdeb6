------------------------------ MODULE RoomMemory ------------------------------
(***************************************************************************)
(* What a meeting remembers.  The agents of every round publish            *)
(* memory.write events; the projector applies them to the room memory      *)
(* (memory/store.py, class RoomMemoryStore), which writes a file per scope *)
(* and never reads one back; the decision record takes the supervisor's    *)
(* plans from that memory; and the end of the meeting leaves lessons.      *)
(* Writes to disk fail and processes die between any two steps.            *)
(***************************************************************************)
EXTENDS LessonStore, Listing

CONSTANTS
    EventCap,     \* maxlen of the events of a scope
    MaxRounds,    \* bound: rounds of a meeting
    MaxMeetings   \* bound: meetings held in the directory

ASSUME EventCapAssumption == EventCap \in Nat \ {0}
ASSUME MeetingsAssumption == MaxRounds \in Nat /\ MaxMeetings \in Nat

VARIABLES
    held,     \* meetings begun so far, in all processes
    room,     \* the open meeting of each process, 0 for none
    journal,  \* its memory.write payloads
    live,     \* _state, by scope
    files     \* {scope}.json: the state last written

roomVars == <<held, room, journal, live, files>>
vars == <<roomVars, lessonVars>>

Scopes == {"mas", "agent"}
Keys == {"latest_supervisor_plan", "latest_claim", "last_self_claim"}
Fact(scope, key, n) == [scope |-> scope, kind |-> "fact", name |-> key, round |-> n]
Note(scope, type, n) == [scope |-> scope, kind |-> "event", name |-> type, round |-> n]

\* SupervisorAgent._persist_plan and SpecialistAgent._persist_claim, for a
\* round of one specialist.
RoundWrites(n) ==
    <<Fact("mas", "latest_supervisor_plan", n), Note("mas", "supervisor.plan", n),
      Fact("mas", "latest_claim", n), Note("mas", "specialist.claim", n),
      Fact("agent", "last_self_claim", n)>>
WritesPerRound == Len(RoundWrites(1))

EmptyScope == [facts |-> [k \in Keys |-> 0], events |-> <<>>]
EmptyMemory == [s \in Scopes |-> EmptyScope]

\* write_fact and record_event change the state before they persist it.
Remembered(scope, write) ==
    IF write.kind = "fact"
    THEN [scope EXCEPT !.facts[write.name] = write.round]
    ELSE [scope EXCEPT !.events = Newest(Append(@, write), EventCap)]

-----------------------------------------------------------------------------
(* The supervisor's plans in the decision record.                          *)

PlanEvents(memory) ==
    LET plans == {e \in ToSet(memory["mas"].events) : e.name = "supervisor.plan"}
    IN {e.round : e \in plans}
LatestPlan(memory) == memory["mas"].facts["latest_supervisor_plan"]

\* _collect_supervisor_plans: the rounds of the plan events, and the one of
\* the latest fact unless an event has it.  The mutant trusts the events.
PlansFromEvents(memory) == PlanEvents(memory)
RecordedPlans(memory) == PlanEvents(memory) \cup ({LatestPlan(memory)} \ {0})

-----------------------------------------------------------------------------
Init ==
    /\ held = 0
    /\ room = [p \in Processes |-> 0]
    /\ journal = [p \in Processes |-> <<>>]
    /\ live = [p \in Processes |-> EmptyMemory]
    /\ files = [p \in Processes |-> EmptyMemory]
    /\ LessonsInit

\* A new room: its memory is empty and so is its directory.
OpenRoom(p) ==
    /\ room[p] = 0
    /\ IsIdle(p)
    /\ held < MaxMeetings
    /\ held' = held + 1
    /\ room' = [room EXCEPT ![p] = held']
    /\ journal' = [journal EXCEPT ![p] = <<>>]
    /\ live' = [live EXCEPT ![p] = EmptyMemory]
    /\ files' = [files EXCEPT ![p] = EmptyMemory]
    /\ UNCHANGED lessonVars

NextWrite(p) ==
    LET n == Len(journal[p])
    IN RoundWrites(1 + (n \div WritesPerRound))[1 + (n % WritesPerRound)]

\* emit_memory_write, publish, RoomProjector._apply_memory_write and
\* apply_journal_event: a write to disk that raises is swallowed, after the
\* state has changed.  The mutant persists first.
PersistFirst(p, saved) ==
    LET write == NextWrite(p)
        scope == Remembered(live[p][write.scope], write)
    IN
    /\ journal' = [journal EXCEPT ![p] = Append(@, write)]
    /\ IF saved
       THEN /\ live' = [live EXCEPT ![p][write.scope] = scope]
            /\ files' = [files EXCEPT ![p][write.scope] = scope]
       ELSE UNCHANGED <<live, files>>
    /\ UNCHANGED <<held, room, lessonVars>>
ApplyWrite(p, saved) ==
    LET write == NextWrite(p)
        scope == Remembered(live[p][write.scope], write)
    IN
    /\ journal' = [journal EXCEPT ![p] = Append(@, write)]
    /\ live' = [live EXCEPT ![p][write.scope] = scope]
    /\ files' = IF saved THEN [files EXCEPT ![p][write.scope] = scope] ELSE files
    /\ UNCHANGED <<held, room, lessonVars>>

Write(p, saved) ==
    /\ room[p] # 0
    /\ Len(journal[p]) < MaxRounds * WritesPerRound
    /\ ApplyWrite(p, saved)

\* Roles that spoke, in the order of the transcript.
Speakers == {s \in UNION {[1..n -> Roles] : n \in 1..Cardinality(Roles)} :
                 \A i, j \in DOMAIN s : s[i] = s[j] => i = j}

\* publish(meeting.ended): a meeting with a candidate decision leaves a
\* lesson per role.
EndMeeting(p) ==
    /\ room[p] # 0
    /\ IsIdle(p)
    /\ room' = [room EXCEPT ![p] = 0]
    /\ \/ \E speakers \in Speakers : StartAppending(p, speakers, room[p])
       \/ UNCHANGED lessonVars
    /\ UNCHANGED <<held, journal, live, files>>

\* The room goes with the process; its files stay, and nobody reads them.
Crash(p) ==
    /\ \/ room[p] # 0
       \/ ~IsIdle(p)
    /\ Forget(p)
    /\ room' = [room EXCEPT ![p] = 0]
    /\ journal' = [journal EXCEPT ![p] = <<>>]
    /\ live' = [live EXCEPT ![p] = EmptyMemory]
    /\ UNCHANGED <<held, files>>

Next ==
    \E p \in Processes :
        \/ OpenRoom(p)
        \/ \E saved \in BOOLEAN : Write(p, saved)
        \/ EndMeeting(p)
        \/ \E r \in Roles : Recent(p, r) /\ UNCHANGED roomVars
        \/ AppendStep(p) /\ UNCHANGED roomVars
        \/ Crash(p)

Spec == Init /\ [][Next]_vars

-----------------------------------------------------------------------------
(* Properties.                                                             *)

\* Every variable holds a value of its kind; no file is torn while a single
\* process writes it.
TypeOK ==
    /\ held \in 0..MaxMeetings
    /\ \A p \in Processes :
          /\ room[p] \in 0..held
          /\ append[p].at \in {"idle", "load", "write", "replace"}
          /\ \A r \in Roles :
                cache[p][r] = Unread \/ Len(cache[p][r]) <= LessonCap
    /\ \A r \in Roles :
          \/ lessons[r] = Absent
          \/ lessons[r] \in Seq(1..MaxMeetings) /\ Len(lessons[r]) <= LessonCap

\* The memory a journal stands for: of every key the last value, of the
\* events the newest.
LastValue(writes, scope, key) ==
    LET places == {i \in DOMAIN writes : writes[i].kind = "fact"
                      /\ writes[i].scope = scope /\ writes[i].name = key}
    IN IF places = {} THEN 0 ELSE writes[Max(places)].round
EventsOf(writes, scope) ==
    {i \in DOMAIN writes : writes[i].kind = "event" /\ writes[i].scope = scope}
MemoryOf(writes) ==
    [s \in Scopes |->
        [facts |-> [k \in Keys |-> LastValue(writes, s, k)],
         events |-> Newest(Picked(writes, EventsOf(writes, s)), EventCap)]]

\* The memory the prompts recall is the one the journal stands for, though
\* any of its writes to disk may have failed: the journal is the single
\* source of truth.
MemoryFollowsJournal == \A p \in Processes : live[p] = MemoryOf(journal[p])

\* The decision record lists the plan of the latest round whatever the cap
\* on events has dropped, and no plan of a round that did not take place.
RecordHasTheLatestPlan ==
    \A p \in Processes :
        LET planned == {w.round : w \in ToSet(journal[p])}
        IN /\ RecordedPlans(live[p]) \subseteq planned
           /\ planned # {} => Max(planned) \in RecordedPlans(live[p])

=============================================================================
