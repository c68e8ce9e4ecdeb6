-------------------------- MODULE RoomRuntimeProofs --------------------------
(***************************************************************************)
(* Proofs about RoomRuntime, for every set of specialists and every bound: *)
(* its types and its ends, then the order of a room's journal (joins       *)
(* before speech, one round after the other), the partial text its clients *)
(* show, the finality of an override, and the refinement of                *)
(* MeetingLifecycle.                                                       *)
(***************************************************************************)
EXTENDS RoomRuntime, SequenceTheorems, TLAPS

-----------------------------------------------------------------------------
(* The inductive invariant.  A property of the journal is stated of any    *)
(* sequence of events, so that a lemma can say what appending a batch does *)
(* to it.                                                                  *)

RoomTypes ==
    /\ journal \in Seq(Event)
    /\ status \in {"running", "ended"}
    /\ participants \subseteq Specialists
    /\ live \subseteq Speakers
    /\ candidate \in BOOLEAN
    /\ heard \in Nat

\* The log of a room that still runs, and of one that has ended.
OpenLog(log) == \A i \in DOMAIN log : log[i].type # "meeting.ended"
ClosedLog(log) ==
    /\ log # <<>>
    /\ log[Len(log)].type = "meeting.ended"
    /\ \A i \in 1..(Len(log) - 1) : log[i].type # "meeting.ended"

LogMatchesStatus ==
    /\ status = "running" => OpenLog(journal)
    /\ status = "ended" => ClosedLog(journal)

\* EndFollowsItsCause, of any log.
Explained(log, r) ==
    \A i \in DOMAIN log :
        /\ log[i] = Ended("orchestration") => i > 1 /\ log[i - 1] = Check(r, "end")
        /\ log[i] = Ended("budget") => i > 1 /\ log[i - 1] = Check(MaxRounds, "continue")
        /\ log[i] = Ended("override") => i > 1 /\ log[i - 1].type = "human.override"
        /\ log[i].type = "consensus.check" /\ log[i].note = "end" =>
              i < Len(log) /\ log[i + 1] = Ended("orchestration")

\* The heart of the argument: whoever ends the room leaves the drive task
\* either stopped or cancelled, before anyone else runs.
EndedRoomIsQuiet == status = "ended" => cancelled \/ pc = "stopped"

\* A challenge is a specialist's, never the host's.
ChallengeHasSpeaker == pc = "challengeDelay" => turn \in 1..Len(lineup)

IInv ==
    /\ TypeOK
    /\ LogMatchesStatus
    /\ Explained(journal, round)
    /\ EndedRoomIsQuiet
    /\ ChallengeHasSpeaker

\* The types of the drive task's counters, and of everything else it keeps.
TaskTypes ==
    /\ round \in 1..MaxRounds
    /\ lineup \in Seq(Specialists)
    /\ turn \in 0..Len(lineup)
    /\ chunks \in 0..MaxChunks
    /\ writes \in 0..MaxBuildWrites
FlagTypes ==
    /\ lessons \subseteq Specialists
    /\ pc \in {"scheduled", "roundDelay", "building", "streaming", "turnDelay",
               "challengeDelay", "stopped"}
    /\ focus \in {"plan", "human"}
    /\ cancelled \in BOOLEAN
    /\ override \in {"idle", "waiting", "returned", "unknown_room"}
    /\ open \in BOOLEAN

\* A batch that neither checks a round nor ends the room.
Plain(es) ==
    /\ es \in Seq(Event)
    /\ \A i \in DOMAIN es : es[i].type \notin {"meeting.ended", "consensus.check"}

-----------------------------------------------------------------------------
(* Batches: what one uninterrupted run of the code journals.               *)

\* A lineup is a sequence of specialists.
LEMMA LineupIsSeq ==
    ASSUME NEW s \in Lineups
    PROVE  s \in Seq(Specialists)
BY IsASeq DEF Lineups

\* An event of a known type, role, round and note is well formed.
LEMMA EventTyped ==
    ASSUME NEW type \in EventTypes, NEW by \in Speakers, NEW r \in Nat,
           NEW note \in Notes, type = "agent.joined" => by \in Specialists
    PROVE  Ev(type, by, r, note) \in Event
BY DEF Ev, Event

\* Joining journals only well-formed role events.
LEMMA JoinEventsTyped ==
    ASSUME NEW joins \in Seq(Specialists)
    PROVE  /\ JoinEvents(joins) \in Seq(Event)
           /\ Len(JoinEvents(joins)) = Len(joins)
           /\ \A i \in 1..Len(joins) : JoinEvents(joins)[i] = Joined(joins[i])
<1>1. \A i \in 1..Len(joins) : Joined(joins[i]) \in Event
  BY ElementOfSeq DEF Joined, Ev, Event, EventTypes, Speakers, Notes
<1>2. JoinEvents(joins) \in [1..Len(joins) -> Event]
  BY <1>1 DEF JoinEvents
<1>3. Len(joins) \in Nat
  BY LenProperties
<1>4. JoinEvents(joins) \in Seq(Event) /\ Len(JoinEvents(joins)) = Len(joins)
  BY <1>2, <1>3, IsASeq, LenProperties
<1> QED
  BY <1>4 DEF JoinEvents

\* Appending a batch keeps the room's own variables well typed.
LEMMA AppendTyped ==
    ASSUME journal \in Seq(Event), status \in {"running", "ended"},
           participants \subseteq Specialists, live \subseteq Speakers,
           candidate \in BOOLEAN, heard \in Nat,
           NEW es \in Seq(Event), AppendEvents(es)
    PROVE  /\ journal' \in Seq(Event)
           /\ status' \in {"running", "ended"}
           /\ participants' \subseteq Specialists
           /\ live' \subseteq Speakers
           /\ candidate' \in BOOLEAN
           /\ heard' \in Nat
<1>1. \A i \in DOMAIN es : es[i] \in Event
  BY ElementOfSeq, LenProperties
<1>2. By(es, {"agent.joined"}) \subseteq Specialists
  BY <1>1 DEF By, Event
<1>3. By(es, {"message.chunk"}) \subseteq Speakers
  BY <1>1 DEF By, Event
<1>4. journal' \in Seq(Event)
  BY ConcatProperties DEF AppendEvents, Project
<1>5. candidate' \in BOOLEAN
  <2>1. CASE Has(es, "agent.summary")
    BY <2>1 DEF AppendEvents, Project
  <2>2. CASE ~Has(es, "agent.summary")
    BY <2>2 DEF AppendEvents, Project
  <2> QED BY <2>1, <2>2
<1>6. status' \in {"running", "ended"} /\ heard' \in Nat
  BY DEF AppendEvents, Project
<1>7. participants' \subseteq Specialists /\ live' \subseteq Speakers
  BY <1>2, <1>3 DEF AppendEvents, Project, LiveAfter
<1> QED
  BY <1>4, <1>5, <1>6, <1>7

\* Plain batches, singletons among them, compose.
LEMMA PlainSingleton ==
    ASSUME NEW e \in Event, e.type \notin {"meeting.ended", "consensus.check"}
    PROVE  Plain(<<e>>)
BY DEF Plain

\* So is an event that neither ends the room nor checks the round.
LEMMA PlainEvent ==
    ASSUME NEW type \in EventTypes \ {"meeting.ended", "consensus.check", "agent.joined"},
           NEW by \in Speakers, NEW r \in Nat
    PROVE  Plain(<<Ev(type, by, r, "")>>)
<1>1. Ev(type, by, r, "") \in Event
  BY EventTyped DEF Notes
<1>2. Ev(type, by, r, "").type = type
  BY DEF Ev
<1> QED BY <1>1, <1>2, PlainSingleton

\* Roles that join make a plain batch.
LEMMA PlainJoins ==
    ASSUME NEW joins \in Seq(Specialists)
    PROVE  Plain(JoinEvents(joins))
<1>1. DOMAIN JoinEvents(joins) = 1..Len(joins)
  BY JoinEventsTyped, LenProperties
<1>2. \A i \in DOMAIN JoinEvents(joins) : JoinEvents(joins)[i].type = "agent.joined"
  <2> TAKE i \in DOMAIN JoinEvents(joins)
  <2>1. JoinEvents(joins)[i] = Joined(joins[i])
    BY <1>1, JoinEventsTyped
  <2>2. \A role : Joined(role).type = "agent.joined"
    BY DEF Joined, Ev
  <2> QED BY <2>1, <2>2
<1> QED BY <1>2, JoinEventsTyped DEF Plain

\* Two plain batches in a row are one.
LEMMA PlainConcat ==
    ASSUME NEW a, NEW b, Plain(a), Plain(b)
    PROVE  Plain(a \o b)
<1>1. a \in Seq(Event) /\ b \in Seq(Event)
  BY DEF Plain
<1>2. /\ a \o b \in Seq(Event)
      /\ Len(a \o b) = Len(a) + Len(b)
      /\ \A i \in 1..(Len(a) + Len(b)) :
            (a \o b)[i] = IF i <= Len(a) THEN a[i] ELSE b[i - Len(a)]
  BY <1>1, ConcatProperties
<1>3. Len(a) \in Nat /\ Len(b) \in Nat /\ DOMAIN a = 1..Len(a) /\ DOMAIN b = 1..Len(b)
      /\ DOMAIN (a \o b) = 1..(Len(a) + Len(b))
  BY <1>1, <1>2, LenProperties
<1>4. ASSUME NEW i \in DOMAIN (a \o b)
      PROVE  (a \o b)[i].type \notin {"meeting.ended", "consensus.check"}
  <2>1. CASE i <= Len(a)
    BY <2>1, <1>2, <1>3 DEF Plain
  <2>2. CASE i > Len(a)
    <3>1. i - Len(a) \in DOMAIN b
      BY <2>2, <1>3
    <3> QED BY <2>2, <3>1, <1>2, <1>3 DEF Plain
  <2> QED BY <2>1, <2>2, <1>3
<1> QED BY <1>2, <1>4 DEF Plain

\* What appending a batch that does not end the room preserves.
LEMMA AppendOpen ==
    ASSUME RoomTypes, LogMatchesStatus, status = "running",
           NEW r, NEW r2, Explained(journal, r),
           NEW es \in Seq(Event), OpenLog(es), Explained(es, r2), AppendEvents(es)
    PROVE  /\ status' = "running"
           /\ OpenLog(journal')
           /\ Explained(journal', r2)
<1> DEFINE n == Len(journal)
           m == Len(es)
<1>1. /\ journal' \in Seq(Event)
      /\ Len(journal') = n + m
      /\ \A i \in 1..(n + m) :
            journal'[i] = IF i <= n THEN journal[i] ELSE es[i - n]
  BY ConcatProperties DEF RoomTypes, AppendEvents, Project
<1>2. n \in Nat /\ m \in Nat /\ DOMAIN journal = 1..n /\ DOMAIN es = 1..m
      /\ DOMAIN journal' = 1..(n + m)
  BY <1>1, LenProperties DEF RoomTypes
<1>3. status' = "running"
  BY DEF AppendEvents, Project, Has, OpenLog
<1>4. OpenLog(journal)
  BY DEF LogMatchesStatus
<1> HIDE DEF n, m
<1>5. OpenLog(journal')
  <2> SUFFICES ASSUME NEW i \in DOMAIN journal'
               PROVE  journal'[i].type # "meeting.ended"
    BY DEF OpenLog
  <2>1. CASE i <= n
    BY <2>1, <1>1, <1>2, <1>4 DEF OpenLog
  <2>2. CASE i > n
    <3>1. i - n \in DOMAIN es /\ journal'[i] = es[i - n]
      BY <2>2, <1>1, <1>2
    <3> QED BY <3>1 DEF OpenLog
  <2> QED BY <2>1, <2>2, <1>2
<1>6. \A i \in DOMAIN journal : ~(journal[i].type = "consensus.check" /\ journal[i].note = "end")
  BY <1>2, <1>4 DEF OpenLog, Explained, Ended, Ev, n
<1>7. Explained(journal', r2)
  <2> SUFFICES ASSUME NEW i \in DOMAIN journal'
        PROVE /\ journal'[i] = Ended("orchestration") =>
                    i > 1 /\ journal'[i - 1] = Check(r2, "end")
              /\ journal'[i] = Ended("budget") =>
                    i > 1 /\ journal'[i - 1] = Check(MaxRounds, "continue")
              /\ journal'[i] = Ended("override") =>
                    i > 1 /\ journal'[i - 1].type = "human.override"
              /\ journal'[i].type = "consensus.check" /\ journal'[i].note = "end" =>
                    i < Len(journal') /\ journal'[i + 1] = Ended("orchestration")
    BY DEF Explained
  <2>1. CASE i <= n
    BY <2>1, <1>1, <1>2, <1>4, <1>6 DEF OpenLog, Ended, Ev
  <2>2. CASE i > n
    <3> DEFINE k == i - n
    <3>1. k \in DOMAIN es /\ journal'[i] = es[k]
      BY <2>2, <1>1, <1>2
    <3>2. k > 1 => journal'[i - 1] = es[k - 1]
      BY <2>2, <1>1, <1>2
    <3>3. k < m => journal'[i + 1] = es[k + 1] /\ i < n + m
      BY <2>2, <1>1, <1>2
    <3>4. k > 1 => i > 1
      BY <1>2
    <3> QED BY <3>1, <3>2, <3>3, <3>4, <1>1 DEF Explained, m
  <2> QED BY <2>1, <2>2, <1>2
<1> QED BY <1>3, <1>5, <1>7

\* Appending a batch that ends the room: its last event is the only end.
LEMMA AppendClosing ==
    ASSUME RoomTypes, LogMatchesStatus, status = "running",
           NEW r, NEW r2, Explained(journal, r),
           NEW es \in Seq(Event), ClosedLog(es), Explained(es, r2), AppendEvents(es)
    PROVE  /\ status' = "ended"
           /\ ClosedLog(journal')
           /\ Explained(journal', r2)
<1> DEFINE n == Len(journal)
           m == Len(es)
<1>1. /\ journal' \in Seq(Event)
      /\ Len(journal') = n + m
      /\ \A i \in 1..(n + m) :
            journal'[i] = IF i <= n THEN journal[i] ELSE es[i - n]
  BY ConcatProperties DEF RoomTypes, AppendEvents, Project
<1>2. n \in Nat /\ m \in Nat /\ DOMAIN journal = 1..n /\ DOMAIN es = 1..m
      /\ DOMAIN journal' = 1..(n + m)
  BY <1>1, LenProperties DEF RoomTypes
<1>3. m \in Nat \ {0} /\ es[m].type = "meeting.ended"
  BY <1>2, EmptySeq DEF ClosedLog
<1>4. status' = "ended"
  BY <1>2, <1>3 DEF AppendEvents, Project, Has
<1>5. OpenLog(journal)
  BY DEF LogMatchesStatus
<1> HIDE DEF n
<1>6. ClosedLog(journal')
  <2>1. journal' # <<>> /\ journal'[n + m] = es[m]
    BY <1>1, <1>2, <1>3
  <2>2. ASSUME NEW i \in 1..(n + m - 1)
        PROVE  journal'[i].type # "meeting.ended"
    <3>1. CASE i <= n
      BY <3>1, <1>1, <1>2, <1>5 DEF OpenLog
    <3>2. CASE i > n
      <4>1. i - n \in 1..(m - 1) /\ journal'[i] = es[i - n]
        BY <3>2, <1>1, <1>2, <1>3
      <4> QED BY <4>1 DEF ClosedLog
    <3> QED BY <3>1, <3>2, <1>2
  <2>3. journal'[Len(journal')].type = "meeting.ended"
    BY <2>1, <1>1, <1>2, <1>3
  <2>4. \A i \in 1..(Len(journal') - 1) : journal'[i].type # "meeting.ended"
    BY <2>2, <1>1, <1>2
  <2> QED BY <2>1, <2>3, <2>4 DEF ClosedLog
<1>7. \A i \in DOMAIN journal : ~(journal[i].type = "consensus.check" /\ journal[i].note = "end")
  BY <1>2, <1>5 DEF OpenLog, Explained, Ended, Ev, n
<1> HIDE DEF m
<1>8. Explained(journal', r2)
  <2> SUFFICES ASSUME NEW i \in DOMAIN journal'
        PROVE /\ journal'[i] = Ended("orchestration") =>
                    i > 1 /\ journal'[i - 1] = Check(r2, "end")
              /\ journal'[i] = Ended("budget") =>
                    i > 1 /\ journal'[i - 1] = Check(MaxRounds, "continue")
              /\ journal'[i] = Ended("override") =>
                    i > 1 /\ journal'[i - 1].type = "human.override"
              /\ journal'[i].type = "consensus.check" /\ journal'[i].note = "end" =>
                    i < Len(journal') /\ journal'[i + 1] = Ended("orchestration")
    BY DEF Explained
  <2>1. CASE i <= n
    BY <2>1, <1>1, <1>2, <1>5, <1>7 DEF OpenLog, Ended, Ev
  <2>2. CASE i > n
    <3> DEFINE k == i - n
    <3>1. k \in DOMAIN es /\ journal'[i] = es[k]
      BY <2>2, <1>1, <1>2
    <3>2. k > 1 => journal'[i - 1] = es[k - 1]
      BY <2>2, <1>1, <1>2
    <3>3. k < m => journal'[i + 1] = es[k + 1] /\ i < n + m
      BY <2>2, <1>1, <1>2
    <3>4. k > 1 => i > 1
      BY <1>2
    <3> QED BY <3>1, <3>2, <3>3, <3>4, <1>1 DEF Explained, m
  <2> QED BY <2>1, <2>2, <1>2
<1> QED BY <1>4, <1>6, <1>8

\* The batches of the actions.
LEMMA PlainIsGood ==
    ASSUME NEW es, Plain(es), NEW r
    PROVE  es \in Seq(Event) /\ OpenLog(es) /\ Explained(es, r)
BY DEF Plain, OpenLog, Explained, Ended, Ev

\* A plain run that then checks the round and goes on.
LEMMA CheckedBatch ==
    ASSUME NEW a, Plain(a), NEW s \in Event, NEW c \in Event, NEW r,
           s.type \notin {"meeting.ended", "consensus.check"},
           c.type = "consensus.check", c.note # "end"
    PROVE  /\ a \o <<s, c>> \in Seq(Event)
           /\ OpenLog(a \o <<s, c>>)
           /\ Explained(a \o <<s, c>>, r)
<1> DEFINE es == a \o <<s, c>>
           n == Len(a)
<1>1. a \in Seq(Event) /\ <<s, c>> \in Seq(Event)
  BY DEF Plain
<1>2. /\ es \in Seq(Event)
      /\ Len(es) = n + 2
      /\ \A i \in 1..(n + 2) : es[i] = IF i <= n THEN a[i] ELSE <<s, c>>[i - n]
  BY <1>1, ConcatProperties
<1>3. n \in Nat /\ DOMAIN a = 1..n /\ DOMAIN es = 1..(n + 2)
  BY <1>1, <1>2, LenProperties
<1>4. es[n + 1] = s /\ es[n + 2] = c
  BY <1>2, <1>3
<1> HIDE DEF es
<1>5. \A i \in DOMAIN es : es[i].type # "meeting.ended"
                        /\ (es[i].type = "consensus.check" => es[i].note # "end")
  <2> TAKE i \in DOMAIN es
  <2>1. CASE i <= n
    BY <2>1, <1>2, <1>3 DEF Plain
  <2>2. CASE i = n + 1
    BY <2>2, <1>4
  <2>3. CASE i = n + 2
    BY <2>3, <1>4
  <2> QED BY <2>1, <2>2, <2>3, <1>3
<1>6. OpenLog(es) /\ Explained(es, r)
  BY <1>5 DEF OpenLog, Explained, Ended, Ev
<1> QED BY <1>2, <1>6 DEF es

\* A plain run that checks the round and ends the room on that check.
LEMMA CheckedClosingBatch ==
    ASSUME NEW a, Plain(a), NEW s \in Event, NEW r \in Nat, NEW note, NEW cause,
           Check(r, note) \in Event, Ended(cause) \in Event,
           s.type \notin {"meeting.ended", "consensus.check"},
           \/ note = "end" /\ cause = "orchestration"
           \/ note = "continue" /\ cause = "budget" /\ r = MaxRounds
    PROVE  /\ (a \o <<s, Check(r, note)>>) \o <<Ended(cause)>> \in Seq(Event)
           /\ ClosedLog((a \o <<s, Check(r, note)>>) \o <<Ended(cause)>>)
           /\ Explained((a \o <<s, Check(r, note)>>) \o <<Ended(cause)>>, r)
<1> DEFINE b == a \o <<s, Check(r, note)>>
           es == b \o <<Ended(cause)>>
           n == Len(a)
<1>1. a \in Seq(Event) /\ <<s, Check(r, note)>> \in Seq(Event) /\ <<Ended(cause)>> \in Seq(Event)
  BY DEF Plain
<1>2. /\ b \in Seq(Event)
      /\ Len(b) = n + 2
      /\ \A i \in 1..(n + 2) : b[i] = IF i <= n THEN a[i] ELSE <<s, Check(r, note)>>[i - n]
  BY <1>1, ConcatProperties
<1>3. n \in Nat /\ DOMAIN a = 1..n
  BY <1>1, LenProperties
<1>4. b[n + 1] = s /\ b[n + 2] = Check(r, note) /\ \A i \in 1..n : b[i] = a[i]
  BY <1>2, <1>3
<1> HIDE DEF b
<1>5. /\ es \in Seq(Event)
      /\ Len(es) = n + 3
      /\ \A i \in 1..(n + 3) : es[i] = IF i <= n + 2 THEN b[i] ELSE <<Ended(cause)>>[i - (n + 2)]
  BY <1>1, <1>2, <1>3, ConcatProperties
<1>6. /\ DOMAIN es = 1..(n + 3)
      /\ es[n + 1] = s
      /\ es[n + 2] = Check(r, note)
      /\ es[n + 3] = Ended(cause)
      /\ \A i \in 1..n : es[i] = a[i]
  BY <1>3, <1>4, <1>5, LenProperties
<1> HIDE DEF es
<1>7. \A i \in 1..(n + 1) : es[i].type \notin {"meeting.ended", "consensus.check"}
  BY <1>3, <1>6 DEF Plain
<1>8. ClosedLog(es)
  <2>1. \A i \in 1..(n + 2) : es[i].type # "meeting.ended"
    BY <1>3, <1>6, <1>7 DEF Check, Ev
  <2> QED BY <2>1, <1>3, <1>5, <1>6 DEF ClosedLog, Ended, Ev
<1>9. Explained(es, r)
  <2> SUFFICES ASSUME NEW i \in 1..(n + 3)
        PROVE /\ es[i] = Ended("orchestration") => i > 1 /\ es[i - 1] = Check(r, "end")
              /\ es[i] = Ended("budget") => i > 1 /\ es[i - 1] = Check(MaxRounds, "continue")
              /\ es[i] = Ended("override") => i > 1 /\ es[i - 1].type = "human.override"
              /\ es[i].type = "consensus.check" /\ es[i].note = "end" =>
                    i < Len(es) /\ es[i + 1] = Ended("orchestration")
    BY <1>6 DEF Explained
  <2>1. CASE i <= n + 1
    BY <2>1, <1>3, <1>7 DEF Ended, Ev
  <2>2. CASE i = n + 2
    BY <2>2, <1>3, <1>5, <1>6 DEF Check, Ended, Ev
  <2>3. CASE i = n + 3
    BY <2>3, <1>3, <1>6 DEF Check, Ended, Ev
  <2> QED BY <2>1, <2>2, <2>3, <1>3
<1> QED BY <1>5, <1>8, <1>9 DEF es, b

-----------------------------------------------------------------------------
(* Steps.                                                                  *)

\* What holds after a batch is appended, whether or not it ends the room.
RoomAfter(st) ==
    /\ RoomTypes
    /\ LogMatchesStatus
    /\ Explained(journal, round)
    /\ status = st

\* Lessons are written for specialists.
LEMMA LessonsTyped ==
    ASSUME NEW log, NEW decided
    PROVE  LessonsOf(log, decided) \subseteq Specialists
BY DEF LessonsOf

\* A step that journals an open batch leaves the room running.
LEMMA AppendOpenStep ==
    ASSUME IInv, status = "running", NEW es \in Seq(Event), OpenLog(es),
           Explained(es, round'), AppendEvents(es)
    PROVE  RoomAfter("running")'
<1>1. RoomTypes
  BY DEF IInv, TypeOK, RoomTypes
<1>2. RoomTypes'
  BY <1>1, AppendTyped DEF RoomTypes
<1>3. status' = "running" /\ OpenLog(journal') /\ Explained(journal', round')
  BY <1>1, AppendOpen DEF IInv
<1> QED BY <1>2, <1>3 DEF RoomAfter, LogMatchesStatus

\* A step that journals a closing batch ends the room.
LEMMA AppendClosingStep ==
    ASSUME IInv, status = "running", NEW es \in Seq(Event), ClosedLog(es),
           Explained(es, round'), AppendEvents(es)
    PROVE  RoomAfter("ended")'
<1>1. RoomTypes
  BY DEF IInv, TypeOK, RoomTypes
<1>2. RoomTypes'
  BY <1>1, AppendTyped DEF RoomTypes
<1>3. status' = "ended" /\ ClosedLog(journal') /\ Explained(journal', round')
  BY <1>1, AppendClosing DEF IInv
<1> QED BY <1>2, <1>3 DEF RoomAfter, LogMatchesStatus

\* The same for Publish, which adds what follows from the batch.
LEMMA PublishPlain ==
    ASSUME IInv, status = "running", NEW es, Plain(es), Publish(es)
    PROVE  RoomAfter("running")' /\ lessons' \subseteq Specialists
<1>1. es \in Seq(Event) /\ OpenLog(es) /\ Explained(es, round')
  BY PlainIsGood
<1>2. RoomAfter("running")'
  BY <1>1, AppendOpenStep DEF Publish
<1>3. lessons' \subseteq Specialists
  BY LessonsTyped DEF Publish, IInv, TypeOK
<1> QED BY <1>2, <1>3

\* And for a batch that closes the room.
LEMMA PublishClosing ==
    ASSUME IInv, status = "running", NEW es \in Seq(Event), ClosedLog(es),
           Explained(es, round'), Publish(es)
    PROVE  RoomAfter("ended")' /\ lessons' \subseteq Specialists
<1>1. RoomAfter("ended")'
  BY AppendClosingStep DEF Publish
<1>2. lessons' \subseteq Specialists
  BY LessonsTyped DEF Publish, IInv, TypeOK
<1> QED BY <1>1, <1>2

\* The drive task acts only in a room that has not ended.
LEMMA DriveActsInARunningRoom ==
    ASSUME IInv, Running, pc # "stopped"
    PROVE  status = "running"
BY DEF IInv, EndedRoomIsQuiet, Running, TypeOK

\* The invariant in parts, and its re-assembly after a step.
LEMMA Parts ==
    ASSUME IInv
    PROVE  /\ RoomAfter(status) /\ TaskTypes /\ FlagTypes
           /\ EndedRoomIsQuiet /\ ChallengeHasSpeaker
           /\ round \in Nat /\ status \in {"running", "ended"}
<1>1. round \in 1..MaxRounds
  BY DEF IInv, TypeOK
<1>2. round \in Nat
  BY <1>1, BoundsAssumption
<1> QED BY <1>2 DEF IInv, TypeOK, RoomAfter, RoomTypes, TaskTypes, FlagTypes

\* The parts give the invariant back.
LEMMA Assemble ==
    ASSUME NEW st \in {"running", "ended"}, RoomAfter(st)', TaskTypes', FlagTypes',
           ChallengeHasSpeaker', st = "ended" => cancelled' \/ pc' = "stopped"
    PROVE  IInv'
<1>1. TypeOK'
  BY DEF TypeOK, RoomAfter, RoomTypes, TaskTypes, FlagTypes
<1>2. EndedRoomIsQuiet'
  BY DEF RoomAfter, EndedRoomIsQuiet
<1> QED BY <1>1, <1>2 DEF IInv, RoomAfter

\* A finished round either goes on to the next one or closes the room.
LEMMA FinishRoundStep ==
    ASSUME IInv, status = "running", NEW earlier, Plain(earlier), FinishRound(earlier)
    PROVE  /\ lessons' \subseteq Specialists
           /\ round' \in 1..MaxRounds
           /\ lineup' = lineup /\ turn' = turn /\ chunks' = chunks
           /\ \/ RoomAfter("running")' /\ pc' = "roundDelay"
              \/ RoomAfter("ended")' /\ pc' = "stopped"
<1> USE BoundsAssumption
<1>1. PICK decided \in BOOLEAN, note \in {"end", "continue"} :
        /\ UNCHANGED <<lineup, turn, chunks>>
        /\ \/ /\ ClosingCause(note) # ""
              /\ Publish(earlier \o RoundEvents(decided, note)
                                 \o <<Ended(ClosingCause(note))>>)
              /\ pc' = "stopped"
              /\ round' = round
           \/ /\ ClosingCause(note) = ""
              /\ Publish(earlier \o RoundEvents(decided, note))
              /\ pc' = "roundDelay"
              /\ round' = round + 1
  BY DEF FinishRound
<1> DEFINE s == Ev("agent.summary", "synthesis", round, IF decided THEN "candidate" ELSE "")
<1>2. round \in 1..MaxRounds /\ round \in Nat /\ MaxRounds \in Nat
  BY DEF IInv, TypeOK
<1>3. /\ s \in Event
      /\ s.type \notin {"meeting.ended", "consensus.check"}
  BY <1>2 DEF Ev, Event, EventTypes, Speakers, Notes
<1>4. Check(round, note) \in Event
  BY <1>2 DEF Check, Ev, Event, EventTypes, Speakers, Notes
<1>5. RoundEvents(decided, note) = <<s, Check(round, note)>>
  BY DEF RoundEvents
<1> HIDE DEF s
<1>6. CASE ClosingCause(note) # ""
  <2>1. \/ note = "end" /\ ClosingCause(note) = "orchestration"
        \/ note = "continue" /\ ClosingCause(note) = "budget" /\ round = MaxRounds
    BY <1>6 DEF ClosingCause
  <2>2. Ended(ClosingCause(note)) \in Event
    BY <2>1 DEF Ended, Ev, Event, EventTypes, Speakers, Notes, EndCauses
  <2> DEFINE es == (earlier \o <<s, Check(round, note)>>) \o <<Ended(ClosingCause(note))>>
  <2>3. es \in Seq(Event) /\ ClosedLog(es) /\ Explained(es, round)
    BY <1>2, <1>3, <1>4, <2>1, <2>2, CheckedClosingBatch
  <2>4. Publish(es) /\ pc' = "stopped" /\ round' = round
    BY <1>1, <1>5, <1>6
  <2> HIDE DEF es
  <2>5. RoomAfter("ended")' /\ lessons' \subseteq Specialists
    BY <2>3, <2>4, PublishClosing
  <2> QED BY <1>1, <1>2, <2>4, <2>5
<1>7. CASE ClosingCause(note) = ""
  <2>1. note = "continue" /\ round # MaxRounds
    BY <1>7 DEF ClosingCause
  <2>2. round' = round + 1 /\ round' \in 1..MaxRounds /\ pc' = "roundDelay"
    <3>1. round' = round + 1 /\ pc' = "roundDelay"
      BY <1>1, <1>7
    <3> QED BY <3>1, <1>2, <2>1
  <2> DEFINE es == earlier \o <<s, Check(round, note)>>
  <2>3. es \in Seq(Event) /\ OpenLog(es) /\ Explained(es, round')
    BY <1>3, <1>4, <2>1, CheckedBatch DEF Check, Ev
  <2>4. Publish(es)
    BY <1>1, <1>5, <1>7
  <2> HIDE DEF es
  <2>5. RoomAfter("running")'
    BY <2>3, <2>4, AppendOpenStep DEF Publish
  <2>6. lessons' \subseteq Specialists
    BY <2>4, LessonsTyped DEF Publish, IInv, TypeOK
  <2> QED BY <1>1, <2>2, <2>5, <2>6
<1> QED BY <1>6, <1>7

\* The next turn of the emission loop, whatever the same run published before.
LEMMA StartMessageStep ==
    ASSUME IInv, status = "running", NEW earlier, Plain(earlier),
           NEW next \in 1..Len(lineup), StartMessage(earlier, next)
    PROVE  /\ RoomAfter("running")' /\ lessons' \subseteq Specialists
           /\ pc' = "streaming" /\ turn' = next /\ chunks' = 1
           /\ round' = round /\ lineup' = lineup
<1>1. lineup[next] \in Specialists
  BY Parts, ElementOfSeq DEF TaskTypes
<1>2. Plain(<<Ev("message.chunk", lineup[next], round, "")>>)
  BY <1>1, Parts, PlainEvent DEF EventTypes, Speakers
<1>3. Plain(earlier \o <<Ev("message.chunk", lineup[next], round, "")>>)
  BY <1>2, PlainConcat
<1> QED BY <1>3, PublishPlain DEF StartMessage

\* What NextTurn leaves, in the terms Assemble asks for.
TurnTaken ==
    /\ lessons' \subseteq Specialists
    /\ round' \in 1..MaxRounds
    /\ lineup' = lineup /\ turn' \in 0..Len(lineup) /\ chunks' \in 0..MaxChunks
    /\ \/ RoomAfter("running")' /\ pc' \in {"streaming", "roundDelay"}
       \/ RoomAfter("running")' /\ pc' = "challengeDelay" /\ turn' \in 1..Len(lineup)
       \/ RoomAfter("ended")' /\ pc' = "stopped"

\* Taking the next turn keeps the room sound, whatever turn comes.
LEMMA NextTurnStep ==
    ASSUME IInv, status = "running", NEW earlier, Plain(earlier), NextTurn(earlier)
    PROVE  TurnTaken
<1>1. /\ turn \in 0..Len(lineup) /\ Len(lineup) \in Nat
      /\ round \in 1..MaxRounds /\ round \in Nat
      /\ chunks \in 0..MaxChunks /\ 1 \in 0..MaxChunks
  BY BoundsAssumption, LenProperties DEF IInv, TypeOK
<1>2. CASE turn < Len(lineup) /\ StartMessage(earlier, turn + 1)
  <2>1. turn + 1 \in 1..Len(lineup) /\ turn + 1 \in 0..Len(lineup)
    BY <1>1, <1>2
  <2>2. /\ RoomAfter("running")' /\ lessons' \subseteq Specialists
        /\ pc' = "streaming" /\ turn' = turn + 1 /\ chunks' = 1
        /\ round' = round /\ lineup' = lineup
    BY <1>2, <2>1, StartMessageStep
  <2> QED BY <1>1, <2>1, <2>2 DEF TurnTaken
<1>3. CASE turn < Len(lineup) /\ Challenge(earlier, turn + 1)
  <2> DEFINE e == Ev("agent.challenge", lineup[turn + 1], round, "")
  <2>1. turn + 1 \in 1..Len(lineup) /\ turn + 1 \in 0..Len(lineup)
    BY <1>1, <1>3
  <2>2. lineup[turn + 1] \in Specialists
    BY <2>1, ElementOfSeq DEF IInv, TypeOK
  <2>3. Plain(<<e>>)
    BY <1>1, <2>2, PlainEvent DEF EventTypes, Speakers
  <2>4. Plain(earlier \o <<e>>)
    BY <2>3, PlainConcat
  <2>5. /\ Publish(earlier \o <<e>>)
        /\ turn' = turn + 1 /\ pc' = "challengeDelay"
        /\ round' = round /\ lineup' = lineup /\ chunks' = chunks
    BY <1>3 DEF Challenge
  <2> HIDE DEF e
  <2>6. RoomAfter("running")' /\ lessons' \subseteq Specialists
    BY <2>4, <2>5, PublishPlain
  <2> QED BY <1>1, <2>1, <2>5, <2>6 DEF TurnTaken
<1>4. CASE FinishRound(earlier)
  BY <1>1, <1>4, FinishRoundStep DEF TurnTaken
<1> QED BY <1>2, <1>3, <1>4 DEF NextTurn

\* The speaker of a turn is a specialist.
LEMMA SpeakerTyped ==
    ASSUME IInv
    PROVE  Speaker \in Speakers
<1>1. CASE turn = 0
  BY <1>1 DEF Speaker, Speakers
<1>2. CASE turn # 0
  <2>1. turn \in 1..Len(lineup)
    BY <1>2, LenProperties DEF IInv, TypeOK
  <2> QED BY <1>2, <2>1, ElementOfSeq DEF Speaker, Speakers, IInv, TypeOK
<1> QED BY <1>1, <1>2

\* A message, its chunks included, is a plain batch.
LEMMA MessageEventsPlain ==
    ASSUME IInv
    PROVE  Plain(MessageEvents)
<1> DEFINE a == Ev("message.commit", Speaker, round, "")
           b == Ev("agent.message", Speaker, round, "")
<1>1. a \in Event /\ b \in Event
  BY Parts, SpeakerTyped, EventTyped DEF EventTypes, Notes
<1>2. a.type = "message.commit" /\ b.type = "agent.message"
  BY DEF Ev
<1>3. MessageEvents = <<a, b>>
  BY DEF MessageEvents
<1> HIDE DEF a, b
<1> QED BY <1>1, <1>2, <1>3 DEF Plain

-----------------------------------------------------------------------------
(* The invariant.                                                          *)

\* A room starts in the invariant.
LEMMA InitIInv == Init => IInv
<1> SUFFICES ASSUME Init PROVE IInv
  OBVIOUS
<1> DEFINE a == Ev("planning.completed", "system", 0, "")
           b == Ev("room.started", "system", 0, "")
           joins == JoinEvents(OpeningRoster)
<1>1. Plain(<<a, b>>)
  <2>1. a \in Event /\ b \in Event
    BY EventTyped DEF EventTypes, Speakers, Notes
  <2>2. a.type = "planning.completed" /\ b.type = "room.started"
    BY DEF Ev
  <2> HIDE DEF a, b
  <2> QED BY <2>1, <2>2 DEF Plain
<1>2. Plain(joins)
  BY PlainJoins, RosterAssumption
<1>3. journal = <<a, b>> \o joins
  BY DEF Init
<1> HIDE DEF a, b, joins
<1>4. Plain(journal)
  BY <1>1, <1>2, <1>3, PlainConcat
<1>5. journal \in Seq(Event) /\ OpenLog(journal) /\ Explained(journal, round)
  BY <1>4, PlainIsGood
<1>6. participants \subseteq Specialists
  <2>1. \A i \in DOMAIN OpeningRoster : OpeningRoster[i] \in Specialists
    BY RosterAssumption, ElementOfSeq, LenProperties
  <2> QED BY <2>1 DEF Init
<1>7. RoomAfter("running")
  BY <1>5, <1>6 DEF Init, RoomAfter, RoomTypes, LogMatchesStatus
<1>8. TaskTypes
  <2>1. lineup = <<>> /\ round = 1 /\ turn = 0 /\ chunks = 0 /\ writes = 0
    BY DEF Init
  <2>2. Len(lineup) = 0 /\ lineup \in Seq(Specialists)
    BY <2>1
  <2> QED BY <2>1, <2>2, BoundsAssumption DEF TaskTypes
<1>9. FlagTypes /\ EndedRoomIsQuiet /\ ChallengeHasSpeaker
  BY DEF Init, FlagTypes, EndedRoomIsQuiet, ChallengeHasSpeaker
<1>10. TypeOK
  BY <1>7, <1>8, <1>9 DEF TypeOK, RoomAfter, RoomTypes, TaskTypes, FlagTypes
<1> QED BY <1>7, <1>9, <1>10 DEF IInv, RoomAfter

\* Stuttering keeps it.
LEMMA UnchangedIInv ==
    ASSUME IInv, UNCHANGED vars
    PROVE  IInv'
BY DEF IInv, TypeOK, LogMatchesStatus, EndedRoomIsQuiet, ChallengeHasSpeaker,
       vars, roomVars, roundVars

\* A step that journals nothing.
LEMMA RoomUnchanged ==
    ASSUME IInv, UNCHANGED roomVars, round' = round
    PROVE  RoomAfter(status)'
BY DEF IInv, TypeOK, RoomAfter, RoomTypes, LogMatchesStatus, roomVars

\* Steps of the drive task that take a turn.
LEMMA TurnKeepsIInv ==
    ASSUME IInv, TurnTaken, UNCHANGED <<writes, focus, cancelled, override, open>>
    PROVE  IInv'
<1>1. TaskTypes'
  BY Parts DEF TaskTypes, TurnTaken
<1>2. FlagTypes'
  BY Parts DEF FlagTypes, TurnTaken
<1>3. ChallengeHasSpeaker'
  BY DEF ChallengeHasSpeaker, TurnTaken
<1> QED BY <1>1, <1>2, <1>3, Assemble DEF TurnTaken

\* Every action of the room, the drive task and the operator keeps it.
LEMMA NextIInv ==
    ASSUME IInv, Next
    PROVE  IInv'
<1>0. /\ RoomAfter(status) /\ TaskTypes /\ FlagTypes
      /\ EndedRoomIsQuiet /\ ChallengeHasSpeaker
      /\ round \in Nat /\ status \in {"running", "ended"}
  BY Parts
<1>1. CASE BeginRound
  <2>1. status = "running"
    BY <1>1, DriveActsInARunningRoom DEF BeginRound
  <2>2. UNCHANGED roomVars /\ round' = round /\ pc' = "building"
    BY <1>1 DEF BeginRound
  <2>3. RoomAfter("running")'
    BY <2>1, <2>2, RoomUnchanged DEF roomVars
  <2>4. TaskTypes'
    BY <1>0, <1>1, BoundsAssumption DEF BeginRound, TaskTypes, RoomAfter, RoomTypes
  <2>5. FlagTypes' /\ ChallengeHasSpeaker'
    BY <1>0, <1>1 DEF BeginRound, ResolveFocus, FlagTypes, ChallengeHasSpeaker
  <2> QED BY <2>3, <2>4, <2>5, Assemble
<1>2. CASE BuildPublishes
  <2>1. status = "running"
    BY <1>2, DriveActsInARunningRoom DEF BuildPublishes
  <2>2. Plain(<<Ev("memory.write", "system", round, "")>>)
    BY <1>0, PlainEvent DEF EventTypes, Speakers
  <2>3. RoomAfter("running")' /\ lessons' \subseteq Specialists
    BY <1>2, <2>1, <2>2, PublishPlain DEF BuildPublishes
  <2>4. TaskTypes'
    <3>1. /\ UNCHANGED <<round, lineup, turn, chunks>>
          /\ writes < MaxBuildWrites /\ writes' = writes + 1
      BY <1>2 DEF BuildPublishes
    <3> QED BY <1>0, <3>1, BoundsAssumption DEF TaskTypes
  <2>5. FlagTypes' /\ ChallengeHasSpeaker'
    BY <1>0, <1>2, <2>3 DEF BuildPublishes, FlagTypes, ChallengeHasSpeaker
  <2> QED BY <2>3, <2>4, <2>5, Assemble
<1>3. ASSUME NEW speakers \in Lineups \ {<<>>}, NEW joins \in Lineups,
             BuildReturns(speakers, joins)
      PROVE  IInv'
  <2> DEFINE e == Ev("message.chunk", "host", round, "")
  <2>1. status = "running"
    BY <1>3, DriveActsInARunningRoom DEF BuildReturns
  <2>2. speakers \in Seq(Specialists) /\ joins \in Seq(Specialists)
    BY LineupIsSeq
  <2>3. Plain(JoinEvents(joins))
    BY <2>2, PlainJoins
  <2>4. Plain(<<e>>)
    BY <1>0, PlainEvent DEF EventTypes, Speakers
  <2>5. Plain(JoinEvents(joins) \o <<e>>)
    BY <2>3, <2>4, PlainConcat
  <2>6. Publish(JoinEvents(joins) \o <<e>>)
    BY <1>3 DEF BuildReturns
  <2> HIDE DEF e
  <2>7. RoomAfter("running")' /\ lessons' \subseteq Specialists
    BY <2>1, <2>5, <2>6, PublishPlain
  <2>8. TaskTypes'
    <3>1. Len(speakers) \in Nat
      BY <2>2, LenProperties
    <3>2. /\ UNCHANGED <<round, writes>>
          /\ lineup' = speakers /\ turn' = 0 /\ chunks' = 1
      BY <1>3 DEF BuildReturns
    <3> QED BY <1>0, <2>2, <3>1, <3>2, BoundsAssumption DEF TaskTypes
  <2>9. FlagTypes' /\ ChallengeHasSpeaker'
    BY <1>0, <1>3, <2>7 DEF BuildReturns, FlagTypes, ChallengeHasSpeaker
  <2> QED BY <2>7, <2>8, <2>9, Assemble
<1>4. CASE BuildFails
  <2>1. status = "running"
    BY <1>4, DriveActsInARunningRoom DEF BuildFails
  <2>2. Ended("runtime_failure") \in Event
    BY EventTyped DEF Ended, EventTypes, Speakers, Notes, EndCauses
  <2>3. FailureEvents \in Seq(Event) /\ ClosedLog(FailureEvents)
    BY <2>2 DEF FailureEvents, ClosedLog, Ended, Ev
  <2>4. Explained(FailureEvents, round')
    BY DEF FailureEvents, Explained, Ended, Ev
  <2>5. RoomAfter("ended")' /\ lessons' \subseteq Specialists
    BY <1>4, <2>1, <2>3, <2>4, PublishClosing DEF BuildFails
  <2>6. TaskTypes' /\ pc' = "stopped"
    BY <1>0, <1>4 DEF BuildFails, roundVars, TaskTypes
  <2>7. FlagTypes' /\ ChallengeHasSpeaker'
    BY <1>0, <1>4, <2>5 DEF BuildFails, roundVars, FlagTypes, ChallengeHasSpeaker
  <2> QED BY <2>5, <2>6, <2>7, Assemble
<1>5. CASE StreamChunk
  <2>1. status = "running"
    BY <1>5, DriveActsInARunningRoom DEF StreamChunk
  <2>2. Plain(<<Ev("message.chunk", Speaker, round, "")>>)
    BY <1>0, SpeakerTyped, PlainEvent DEF EventTypes
  <2>3. RoomAfter("running")' /\ lessons' \subseteq Specialists
    BY <1>5, <2>1, <2>2, PublishPlain DEF StreamChunk
  <2>4. TaskTypes'
    <3>1. /\ UNCHANGED <<round, lineup, turn, writes>>
          /\ chunks < MaxChunks /\ chunks' = chunks + 1
      BY <1>5 DEF StreamChunk
    <3> QED BY <1>0, <3>1, BoundsAssumption DEF TaskTypes
  <2>5. FlagTypes' /\ ChallengeHasSpeaker'
    BY <1>0, <1>5, <2>3 DEF StreamChunk, FlagTypes, ChallengeHasSpeaker
  <2> QED BY <2>3, <2>4, <2>5, Assemble
<1>6. CASE FinishHostMessage
  <2>1. status = "running"
    BY <1>6, DriveActsInARunningRoom DEF FinishHostMessage
  <2>2. Plain(MessageEvents)
    BY MessageEventsPlain
  <2>3. UNCHANGED <<writes, focus, cancelled, override, open>>
    BY <1>6 DEF FinishHostMessage
  <2>4. CASE NextTurn(MessageEvents)
    BY <2>1, <2>2, <2>3, <2>4, NextTurnStep, TurnKeepsIInv
  <2>5. CASE /\ Publish(MessageEvents \o <<Ev("agent.handoff", "host", round, "")>>)
             /\ pc' = "turnDelay"
             /\ UNCHANGED <<round, lineup, turn, chunks>>
    <3>1. Plain(<<Ev("agent.handoff", "host", round, "")>>)
      BY <1>0, PlainEvent DEF EventTypes, Speakers
    <3>2. Plain(MessageEvents \o <<Ev("agent.handoff", "host", round, "")>>)
      BY <2>2, <3>1, PlainConcat
    <3>3. RoomAfter("running")' /\ lessons' \subseteq Specialists
      BY <2>1, <2>5, <3>2, PublishPlain
    <3>4. TaskTypes'
      BY <1>0, <2>3, <2>5 DEF TaskTypes
    <3>5. FlagTypes' /\ ChallengeHasSpeaker'
      BY <1>0, <2>3, <2>5, <3>3 DEF FlagTypes, ChallengeHasSpeaker
    <3> QED BY <3>3, <3>4, <3>5, Assemble
  <2> QED BY <1>6, <2>4, <2>5 DEF FinishHostMessage
<1>7. CASE FinishMessage
  <2>1. status = "running"
    BY <1>7, DriveActsInARunningRoom DEF FinishMessage
  <2>2. RoomAfter("running")' /\ lessons' \subseteq Specialists
    BY <1>7, <2>1, MessageEventsPlain, PublishPlain DEF FinishMessage
  <2>3. TaskTypes' /\ pc' = "turnDelay"
    BY <1>0, <1>7 DEF FinishMessage, roundVars, TaskTypes
  <2>4. FlagTypes' /\ ChallengeHasSpeaker'
    BY <1>0, <1>7, <2>2 DEF FinishMessage, roundVars, FlagTypes, ChallengeHasSpeaker
  <2> QED BY <2>2, <2>3, <2>4, Assemble
<1>8. CASE WakeBetweenTurns
  <2>1. status = "running"
    BY <1>8, DriveActsInARunningRoom DEF WakeBetweenTurns
  <2>2. Plain(<<>>)
    BY DEF Plain
  <2> QED BY <1>8, <2>1, <2>2, NextTurnStep, TurnKeepsIInv DEF WakeBetweenTurns
<1>9. CASE WakeAfterChallenge
  <2>1. status = "running"
    BY <1>9, DriveActsInARunningRoom DEF WakeAfterChallenge
  <2>2. Plain(<<>>)
    BY DEF Plain
  <2>3. turn \in 1..Len(lineup)
    BY <1>0, <1>9 DEF WakeAfterChallenge, ChallengeHasSpeaker
  <2>4. /\ RoomAfter("running")' /\ lessons' \subseteq Specialists
        /\ pc' = "streaming" /\ turn' = turn /\ chunks' = 1
        /\ round' = round /\ lineup' = lineup
    BY <1>9, <2>1, <2>2, <2>3, StartMessageStep DEF WakeAfterChallenge
  <2>5. UNCHANGED <<writes, focus, cancelled, override, open>>
    BY <1>9 DEF WakeAfterChallenge
  <2>6. TaskTypes'
    BY <1>0, <2>4, <2>5, BoundsAssumption DEF TaskTypes
  <2>7. FlagTypes' /\ ChallengeHasSpeaker'
    BY <1>0, <2>4, <2>5 DEF FlagTypes, ChallengeHasSpeaker
  <2> QED BY <2>4, <2>6, <2>7, Assemble
<1>10. CASE TaskCancelled
  <2>1. /\ UNCHANGED <<roomVars, lessons, roundVars, cancelled, override, open>>
        /\ pc' = "stopped" /\ status' = status
    BY <1>10 DEF TaskCancelled, roomVars
  <2>2. RoomAfter(status)'
    BY <2>1, RoomUnchanged DEF roundVars
  <2>3. TaskTypes'
    BY <1>0, <2>1 DEF roundVars, TaskTypes
  <2>4. FlagTypes' /\ ChallengeHasSpeaker'
    BY <1>0, <2>1 DEF roundVars, FlagTypes, ChallengeHasSpeaker
  <2>5. CASE status = "running"
    BY <2>1, <2>2, <2>3, <2>4, <2>5, Assemble
  <2>6. CASE status = "ended"
    BY <2>1, <2>2, <2>3, <2>4, <2>6, Assemble
  <2> QED BY <1>0, <2>5, <2>6
<1>11. CASE PostHumanMessage
  <2>1. status = "running"
    BY <1>0, <1>11 DEF PostHumanMessage, AcceptsWrites
  <2>2. Plain(<<Ev("human.message", "human", 0, "")>>)
    BY PlainEvent DEF EventTypes, Speakers
  <2>3. RoomAfter("running")' /\ lessons' \subseteq Specialists
    BY <1>11, <2>1, <2>2, PublishPlain DEF PostHumanMessage
  <2>4. TaskTypes'
    BY <1>0, <1>11 DEF PostHumanMessage, roundVars, TaskTypes
  <2>5. FlagTypes' /\ ChallengeHasSpeaker'
    BY <1>0, <1>11, <2>3 DEF PostHumanMessage, roundVars, FlagTypes, ChallengeHasSpeaker
  <2> QED BY <2>3, <2>4, <2>5, Assemble
<1>12. CASE PostHumanOverride
  <2> DEFINE a == Ev("human.override", "human", 0, "")
             b == Ended("override")
  <2>1. status = "running"
    BY <1>0, <1>12 DEF PostHumanOverride, AcceptsWrites
  <2>2. a \in Event /\ b \in Event
    BY EventTyped DEF Ended, EventTypes, Speakers, Notes, EndCauses
  <2>3. a.type = "human.override" /\ b.type = "meeting.ended" /\ b.note = "override"
    BY DEF Ended, Ev
  <2>4. AppendEvents(<<a, b>>)
    BY <1>12 DEF PostHumanOverride
  <2> HIDE DEF a, b
  <2>5. <<a, b>> \in Seq(Event) /\ ClosedLog(<<a, b>>)
    BY <2>2, <2>3 DEF ClosedLog
  <2>6. Explained(<<a, b>>, round')
    BY <2>3 DEF Explained, Ended, Ev
  <2>7. RoomAfter("ended")'
    BY <2>1, <2>4, <2>5, <2>6, AppendClosingStep
  <2>8. TaskTypes'
    BY <1>0, <1>12 DEF PostHumanOverride, roundVars, TaskTypes
  <2>9. FlagTypes' /\ ChallengeHasSpeaker'
    BY <1>0, <1>12 DEF PostHumanOverride, CancelTask, roundVars, FlagTypes, ChallengeHasSpeaker
  <2>10. cancelled' \/ pc' = "stopped"
    BY <1>12 DEF PostHumanOverride, CancelTask
  <2> QED BY <2>7, <2>8, <2>9, <2>10, Assemble
<1>13. CASE OverrideReturns \/ Close
  <2>1. /\ UNCHANGED <<roomVars, lessons, pc, roundVars>>
        /\ status' = status
    BY <1>13 DEF OverrideReturns, Close, roomVars
  <2>2. RoomAfter(status)'
    BY <2>1, RoomUnchanged DEF roundVars
  <2>3. TaskTypes'
    BY <1>0, <2>1 DEF roundVars, TaskTypes
  <2>4. FlagTypes' /\ ChallengeHasSpeaker'
    BY <1>0, <1>13 DEF OverrideReturns, Close, roundVars, FlagTypes, ChallengeHasSpeaker
  <2>5. status = "ended" => cancelled' \/ pc' = "stopped"
    BY <1>0, <1>13 DEF OverrideReturns, Close, EndedRoomIsQuiet
  <2>6. CASE status = "running"
    BY <2>1, <2>2, <2>3, <2>4, <2>6, Assemble
  <2>7. CASE status = "ended"
    BY <2>1, <2>2, <2>3, <2>4, <2>5, <2>7, Assemble
  <2> QED BY <1>0, <2>6, <2>7
<1> QED
  BY <1>1, <1>2, <1>3, <1>4, <1>5, <1>6, <1>7, <1>8, <1>9, <1>10, <1>11, <1>12,
     <1>13 DEF Next, DriveStep

-----------------------------------------------------------------------------
(* The theorems.                                                           *)

\* The inductive invariant holds of every run of a room.
THEOREM Inductive == Spec => []IInv
<1>1. Init => IInv
  BY InitIInv
<1>2. IInv /\ [Next]_vars => IInv'
  BY NextIInv, UnchangedIInv
<1> QED BY <1>1, <1>2, PTL DEF Spec

\* Every variable of a room stays within its type.
THEOREM TypeCorrect == Spec => []TypeOK
<1>1. IInv => TypeOK
  BY DEF IInv
<1> QED BY <1>1, Inductive, PTL

\* However the drive task, overrides, messages and shutdown interleave,
\* meeting.ended is the last event of a room and there is one at most.
THEOREM EndIsLast == Spec => []NothingFollowsMeetingEnded
<1>1. IInv => NothingFollowsMeetingEnded
  <2> SUFFICES ASSUME IInv, NEW i \in DOMAIN journal, journal[i].type = "meeting.ended"
               PROVE  i = Len(journal)
    BY DEF NothingFollowsMeetingEnded
  <2>1. Len(journal) \in Nat /\ i \in 1..Len(journal)
    BY LenProperties DEF IInv, TypeOK
  <2>2. ~OpenLog(journal)
    BY DEF OpenLog
  <2>3. ClosedLog(journal)
    BY <2>2 DEF IInv, TypeOK, LogMatchesStatus
  <2> QED BY <2>1, <2>3 DEF ClosedLog
<1> QED BY <1>1, Inductive, PTL

\* A meeting that ends is closed by the event that explains it, journaled
\* right before.
THEOREM EndExplained == Spec => []EndFollowsItsCause
<1>1. IInv => EndFollowsItsCause
  BY DEF IInv, Explained, EndFollowsItsCause
<1> QED BY <1>1, Inductive, PTL

-----------------------------------------------------------------------------
(* What one uninterrupted run of the code may journal, and what every step *)
(* of a room therefore is: quiet, or the append of one orderly batch.      *)

\* A batch joins only strangers, each once; only joined roles speak in it;
\* and it belongs to the current round.
Orderly(es) ==
    /\ es \in Seq(Event)
    /\ \A i \in DOMAIN es : es[i].round \in {0, round}
    /\ \A i \in DOMAIN es : es[i].type = "agent.joined" =>
          es[i] = Joined(es[i].by) /\ es[i].by \notin participants
    /\ \A i, j \in DOMAIN es :
          /\ es[i].type = "agent.joined" /\ es[j].type = "agent.joined"
          /\ es[i].by = es[j].by
          => i = j
    /\ \A i \in DOMAIN es :
          es[i].type \in SpeakingTypes /\ es[i].by \in Specialists =>
              es[i].by \in participants

\* Most events neither join a role nor come from the operator.
Fits(e) ==
    /\ e \in Event
    /\ e.type \notin {"agent.joined", "human.message"}
    /\ e.round \in {0, round}
    /\ e.type \in SpeakingTypes /\ e.by \in Specialists => e.by \in participants
Fitting(es) == es \in Seq(Event) /\ \A i \in DOMAIN es : Fits(es[i])

\* The drive task has announced everyone it lets speak.
LineupJoined == \A k \in DOMAIN lineup : lineup[k] \in participants

\* The four ways a batch moves the meeting.
GoesOn(es) == OpenLog(es) /\ round' = round /\ ~Has(es, "human.message")
TakesMessage(es) ==
    es = <<Ev("human.message", "human", 0, "")>> /\ round' = round
ClosesRound(es) ==
    /\ OpenLog(es) /\ ~Has(es, "human.message")
    /\ round < MaxRounds /\ round' = round + 1
    /\ es # <<>> /\ es[Len(es)] = Check(round, "continue")
EndsMeeting(es) ==
    /\ ClosedLog(es) /\ round' = round /\ ~Has(es, "human.message")
    /\ es[Len(es)].note \in EndCauses
    /\ es[Len(es)].note = "budget" => round = MaxRounds

Quiet == UNCHANGED <<roomVars, round, lineup>>
Batch(es) ==
    /\ status = "running"
    /\ AppendEvents(es)
    /\ Orderly(es)
    /\ LineupJoined'
    /\ GoesOn(es) \/ TakesMessage(es) \/ ClosesRound(es) \/ EndsMeeting(es)
OneBatch == \E es \in Seq(Event) : Batch(es)

\* The elements of two batches in a row.
LEMMA ConcatElements ==
    ASSUME NEW a \in Seq(Event), NEW b \in Seq(Event)
    PROVE  /\ a \o b \in Seq(Event)
           /\ Len(a) \in Nat /\ Len(b) \in Nat /\ Len(a \o b) = Len(a) + Len(b)
           /\ DOMAIN a = 1..Len(a) /\ DOMAIN b = 1..Len(b)
           /\ DOMAIN (a \o b) = 1..(Len(a) + Len(b))
           /\ \A i \in 1..Len(a) : (a \o b)[i] = a[i]
           /\ \A i \in 1..Len(b) : (a \o b)[Len(a) + i] = b[i]
           /\ \A i \in (Len(a) + 1)..(Len(a) + Len(b)) :
                 i - Len(a) \in DOMAIN b /\ (a \o b)[i] = b[i - Len(a)]
<1>1. /\ a \o b \in Seq(Event)
      /\ Len(a \o b) = Len(a) + Len(b)
      /\ \A i \in 1..(Len(a) + Len(b)) :
            (a \o b)[i] = IF i <= Len(a) THEN a[i] ELSE b[i - Len(a)]
  BY ConcatProperties
<1>2. /\ Len(a) \in Nat /\ Len(b) \in Nat
      /\ DOMAIN a = 1..Len(a) /\ DOMAIN b = 1..Len(b)
      /\ DOMAIN (a \o b) = 1..(Len(a) + Len(b))
  BY <1>1, LenProperties
<1> QED BY <1>1, <1>2

\* Batches of ordinary events compose.
LEMMA FittingConcat ==
    ASSUME NEW a, NEW b, Fitting(a), Fitting(b)
    PROVE  Fitting(a \o b)
<1>1. a \in Seq(Event) /\ b \in Seq(Event)
  BY DEF Fitting
<1> SUFFICES ASSUME NEW i \in DOMAIN (a \o b)
             PROVE  Fits((a \o b)[i])
  BY <1>1, ConcatElements DEF Fitting
<1>2. CASE i \in 1..Len(a)
  BY <1>1, <1>2, ConcatElements DEF Fitting
<1>3. CASE i \in (Len(a) + 1)..(Len(a) + Len(b))
  BY <1>1, <1>3, ConcatElements DEF Fitting
<1>4. i \in 1..(Len(a) + Len(b)) /\ Len(a) \in Nat /\ Len(b) \in Nat
  BY <1>1, ConcatElements
<1> QED BY <1>2, <1>3, <1>4

\* One ordinary event.
LEMMA FittingSingleton ==
    ASSUME NEW e, Fits(e)
    PROVE  Fitting(<<e>>)
BY DEF Fits, Fitting

\* An ordinary batch is orderly, and carries no message of the operator.
LEMMA FittingIsOrderly ==
    ASSUME NEW es, Fitting(es)
    PROVE  Orderly(es) /\ ~Has(es, "human.message")
<1>1. \A i \in DOMAIN es : Fits(es[i])
  BY DEF Fitting
<1> QED BY <1>1 DEF Fitting, Orderly, Has, Fits

\* An event of the current round by someone who may speak.
LEMMA EventFits ==
    ASSUME IInv,
           NEW type \in EventTypes \ {"agent.joined", "human.message"},
           NEW by \in Speakers, by \in Specialists /\ type \in SpeakingTypes => by \in participants,
           NEW r \in {0, round}, NEW note \in Notes
    PROVE  Fits(Ev(type, by, r, note))
<1>1. r \in Nat
  BY Parts
<1>2. Ev(type, by, r, note) \in Event
  BY <1>1, EventTyped
<1> QED BY <1>2 DEF Fits, Ev

\* Roles that join the room, followed by ordinary events of people who were
\* there before: the batch of BuildReturns.
LEMMA JoinsAreOrderly ==
    ASSUME IInv, NEW joins \in Lineups, NEW b, Fitting(b),
           \A i \in DOMAIN joins : joins[i] \notin participants
    PROVE  Orderly(JoinEvents(joins) \o b) /\ ~Has(JoinEvents(joins) \o b, "human.message")
<1> DEFINE a == JoinEvents(joins)
<1>1. joins \in Seq(Specialists) /\ Len(joins) \in Nat /\ DOMAIN joins = 1..Len(joins)
  BY LineupIsSeq, LenProperties
<1>2. /\ a \in Seq(Event) /\ Len(a) = Len(joins)
      /\ \A i \in 1..Len(joins) : a[i] = Joined(joins[i])
  BY <1>1, JoinEventsTyped
<1>3. b \in Seq(Event) /\ \A i \in DOMAIN b : Fits(b[i])
  BY DEF Fitting
<1>4. \A i, j \in DOMAIN joins : joins[i] = joins[j] => i = j
  BY DEF Lineups
<1> DEFINE es == a \o b
<1>5. /\ es \in Seq(Event) /\ Len(b) \in Nat
      /\ DOMAIN es = 1..(Len(joins) + Len(b))
      /\ \A i \in 1..Len(joins) : es[i] = Joined(joins[i])
      /\ \A i \in (Len(joins) + 1)..(Len(joins) + Len(b)) : Fits(es[i])
  <2> HIDE DEF a
  <2>1. /\ es \in Seq(Event) /\ Len(b) \in Nat
        /\ DOMAIN es = 1..(Len(a) + Len(b))
        /\ \A i \in 1..Len(a) : es[i] = a[i]
        /\ \A i \in (Len(a) + 1)..(Len(a) + Len(b)) :
              i - Len(a) \in DOMAIN b /\ es[i] = b[i - Len(a)]
    BY <1>2, <1>3, ConcatElements
  <2> QED BY <1>2, <1>3, <2>1
<1> HIDE DEF es, a
<1>6. \A role : Joined(role).type = "agent.joined" /\ Joined(role).by = role
             /\ Joined(role).round = 0
  BY DEF Joined, Ev
<1>7. ASSUME NEW i \in DOMAIN es
      PROVE  \/ i \in DOMAIN joins /\ es[i] = Joined(joins[i])
             \/ i \notin DOMAIN joins /\ Fits(es[i])
  BY <1>1, <1>5
<1>8. \A i \in DOMAIN es : es[i].round \in {0, round}
  BY <1>6, <1>7 DEF Fits
<1>9. \A i \in DOMAIN es : es[i].type = "agent.joined" =>
          es[i] = Joined(es[i].by) /\ es[i].by \notin participants
  <2> TAKE i \in DOMAIN es
  <2> QED BY <1>6, <1>7 DEF Fits
<1>10. \A i, j \in DOMAIN es :
          es[i].type = "agent.joined" /\ es[j].type = "agent.joined" /\ es[i].by = es[j].by
          => i = j
  <2> TAKE i, j \in DOMAIN es
  <2> QED BY <1>4, <1>6, <1>7 DEF Fits
<1>11. \A i \in DOMAIN es :
          es[i].type \in SpeakingTypes /\ es[i].by \in Specialists => es[i].by \in participants
  <2> TAKE i \in DOMAIN es
  <2> QED BY <1>6, <1>7 DEF Fits, SpeakingTypes
<1>12. \A i \in DOMAIN es : es[i].type # "human.message"
  <2> TAKE i \in DOMAIN es
  <2> QED BY <1>6, <1>7 DEF Fits
<1> QED BY <1>5, <1>8, <1>9, <1>10, <1>11, <1>12 DEF Orderly, Has, es, a

-----------------------------------------------------------------------------
(* Every step is quiet or appends one orderly batch.                       *)

\* The speaker of a turn has joined the room.
LEMMA SpeakerJoined ==
    ASSUME IInv, LineupJoined
    PROVE  Speaker \in Specialists => Speaker \in participants
<1>1. turn \in 0..Len(lineup) /\ lineup \in Seq(Specialists)
  BY DEF IInv, TypeOK
<1>2. DOMAIN lineup = 1..Len(lineup)
  BY <1>1, LenProperties
<1>3. CASE turn = 0
  BY <1>3, SpecialistsAssumption DEF Speaker
<1>4. CASE turn # 0
  BY <1>1, <1>2, <1>4 DEF Speaker, LineupJoined
<1> QED BY <1>3, <1>4

\* A complete message is an ordinary batch.
LEMMA MessageEventsFit ==
    ASSUME IInv, LineupJoined
    PROVE  Fitting(MessageEvents)
<1> DEFINE a == Ev("message.commit", Speaker, round, "")
           b == Ev("agent.message", Speaker, round, "")
<1>1. Fits(a) /\ Fits(b)
  BY SpeakerTyped, SpeakerJoined, EventFits DEF EventTypes, Notes
<1>2. MessageEvents = <<a, b>>
  BY DEF MessageEvents
<1> HIDE DEF a, b
<1> QED BY <1>1, <1>2 DEF Fitting, Fits

\* The roles of a room that appends a batch only grow.
LEMMA ParticipantsGrow ==
    ASSUME NEW es, AppendEvents(es)
    PROVE  participants \subseteq participants'
BY DEF AppendEvents, Project

\* A batch that fits and leaves round and lineup alone is a step of the kind
\* GoesOn.
LEMMA FittingBatch ==
    ASSUME IInv, LineupJoined, status = "running", NEW es, Fitting(es), Plain(es),
           AppendEvents(es), round' = round, lineup' = lineup
    PROVE  OneBatch
<1>1. Orderly(es) /\ ~Has(es, "human.message") /\ OpenLog(es) /\ es \in Seq(Event)
  BY FittingIsOrderly, PlainIsGood DEF Fitting
<1>2. LineupJoined'
  BY ParticipantsGrow DEF LineupJoined
<1> QED BY <1>1, <1>2 DEF OneBatch, Batch, GoesOn

\* The last event of a batch that ends on a known one.
LEMMA LastOfBatch ==
    ASSUME NEW a \in Seq(Event), NEW b \in Seq(Event), b # <<>>
    PROVE  a \o b # <<>> /\ (a \o b)[Len(a \o b)] = b[Len(b)]
<1>1. Len(b) \in Nat \ {0}
  BY LenProperties, EmptySeq
<1> QED BY <1>1, ConcatElements

\* The end of a round is one batch, which goes on to the next round or ends
\* the meeting.
LEMMA FinishRoundBatch ==
    ASSUME IInv, LineupJoined, status = "running",
           NEW earlier, Fitting(earlier), Plain(earlier), FinishRound(earlier)
    PROVE  OneBatch
<1>1. PICK decided \in BOOLEAN, note \in {"end", "continue"} :
        /\ UNCHANGED <<lineup, turn, chunks>>
        /\ \/ /\ ClosingCause(note) # ""
              /\ Publish(earlier \o RoundEvents(decided, note)
                                 \o <<Ended(ClosingCause(note))>>)
              /\ pc' = "stopped"
              /\ round' = round
           \/ /\ ClosingCause(note) = ""
              /\ Publish(earlier \o RoundEvents(decided, note))
              /\ pc' = "roundDelay"
              /\ round' = round + 1
  BY DEF FinishRound
<1> DEFINE s == Ev("agent.summary", "synthesis", round, IF decided THEN "candidate" ELSE "")
           c == Check(round, note)
<1>2. round \in 1..MaxRounds /\ round \in Nat /\ MaxRounds \in Nat
  BY BoundsAssumption DEF IInv, TypeOK
<1>3. Fits(s) /\ s.type \notin {"meeting.ended", "consensus.check"}
  <2>1. (IF decided THEN "candidate" ELSE "") \in Notes
    BY DEF Notes
  <2>2. Fits(s)
    BY <2>1, EventFits DEF EventTypes, Speakers, SpeakingTypes
  <2> QED BY <2>2 DEF Ev
<1>4. Fits(c) /\ c.type = "consensus.check" /\ c.note = note
  BY EventFits DEF Check, Ev, EventTypes, Speakers, SpeakingTypes, Notes
<1>5. RoundEvents(decided, note) = <<s, c>>
  BY DEF RoundEvents
<1>6. s \in Event /\ c \in Event
  BY <1>3, <1>4 DEF Fits
<1> HIDE DEF s
<1>7. Fitting(<<s, c>>) /\ <<s, c>> \in Seq(Event) /\ earlier \in Seq(Event)
  BY <1>3, <1>4, <1>6 DEF Fitting
<1> DEFINE b == earlier \o <<s, c>>
<1>8. Fitting(b) /\ b \in Seq(Event)
  BY <1>7, FittingConcat DEF Fitting
<1>9. LineupJoined' \/ ~(\E es : AppendEvents(es))
  BY <1>1, ParticipantsGrow DEF LineupJoined
<1>10. CASE ClosingCause(note) = ""
  <2>1. note = "continue" /\ round # MaxRounds
    BY <1>10 DEF ClosingCause
  <2>2. Publish(b) /\ round' = round + 1
    BY <1>1, <1>5, <1>10
  <2>11. round < MaxRounds
    BY <1>2, <2>1
  <2>3. OpenLog(b)
    BY <1>3, <1>4, <1>6, <2>1, CheckedBatch
  <2>4. b # <<>> /\ b[Len(b)] = Check(round, "continue")
    <3>1. <<s, c>> # <<>> /\ <<s, c>>[Len(<<s, c>>)] = c
      OBVIOUS
    <3> HIDE DEF c
    <3>2. b # <<>> /\ b[Len(b)] = c
      BY <1>7, <3>1, LastOfBatch
    <3> QED BY <2>1, <3>2 DEF c
  <2> HIDE DEF b
  <2>5. Orderly(b) /\ ~Has(b, "human.message")
    BY <1>8, FittingIsOrderly
  <2> QED BY <1>8, <1>9, <2>2, <2>3, <2>4, <2>5, <2>11 DEF OneBatch, Batch, ClosesRound, Publish
<1>11. CASE ClosingCause(note) # ""
  <2> DEFINE e == Ended(ClosingCause(note))
             es == b \o <<e>>
  <2>1. \/ note = "end" /\ ClosingCause(note) = "orchestration"
        \/ note = "continue" /\ ClosingCause(note) = "budget" /\ round = MaxRounds
    BY <1>11 DEF ClosingCause
  <2>2. Fits(e) /\ e \in Event
    BY <2>1, EventFits DEF Ended, EventTypes, Speakers, SpeakingTypes, Notes, EndCauses, Fits
  <2>3. Publish(es) /\ round' = round
    BY <1>1, <1>5, <1>11
  <2>4. ClosedLog(es)
    BY <1>2, <1>3, <1>4, <1>6, <2>1, <2>2, CheckedClosingBatch
  <2>5. e.note = ClosingCause(note)
    BY DEF Ended, Ev
  <2> HIDE DEF e
  <2>6. Fitting(<<e>>) /\ <<e>> \in Seq(Event) /\ <<e>> # <<>> /\ <<e>>[Len(<<e>>)] = e
    BY <2>2, FittingSingleton
  <2> HIDE DEF b
  <2>7. Fitting(es) /\ es \in Seq(Event)
    BY <1>8, <2>6, FittingConcat DEF Fitting
  <2>8. es[Len(es)] = e
    BY <1>8, <2>6, LastOfBatch
  <2> HIDE DEF es
  <2>9. Orderly(es) /\ ~Has(es, "human.message")
    BY <2>7, FittingIsOrderly
  <2>10. EndsMeeting(es)
    BY <2>1, <2>3, <2>4, <2>5, <2>8, <2>9 DEF EndsMeeting, EndCauses
  <2> QED BY <1>9, <2>3, <2>7, <2>9, <2>10 DEF OneBatch, Batch, Publish
<1> QED BY <1>10, <1>11

\* So are the start of a message and a challenge.
LEMMA StartMessageBatch ==
    ASSUME IInv, LineupJoined, status = "running", NEW earlier, Fitting(earlier),
           Plain(earlier), NEW next \in 1..Len(lineup), StartMessage(earlier, next)
    PROVE  OneBatch
<1> DEFINE e == Ev("message.chunk", lineup[next], round, "")
<1>1. lineup \in Seq(Specialists) /\ DOMAIN lineup = 1..Len(lineup)
  BY LenProperties DEF IInv, TypeOK
<1>2. lineup[next] \in Specialists /\ lineup[next] \in participants
  BY <1>1, ElementOfSeq DEF LineupJoined
<1>3. Fits(e) /\ Plain(<<e>>)
  BY <1>2, Parts, EventFits, PlainEvent DEF EventTypes, Speakers, Notes
<1>4. Publish(earlier \o <<e>>) /\ round' = round /\ lineup' = lineup
  BY DEF StartMessage
<1> HIDE DEF e
<1>5. Fitting(earlier \o <<e>>) /\ Plain(earlier \o <<e>>)
  BY <1>3, FittingSingleton, FittingConcat, PlainConcat
<1> QED BY <1>4, <1>5, FittingBatch DEF Publish

\* A challenge is made by a role of the lineup.
LEMMA ChallengeBatch ==
    ASSUME IInv, LineupJoined, status = "running", NEW earlier, Fitting(earlier),
           Plain(earlier), NEW next \in 1..Len(lineup), Challenge(earlier, next)
    PROVE  OneBatch
<1> DEFINE e == Ev("agent.challenge", lineup[next], round, "")
<1>1. lineup \in Seq(Specialists) /\ DOMAIN lineup = 1..Len(lineup)
  BY LenProperties DEF IInv, TypeOK
<1>2. lineup[next] \in Specialists /\ lineup[next] \in participants
  BY <1>1, ElementOfSeq DEF LineupJoined
<1>3. Fits(e) /\ Plain(<<e>>)
  BY <1>2, Parts, EventFits, PlainEvent DEF EventTypes, Speakers, Notes
<1>4. Publish(earlier \o <<e>>) /\ round' = round /\ lineup' = lineup
  BY DEF Challenge
<1> HIDE DEF e
<1>5. Fitting(earlier \o <<e>>) /\ Plain(earlier \o <<e>>)
  BY <1>3, FittingSingleton, FittingConcat, PlainConcat
<1> QED BY <1>4, <1>5, FittingBatch DEF Publish

\* Whatever the next turn is, it is one batch.
LEMMA NextTurnBatch ==
    ASSUME IInv, LineupJoined, status = "running", NEW earlier, Fitting(earlier),
           Plain(earlier), NextTurn(earlier)
    PROVE  OneBatch
<1>1. turn < Len(lineup) => turn + 1 \in 1..Len(lineup)
  BY LenProperties DEF IInv, TypeOK
<1> QED BY <1>1, StartMessageBatch, ChallengeBatch, FinishRoundBatch DEF NextTurn

\* A host with nobody to join opens the round; otherwise the newcomers join
\* right before.
LEMMA BuildReturnsBatch ==
    ASSUME IInv, LineupJoined, status = "running",
           NEW speakers \in Lineups, NEW joins \in Lineups, BuildReturns(speakers, joins)
    PROVE  OneBatch
<1> DEFINE e == Ev("message.chunk", "host", round, "")
           es == JoinEvents(joins) \o <<e>>
<1>1. Fits(e) /\ Plain(<<e>>)
  BY Parts, EventFits, PlainEvent, SpecialistsAssumption DEF EventTypes, Speakers, Notes
<1>2. {joins[i] : i \in DOMAIN joins} = {speakers[i] : i \in DOMAIN speakers} \ participants
  BY DEF BuildReturns, AreNewcomers, JoinedRoles
<1>3. /\ Publish(es) /\ round' = round /\ lineup' = speakers
  BY DEF BuildReturns
<1>4. joins \in Seq(Specialists)
  BY LineupIsSeq
<1> HIDE DEF e
<1>5. Plain(es) /\ Fitting(<<e>>) /\ JoinEvents(joins) \in Seq(Event) /\ <<e>> \in Seq(Event)
  BY <1>1, <1>4, PlainJoins, PlainConcat, FittingSingleton, JoinEventsTyped DEF Fitting
<1>6. Orderly(es) /\ ~Has(es, "human.message")
  BY <1>2, <1>5, JoinsAreOrderly
<1>7. OpenLog(es) /\ es \in Seq(Event)
  BY <1>5, PlainIsGood
<1>8. \A i \in DOMAIN joins : joins[i] \in By(es, {"agent.joined"})
  <2> TAKE i \in DOMAIN joins
  <2>1. DOMAIN joins = 1..Len(joins) /\ Len(JoinEvents(joins)) = Len(joins)
        /\ JoinEvents(joins)[i] = Joined(joins[i])
    BY <1>4, LenProperties, JoinEventsTyped
  <2>2. i \in DOMAIN es /\ es[i] = Joined(joins[i])
    BY <1>5, <2>1, ConcatElements
  <2>3. \A role : Joined(role).type = "agent.joined" /\ Joined(role).by = role
    BY DEF Joined, Ev
  <2> HIDE DEF es
  <2>4. es[i].type = "agent.joined" /\ es[i].by = joins[i]
    BY <2>2, <2>3
  <2> QED BY <2>2, <2>4 DEF By
<1> HIDE DEF es
<1>9. participants' = participants \cup By(es, {"agent.joined"})
  BY <1>3 DEF Publish, AppendEvents, Project
<1>10. LineupJoined'
  BY <1>2, <1>3, <1>8, <1>9 DEF LineupJoined
<1> QED BY <1>3, <1>6, <1>7, <1>10 DEF OneBatch, Batch, GoesOn, Publish

\* Every step of a room is quiet or appends one batch.
LEMMA StepIsBatch ==
    ASSUME IInv, LineupJoined, Next
    PROVE  Quiet \/ OneBatch
<1>0. status \in {"running", "ended"} /\ round \in Nat
  BY Parts
<1>1. CASE BeginRound
  BY <1>1 DEF BeginRound, Quiet
<1>2. CASE BuildPublishes
  <2> DEFINE e == Ev("memory.write", "system", round, "")
  <2>1. status = "running"
    BY <1>2, DriveActsInARunningRoom DEF BuildPublishes
  <2>2. Fits(e) /\ Plain(<<e>>)
    BY <1>0, EventFits, PlainEvent DEF EventTypes, Speakers, SpeakingTypes, Notes
  <2>3. Publish(<<e>>) /\ round' = round /\ lineup' = lineup
    BY <1>2 DEF BuildPublishes
  <2> HIDE DEF e
  <2> QED BY <2>1, <2>2, <2>3, FittingSingleton, FittingBatch DEF Publish
<1>3. ASSUME NEW speakers \in Lineups \ {<<>>}, NEW joins \in Lineups,
             BuildReturns(speakers, joins)
      PROVE  OneBatch
  <2>1. status = "running"
    BY <1>3, DriveActsInARunningRoom DEF BuildReturns
  <2> QED BY <1>3, <2>1, BuildReturnsBatch
<1>4. CASE BuildFails
  <2> DEFINE e == Ended("runtime_failure")
  <2>1. status = "running"
    BY <1>4, DriveActsInARunningRoom DEF BuildFails
  <2>2. Fits(e) /\ e.type = "meeting.ended" /\ e.note = "runtime_failure"
    BY EventFits DEF Ended, Ev, EventTypes, Speakers, SpeakingTypes, Notes, EndCauses
  <2>3. Publish(<<e>>) /\ round' = round /\ lineup' = lineup
    BY <1>4 DEF BuildFails, FailureEvents, roundVars
  <2> HIDE DEF e
  <2>4. Orderly(<<e>>) /\ ~Has(<<e>>, "human.message") /\ <<e>> \in Seq(Event)
    BY <2>2, FittingSingleton, FittingIsOrderly DEF Fitting
  <2>5. EndsMeeting(<<e>>)
    BY <2>2, <2>3, <2>4 DEF EndsMeeting, ClosedLog, EndCauses
  <2>6. LineupJoined'
    BY <2>3, ParticipantsGrow DEF LineupJoined, Publish
  <2> QED BY <2>1, <2>3, <2>4, <2>5, <2>6 DEF OneBatch, Batch, Publish
<1>5. CASE StreamChunk
  <2> DEFINE e == Ev("message.chunk", Speaker, round, "")
  <2>1. status = "running"
    BY <1>5, DriveActsInARunningRoom DEF StreamChunk
  <2>2. Fits(e) /\ Plain(<<e>>)
    BY <1>0, SpeakerTyped, SpeakerJoined, EventFits, PlainEvent DEF EventTypes, Notes
  <2>3. Publish(<<e>>) /\ round' = round /\ lineup' = lineup
    BY <1>5 DEF StreamChunk
  <2> HIDE DEF e
  <2> QED BY <2>1, <2>2, <2>3, FittingSingleton, FittingBatch DEF Publish
<1>6. CASE FinishHostMessage
  <2> DEFINE e == Ev("agent.handoff", "host", round, "")
  <2>1. status = "running"
    BY <1>6, DriveActsInARunningRoom DEF FinishHostMessage
  <2>2. Plain(MessageEvents) /\ Fitting(MessageEvents)
    BY MessageEventsPlain, MessageEventsFit
  <2>3. CASE NextTurn(MessageEvents)
    BY <2>1, <2>2, <2>3, NextTurnBatch
  <2>4. CASE /\ Publish(MessageEvents \o <<e>>)
             /\ pc' = "turnDelay"
             /\ UNCHANGED <<round, lineup, turn, chunks>>
    <3>1. Fits(e) /\ Plain(<<e>>)
      BY <1>0, EventFits, PlainEvent DEF EventTypes, Speakers, SpeakingTypes, Notes
    <3> HIDE DEF e
    <3>2. Fitting(MessageEvents \o <<e>>) /\ Plain(MessageEvents \o <<e>>)
      BY <2>2, <3>1, FittingSingleton, FittingConcat, PlainConcat
    <3> QED BY <2>1, <2>4, <3>2, FittingBatch DEF Publish
  <2> QED BY <1>6, <2>3, <2>4 DEF FinishHostMessage
<1>7. CASE FinishMessage
  <2>1. status = "running"
    BY <1>7, DriveActsInARunningRoom DEF FinishMessage
  <2>2. Publish(MessageEvents) /\ round' = round /\ lineup' = lineup
    BY <1>7 DEF FinishMessage, roundVars
  <2> QED BY <2>1, <2>2, MessageEventsPlain, MessageEventsFit, FittingBatch DEF Publish
<1>8. CASE WakeBetweenTurns
  <2>1. status = "running"
    BY <1>8, DriveActsInARunningRoom DEF WakeBetweenTurns
  <2>2. Plain(<<>>) /\ Fitting(<<>>)
    BY DEF Plain, Fitting
  <2> QED BY <1>8, <2>1, <2>2, NextTurnBatch DEF WakeBetweenTurns
<1>9. CASE WakeAfterChallenge
  <2>1. status = "running"
    BY <1>9, DriveActsInARunningRoom DEF WakeAfterChallenge
  <2>2. Plain(<<>>) /\ Fitting(<<>>)
    BY DEF Plain, Fitting
  <2>3. turn \in 1..Len(lineup)
    BY <1>9, Parts DEF WakeAfterChallenge, ChallengeHasSpeaker
  <2> QED BY <1>9, <2>1, <2>2, <2>3, StartMessageBatch DEF WakeAfterChallenge
<1>10. CASE TaskCancelled
  BY <1>10 DEF TaskCancelled, Quiet, roundVars
<1>11. CASE PostHumanMessage
  <2> DEFINE e == Ev("human.message", "human", 0, "")
  <2>1. status = "running"
    BY <1>0, <1>11 DEF PostHumanMessage, AcceptsWrites
  <2>2. Publish(<<e>>) /\ round' = round /\ lineup' = lineup
    BY <1>11 DEF PostHumanMessage, roundVars
  <2>3. e \in Event /\ e.type = "human.message" /\ e.round = 0
    BY EventTyped DEF Ev, EventTypes, Speakers, Notes
  <2>4. TakesMessage(<<e>>)
    BY <2>2 DEF TakesMessage
  <2> HIDE DEF e
  <2>5. Orderly(<<e>>) /\ <<e>> \in Seq(Event)
    BY <2>3 DEF Orderly, SpeakingTypes
  <2>6. LineupJoined'
    BY <2>2, ParticipantsGrow DEF LineupJoined, Publish
  <2> QED BY <2>1, <2>2, <2>3, <2>4, <2>5, <2>6 DEF OneBatch, Batch, Publish
<1>12. CASE PostHumanOverride
  <2> DEFINE a == Ev("human.override", "human", 0, "")
             b == Ended("override")
  <2>1. status = "running"
    BY <1>0, <1>12 DEF PostHumanOverride, AcceptsWrites
  <2>2. Fits(a) /\ Fits(b)
    BY EventFits DEF Ended, EventTypes, Speakers, SpeakingTypes, Notes, EndCauses
  <2>3. a.type = "human.override" /\ b.type = "meeting.ended" /\ b.note = "override"
    BY DEF Ended, Ev
  <2>4. AppendEvents(<<a, b>>) /\ round' = round /\ lineup' = lineup
    BY <1>12 DEF PostHumanOverride, roundVars
  <2> HIDE DEF a, b
  <2>5. Fitting(<<a, b>>)
    BY <2>2 DEF Fitting, Fits
  <2>6. Orderly(<<a, b>>) /\ ~Has(<<a, b>>, "human.message") /\ <<a, b>> \in Seq(Event)
    BY <2>5, FittingIsOrderly DEF Fitting
  <2>7. EndsMeeting(<<a, b>>)
    BY <2>3, <2>4, <2>6 DEF EndsMeeting, ClosedLog, EndCauses
  <2>8. LineupJoined'
    BY <2>4, ParticipantsGrow DEF LineupJoined
  <2> QED BY <2>1, <2>4, <2>6, <2>7, <2>8 DEF OneBatch, Batch
<1>13. CASE OverrideReturns
  BY <1>13 DEF OverrideReturns, Quiet, roundVars
<1>14. CASE Close
  BY <1>14 DEF Close, Quiet, roundVars
<1> QED
  BY <1>1, <1>2, <1>3, <1>4, <1>5, <1>6, <1>7, <1>8, <1>9, <1>10, <1>11, <1>12,
     <1>13, <1>14 DEF Next, DriveStep

-----------------------------------------------------------------------------
(* The order of the journal.                                               *)

\* The roster a client sees is the roles the journal announced, in events of
\* one form.
RosterFollowsJournal ==
    /\ participants = By(journal, {"agent.joined"})
    /\ \A i \in DOMAIN journal :
          journal[i].type = "agent.joined" => journal[i] = Joined(journal[i].by)

\* The journal is never ahead of the round being run, and every round behind
\* it was closed by its check.
RoundsClosed ==
    /\ \A i \in DOMAIN journal : journal[i].round <= round
    /\ \A i \in DOMAIN journal :
          0 < journal[i].round /\ journal[i].round < round =>
              \E k \in i..Len(journal) :
                  journal[k] = Check(journal[i].round, "continue")

OrderInv ==
    /\ LineupJoined
    /\ RosterFollowsJournal
    /\ RolesJoinOnce
    /\ SpeakersJoinedFirst
    /\ RoundsClosed
    /\ RoundsRunInSequence

\* The journal a batch leaves, position by position.
LEMMA JournalGrows ==
    ASSUME journal \in Seq(Event), NEW es \in Seq(Event), AppendEvents(es)
    PROVE  /\ Len(journal) \in Nat /\ Len(es) \in Nat
           /\ Len(journal') = Len(journal) + Len(es)
           /\ DOMAIN journal = 1..Len(journal) /\ DOMAIN es = 1..Len(es)
           /\ DOMAIN journal' = 1..(Len(journal) + Len(es))
           /\ \A i \in 1..Len(journal) : journal'[i] = journal[i]
           /\ \A i \in (Len(journal) + 1)..(Len(journal) + Len(es)) :
                 i - Len(journal) \in DOMAIN es /\ journal'[i] = es[i - Len(journal)]
<1>1. journal' = journal \o es
  BY DEF AppendEvents
<1> QED BY <1>1, ConcatElements

\* Who joined, in two batches in a row.
LEMMA ByConcat ==
    ASSUME NEW a \in Seq(Event), NEW b \in Seq(Event), NEW types
    PROVE  By(a \o b, types) = By(a, types) \cup By(b, types)
<1> DEFINE ab == a \o b
<1>1. /\ Len(a) \in Nat /\ Len(b) \in Nat
      /\ DOMAIN a = 1..Len(a) /\ DOMAIN b = 1..Len(b)
      /\ DOMAIN ab = 1..(Len(a) + Len(b))
      /\ \A i \in 1..Len(a) : ab[i] = a[i]
      /\ \A i \in 1..Len(b) : ab[Len(a) + i] = b[i]
      /\ \A i \in (Len(a) + 1)..(Len(a) + Len(b)) :
            i - Len(a) \in DOMAIN b /\ ab[i] = b[i - Len(a)]
  BY ConcatElements
<1> HIDE DEF ab
<1>2. \A i \in DOMAIN a : i \in DOMAIN ab /\ ab[i] = a[i]
  BY <1>1
<1>3. \A i \in DOMAIN b : Len(a) + i \in DOMAIN ab /\ ab[Len(a) + i] = b[i]
  BY <1>1
<1>4. \A i \in DOMAIN ab : \/ i \in DOMAIN a /\ ab[i] = a[i]
                           \/ i - Len(a) \in DOMAIN b /\ ab[i] = b[i - Len(a)]
  BY <1>1
<1>5. By(ab, types) \subseteq By(a, types) \cup By(b, types)
  BY <1>4 DEF By
<1>6. By(a, types) \subseteq By(ab, types)
  BY <1>2 DEF By
<1>7. By(b, types) \subseteq By(ab, types)
  BY <1>3 DEF By
<1> QED BY <1>5, <1>6, <1>7 DEF ab

\* A batch keeps the announcements in order: new roles are strangers, and a
\* speaker was announced before the batch.
LEMMA BatchKeepsRoster ==
    ASSUME IInv, OrderInv, NEW es \in Seq(Event), Batch(es)
    PROVE  RosterFollowsJournal' /\ RolesJoinOnce' /\ SpeakersJoinedFirst'
<1> DEFINE n == Len(journal)
           m == Len(es)
<1>1. /\ n \in Nat /\ m \in Nat
      /\ DOMAIN journal = 1..n /\ DOMAIN es = 1..m /\ DOMAIN journal' = 1..(n + m)
      /\ \A i \in 1..n : journal'[i] = journal[i]
      /\ \A i \in (n + 1)..(n + m) : i - n \in DOMAIN es /\ journal'[i] = es[i - n]
  BY JournalGrows DEF IInv, TypeOK, Batch
<1> HIDE DEF n, m
<1>2. Orderly(es)
  BY DEF Batch
<1>3. participants' = participants \cup By(es, {"agent.joined"})
  BY DEF Batch, AppendEvents, Project
<1>4. By(journal', {"agent.joined"}) = By(journal, {"agent.joined"}) \cup By(es, {"agent.joined"})
  BY ByConcat DEF IInv, TypeOK, Batch, AppendEvents
<1>5. \A i \in DOMAIN journal : journal[i].type = "agent.joined" =>
          journal[i] = Joined(journal[i].by) /\ journal[i].by \in participants
  BY DEF OrderInv, RosterFollowsJournal, By
<1>6. RosterFollowsJournal'
  <2>1. participants' = By(journal', {"agent.joined"})
    BY <1>3, <1>4 DEF OrderInv, RosterFollowsJournal
  <2>2. ASSUME NEW i \in DOMAIN journal', journal'[i].type = "agent.joined"
        PROVE  journal'[i] = Joined(journal'[i].by)
    <3>1. CASE i \in 1..n
      BY <1>1, <1>5, <2>2, <3>1
    <3>2. CASE i \in (n + 1)..(n + m)
      BY <1>1, <1>2, <2>2, <3>2 DEF Orderly
    <3> QED BY <1>1, <3>1, <3>2
  <2> QED BY <2>1, <2>2 DEF RosterFollowsJournal
<1>7. RolesJoinOnce'
  <2> SUFFICES ASSUME NEW i \in DOMAIN journal', NEW j \in DOMAIN journal',
                      journal'[i].type = "agent.joined", journal'[j].type = "agent.joined",
                      journal'[i].by = journal'[j].by
               PROVE  i = j
    BY DEF RolesJoinOnce
  <2>1. CASE i \in 1..n /\ j \in 1..n
    BY <1>1, <2>1 DEF OrderInv, RolesJoinOnce
  <2>2. ASSUME NEW p \in 1..n, NEW q \in (n + 1)..(n + m),
               journal'[p].type = "agent.joined", journal'[q].type = "agent.joined",
               journal'[p].by = journal'[q].by
        PROVE  FALSE
    <3>1. journal[p].by \in participants
      BY <1>1, <1>5, <2>2
    <3>2. q - n \in DOMAIN es /\ es[q - n].type = "agent.joined" /\ es[q - n].by = journal[p].by
      BY <1>1, <2>2
    <3> QED BY <1>2, <3>1, <3>2 DEF Orderly
  <2>3. CASE i \in (n + 1)..(n + m) /\ j \in (n + 1)..(n + m)
    <3>1. i - n \in DOMAIN es /\ j - n \in DOMAIN es
          /\ journal'[i] = es[i - n] /\ journal'[j] = es[j - n]
      BY <1>1, <2>3
    <3>2. i - n = j - n
      BY <1>2, <3>1 DEF Orderly
    <3> QED BY <1>1, <2>3, <3>2
  <2> QED BY <1>1, <2>1, <2>2, <2>3
<1>8. SpeakersJoinedFirst'
  <2> SUFFICES ASSUME NEW j \in DOMAIN journal',
                      journal'[j].type \in SpeakingTypes, journal'[j].by \in Specialists
               PROVE  \E i \in 1..(j - 1) : journal'[i] = Joined(journal'[j].by)
    BY DEF SpeakersJoinedFirst
  <2>1. CASE j \in 1..n
    <3>1. journal'[j] = journal[j]
      BY <1>1, <2>1
    <3>2. PICK i \in 1..(j - 1) : journal[i] = Joined(journal[j].by)
      BY <1>1, <2>1, <3>1 DEF OrderInv, SpeakersJoinedFirst
    <3>3. i \in 1..n
      BY <1>1, <2>1
    <3> QED BY <1>1, <3>1, <3>2, <3>3
  <2>2. CASE j \in (n + 1)..(n + m)
    <3>1. journal'[j].by \in participants
      BY <1>1, <1>2, <2>2 DEF Orderly
    <3>2. PICK i \in 1..n : journal[i].type = "agent.joined" /\ journal[i].by = journal'[j].by
      BY <1>1, <3>1 DEF OrderInv, RosterFollowsJournal, By
    <3>3. journal'[i] = Joined(journal'[j].by)
      BY <1>1, <1>5, <3>2
    <3>4. i \in 1..(j - 1)
      BY <1>1, <2>2
    <3> QED BY <3>3, <3>4
  <2> QED BY <1>1, <2>1, <2>2
<1> QED BY <1>6, <1>7, <1>8

\* A batch keeps the rounds in sequence: it belongs to the current round,
\* and opens the next one only behind the check that closes this one.
LEMMA BatchKeepsRounds ==
    ASSUME IInv, OrderInv, NEW es \in Seq(Event), Batch(es)
    PROVE  RoundsClosed' /\ RoundsRunInSequence'
<1> DEFINE n == Len(journal)
           m == Len(es)
<1>1. /\ n \in Nat /\ m \in Nat /\ Len(journal') = n + m
      /\ DOMAIN journal = 1..n /\ DOMAIN es = 1..m /\ DOMAIN journal' = 1..(n + m)
      /\ \A i \in 1..n : journal'[i] = journal[i]
      /\ \A i \in (n + 1)..(n + m) : i - n \in DOMAIN es /\ journal'[i] = es[i - n]
  BY JournalGrows DEF IInv, TypeOK, Batch
<1>2. /\ \A i \in 1..n : journal[i].round \in Nat /\ journal[i].round <= round
      /\ \A i \in (n + 1)..(n + m) : journal'[i].round \in {0, round}
      /\ round \in Nat
  <2>1. \A i \in 1..n : journal[i] \in Event
    BY <1>1, ElementOfSeq DEF IInv, TypeOK
  <2>2. \A i \in 1..n : journal[i].round \in Nat
    BY <2>1 DEF Event
  <2>3. \A i \in 1..n : journal[i].round <= round
    BY <1>1 DEF OrderInv, RoundsClosed
  <2>4. \A i \in (n + 1)..(n + m) : journal'[i].round \in {0, round}
    BY <1>1 DEF Batch, Orderly
  <2> QED BY <2>2, <2>3, <2>4, Parts
<1>3. \/ round' = round
      \/ /\ round' = round + 1
         /\ m > 0 /\ journal'[n + m] = Check(round, "continue")
  <2>1. CASE ClosesRound(es)
    <3>1. m > 0 /\ es[m] = Check(round, "continue") /\ round' = round + 1
      BY <1>1, <2>1, EmptySeq DEF ClosesRound
    <3>2. n + m \in (n + 1)..(n + m) /\ (n + m) - n = m
      BY <1>1, <3>1
    <3>3. journal'[n + m] = es[m]
      BY <1>1, <3>2
    <3> QED BY <3>1, <3>3
  <2> QED BY <2>1 DEF Batch, GoesOn, TakesMessage, EndsMeeting
<1> HIDE DEF n, m
<1>4. ASSUME NEW i \in 1..(n + m), 0 < journal'[i].round, journal'[i].round < round
      PROVE  i \in 1..n /\ \E k \in i..n : journal'[k] = Check(journal'[i].round, "continue")
  <2>1. i \in 1..n
    BY <1>1, <1>2, <1>4
  <2>2. journal'[i] = journal[i]
    BY <1>1, <2>1
  <2>3. PICK k \in i..n : journal[k] = Check(journal[i].round, "continue")
    BY <1>1, <1>4, <2>1, <2>2 DEF OrderInv, RoundsClosed, n
  <2>4. k \in 1..n
    BY <1>1, <2>1
  <2> QED BY <1>1, <2>1, <2>2, <2>3, <2>4
<1>5. RoundsClosed'
  <2>1. ASSUME NEW i \in 1..(n + m)
        PROVE  journal'[i].round \in Nat /\ journal'[i].round <= round
    <3>1. CASE i \in 1..n
      BY <1>1, <1>2, <3>1
    <3>2. CASE i \in (n + 1)..(n + m)
      BY <1>1, <1>2, <3>2
    <3> QED BY <1>1, <3>1, <3>2
  <2>2. \A i \in 1..(n + m) : journal'[i].round <= round'
    BY <1>2, <1>3, <2>1
  <2>3. ASSUME NEW i \in 1..(n + m), 0 < journal'[i].round, journal'[i].round < round'
        PROVE  \E k \in i..(n + m) : journal'[k] = Check(journal'[i].round, "continue")
    <3>1. CASE journal'[i].round < round
      BY <1>1, <1>4, <2>3, <3>1
    <3>2. CASE ~(journal'[i].round < round)
      <4>1. journal'[i].round = round /\ round' = round + 1
        BY <1>2, <1>3, <2>1, <2>3, <3>2
      <4>2. m > 0 /\ journal'[n + m] = Check(journal'[i].round, "continue")
        BY <1>2, <1>3, <4>1
      <4>3. n + m \in i..(n + m)
        BY <1>1
      <4> QED BY <4>2, <4>3
    <3> QED BY <3>1, <3>2
  <2> QED BY <1>1, <2>2, <2>3 DEF RoundsClosed
<1>6. RoundsRunInSequence'
  <2> SUFFICES ASSUME NEW i \in DOMAIN journal', NEW j \in DOMAIN journal',
                      i < j, journal'[i].round > 0, journal'[j].round > journal'[i].round
               PROVE  \E k \in i..(j - 1) : journal'[k] = Check(journal'[i].round, "continue")
    BY DEF RoundsRunInSequence
  <2>1. CASE j \in 1..n
    <3>1. i \in 1..n
      BY <1>1, <2>1
    <3>2. journal'[i] = journal[i] /\ journal'[j] = journal[j]
      BY <1>1, <2>1, <3>1
    <3>3. PICK k \in i..(j - 1) : journal[k] = Check(journal[i].round, "continue")
      BY <1>1, <2>1, <3>1, <3>2 DEF OrderInv, RoundsRunInSequence
    <3>4. k \in 1..n
      BY <1>1, <2>1, <3>1
    <3> QED BY <1>1, <3>2, <3>3, <3>4
  <2>2. CASE j \in (n + 1)..(n + m)
    <3>0. i \in 1..(n + m)
      BY <1>1
    <3>1. journal'[i].round \in Nat
      <4>1. CASE i \in 1..n
        BY <1>1, <1>2, <4>1
      <4>2. CASE i \in (n + 1)..(n + m)
        BY <1>2, <4>2
      <4> QED BY <1>1, <3>0, <4>1, <4>2
    <3>2. journal'[j].round \in {0, round}
      BY <1>2, <2>2
    <3>3. journal'[i].round < round /\ 0 < journal'[i].round
      BY <1>2, <3>1, <3>2
    <3>4. PICK k \in i..n : journal'[k] = Check(journal'[i].round, "continue")
      BY <3>0, <1>4, <3>3
    <3>5. k \in i..(j - 1)
      BY <1>1, <2>2
    <3> QED BY <3>4, <3>5
  <2> QED BY <1>1, <2>1, <2>2
<1> QED BY <1>5, <1>6

\* A room starts in order.
LEMMA InitOrderInv == Init => OrderInv
<1> SUFFICES ASSUME Init PROVE OrderInv
  OBVIOUS
<1> DEFINE a == <<Ev("planning.completed", "system", 0, ""), Ev("room.started", "system", 0, "")>>
           b == JoinEvents(OpeningRoster)
           n == Len(OpeningRoster)
<1>1. /\ a \in Seq(Event)
      /\ Len(a) = 2
      /\ \A i \in 1..2 : a[i].type \in {"planning.completed", "room.started"} /\ a[i].round = 0
  <2> DEFINE p == Ev("planning.completed", "system", 0, "")
             q == Ev("room.started", "system", 0, "")
  <2>1. p \in Event /\ q \in Event
    BY EventTyped DEF EventTypes, Speakers, Notes
  <2>2. /\ p.type = "planning.completed" /\ p.round = 0
        /\ q.type = "room.started" /\ q.round = 0
    BY DEF Ev
  <2> HIDE DEF p, q
  <2>3. /\ <<p, q>> \in Seq(Event) /\ Len(<<p, q>>) = 2
        /\ <<p, q>>[1] = p /\ <<p, q>>[2] = q
    BY <2>1
  <2>4. a = <<p, q>>
    BY DEF p, q
  <2>5. \A i \in 1..2 : i = 1 \/ i = 2
    OBVIOUS
  <2> HIDE DEF a
  <2> QED BY <2>2, <2>3, <2>4, <2>5
<1>2. OpeningRoster \in Seq(Specialists) /\ n \in Nat /\ DOMAIN OpeningRoster = 1..n
  BY RosterAssumption, LenProperties
<1>3. /\ b \in Seq(Event) /\ Len(b) = n
      /\ \A i \in 1..n : b[i] = Joined(OpeningRoster[i])
  BY <1>2, JoinEventsTyped
<1>4. journal = a \o b
  BY DEF Init
<1> HIDE DEF a, b
<1>5. /\ journal \in Seq(Event)
      /\ DOMAIN journal = 1..(2 + n)
      /\ \A i \in 1..2 : journal[i] = a[i]
      /\ \A i \in 1..n : journal[2 + i] = b[i]
      /\ \A i \in 3..(2 + n) : i - 2 \in 1..n /\ journal[i] = b[i - 2]
  <2>1. /\ Len(a) \in Nat /\ Len(b) \in Nat /\ DOMAIN b = 1..Len(b)
        /\ a \o b \in Seq(Event)
        /\ DOMAIN (a \o b) = 1..(Len(a) + Len(b))
        /\ \A i \in 1..Len(a) : (a \o b)[i] = a[i]
        /\ \A i \in 1..Len(b) : (a \o b)[Len(a) + i] = b[i]
        /\ \A i \in (Len(a) + 1)..(Len(a) + Len(b)) :
              i - Len(a) \in DOMAIN b /\ (a \o b)[i] = b[i - Len(a)]
    BY <1>1, <1>3, ConcatElements
  <2> HIDE DEF n
  <2> QED BY <1>1, <1>3, <1>4, <2>1
<1> HIDE DEF n
<1>6. \A role : Joined(role).type = "agent.joined" /\ Joined(role).by = role
             /\ Joined(role).round = 0
  BY DEF Joined, Ev
<1>7. \A i \in 1..n : 2 + i \in DOMAIN journal /\ journal[2 + i] = Joined(OpeningRoster[i])
  BY <1>2, <1>3, <1>5
<1>8. ASSUME NEW i \in DOMAIN journal
      PROVE  \/ /\ journal[i].type \in {"planning.completed", "room.started"}
                /\ journal[i].round = 0
             \/ /\ i - 2 \in 1..n
                /\ journal[i] = Joined(OpeningRoster[i - 2])
  <2>1. CASE i \in 1..2
    BY <1>1, <1>5, <2>1
  <2>2. CASE i \in 3..(2 + n)
    BY <1>3, <1>5, <2>2
  <2> QED BY <1>2, <1>5, <2>1, <2>2
<1>9. \A i \in DOMAIN journal : journal[i].round = 0
  BY <1>6, <1>8
<1>10. RosterFollowsJournal
  <2>1. participants = {OpeningRoster[i] : i \in 1..n}
    BY <1>2 DEF Init
  <2>2. \A i \in DOMAIN journal : journal[i].type = "agent.joined" =>
           i - 2 \in 1..n /\ journal[i].by = OpeningRoster[i - 2]
           /\ journal[i] = Joined(journal[i].by)
    BY <1>6, <1>8
  <2>3. By(journal, {"agent.joined"}) \subseteq participants
    BY <2>1, <2>2 DEF By
  <2>4. participants \subseteq By(journal, {"agent.joined"})
    <3> SUFFICES ASSUME NEW i \in 1..n
                 PROVE  OpeningRoster[i] \in By(journal, {"agent.joined"})
      BY <2>1
    <3>1. /\ 2 + i \in DOMAIN journal /\ journal[2 + i].type = "agent.joined"
          /\ journal[2 + i].by = OpeningRoster[i]
      BY <1>6, <1>7
    <3> QED BY <3>1 DEF By
  <2> QED BY <2>2, <2>3, <2>4 DEF RosterFollowsJournal
<1>11. RolesJoinOnce
  <2> SUFFICES ASSUME NEW i \in DOMAIN journal, NEW j \in DOMAIN journal,
                      journal[i].type = "agent.joined", journal[j].type = "agent.joined",
                      journal[i].by = journal[j].by
               PROVE  i = j
    BY DEF RolesJoinOnce
  <2>1. /\ i - 2 \in 1..n /\ journal[i].by = OpeningRoster[i - 2]
        /\ j - 2 \in 1..n /\ journal[j].by = OpeningRoster[j - 2]
    BY <1>6, <1>8
  <2>2. i - 2 = j - 2
    BY <1>2, <2>1, RosterAssumption
  <2> QED BY <1>2, <1>5, <2>2
<1>12. SpeakersJoinedFirst
  <2>1. \A i \in DOMAIN journal : journal[i].type \notin SpeakingTypes
    BY <1>6, <1>8 DEF SpeakingTypes
  <2> QED BY <2>1 DEF SpeakersJoinedFirst
<1>13. RoundsClosed /\ RoundsRunInSequence
  <2>1. round = 1
    BY DEF Init
  <2>2. RoundsClosed
    BY <1>9, <2>1 DEF RoundsClosed
  <2>3. RoundsRunInSequence
    <3> SUFFICES ASSUME NEW i \in DOMAIN journal, journal[i].round > 0
                 PROVE  FALSE
      BY DEF RoundsRunInSequence
    <3> QED BY <1>9
  <2> QED BY <2>2, <2>3
<1>14. LineupJoined
  <2>1. lineup = <<>>
    BY DEF Init
  <2>2. DOMAIN lineup = {}
    BY <2>1
  <2> QED BY <2>2 DEF LineupJoined
<1> QED BY <1>10, <1>11, <1>12, <1>13, <1>14 DEF OrderInv

\* Every step of a room keeps the order.
LEMMA NextOrderInv ==
    ASSUME IInv, OrderInv, [Next]_vars
    PROVE  OrderInv'
<1>1. CASE Quiet \/ UNCHANGED vars
  BY <1>1 DEF Quiet, roomVars, roundVars, vars, OrderInv, LineupJoined,
     RosterFollowsJournal, RolesJoinOnce, SpeakersJoinedFirst, RoundsClosed,
     RoundsRunInSequence
<1>2. CASE OneBatch
  <2>1. PICK es \in Seq(Event) : Batch(es)
    BY <1>2 DEF OneBatch
  <2>2. LineupJoined'
    BY <2>1 DEF Batch
  <2> QED BY <2>1, <2>2, BatchKeepsRoster, BatchKeepsRounds DEF OrderInv
<1> QED BY <1>1, <1>2, StepIsBatch DEF OrderInv

\* The order of the journal, of every run of a room.
THEOREM JournalInOrder == Spec => []OrderInv
<1>1. IInv /\ OrderInv /\ [Next]_vars => OrderInv'
  BY NextOrderInv
<1> QED BY <1>1, InitOrderInv, Inductive, PTL DEF Spec

\* Rounds do not overlap in the journal: a later round opens behind the check
\* that closed the earlier one.
THEOREM RoundsInSequence == Spec => []RoundsRunInSequence
<1>1. OrderInv => RoundsRunInSequence
  BY DEF OrderInv
<1> QED BY <1>1, JournalInOrder, PTL

\* A specialist is announced before it is first heard.
THEOREM JoinBeforeSpeech == Spec => []SpeakersJoinedFirst
<1>1. OrderInv => SpeakersJoinedFirst
  BY DEF OrderInv
<1> QED BY <1>1, JournalInOrder, PTL

\* However many rounds a role returns in, it is announced once.
THEOREM JoinOnce == Spec => []RolesJoinOnce
<1>1. OrderInv => RolesJoinOnce
  BY DEF OrderInv
<1> QED BY <1>1, JournalInOrder, PTL

-----------------------------------------------------------------------------
(* An override's answer.                                                   *)

\* An override ends the room before it waits, and is answered only when the
\* drive task has stopped.
OverrideInv ==
    /\ override = "waiting" => status = "ended"
    /\ override = "returned" => status = "ended" /\ pc = "stopped"

\* In a room that has ended and whose task has stopped nothing moves.
LEMMA StoppedRoomRests ==
    ASSUME IInv, LineupJoined, Next, status = "ended"
    PROVE  /\ UNCHANGED <<roomVars, round>>
           /\ pc = "stopped" => pc' = "stopped"
<1>1. Quiet
  BY StepIsBatch DEF OneBatch, Batch
<1>2. ASSUME pc = "stopped" PROVE pc' = "stopped"
  BY <1>2 DEF Next, DriveStep, BeginRound, BuildPublishes, BuildReturns, BuildFails,
     StreamChunk, FinishHostMessage, FinishMessage, WakeBetweenTurns,
     WakeAfterChallenge, TaskCancelled, PostHumanMessage, PostHumanOverride,
     AcceptsWrites, OverrideReturns, Close
<1> QED BY <1>1, <1>2 DEF Quiet

\* Only the override's own two steps move its caller.
LEMMA NextOverrideInv ==
    ASSUME IInv, LineupJoined, OverrideInv, [Next]_vars
    PROVE  OverrideInv'
<1>1. CASE UNCHANGED vars
  BY <1>1 DEF vars, roomVars, OverrideInv
<1>2. CASE PostHumanOverride
  <2> DEFINE a == Ev("human.override", "human", 0, "")
             b == Ended("override")
  <2>1. b.type = "meeting.ended"
    BY DEF Ended, Ev
  <2>2. AppendEvents(<<a, b>>) /\ override' = "waiting"
    BY <1>2 DEF PostHumanOverride
  <2> HIDE DEF a, b
  <2>3. 2 \in DOMAIN <<a, b>> /\ <<a, b>>[2] = b
    OBVIOUS
  <2>4. Has(<<a, b>>, "meeting.ended")
    BY <2>1, <2>3 DEF Has
  <2>5. status' = "ended"
    BY <2>2, <2>4 DEF AppendEvents, Project
  <2> QED BY <2>2, <2>5 DEF OverrideInv
<1>3. CASE OverrideReturns
  <2>1. status' = status /\ pc' = pc /\ pc = "stopped" /\ override = "waiting"
    BY <1>3 DEF OverrideReturns, TaskAwaited, roomVars
  <2>2. override' \in {"returned", "unknown_room"}
    BY <1>3 DEF OverrideReturns
  <2> QED BY <2>1, <2>2 DEF OverrideInv
<1>4. CASE Next /\ ~PostHumanOverride /\ ~OverrideReturns
  <2>1. override' = override
    BY <1>4 DEF Next, DriveStep, BeginRound, BuildPublishes, BuildReturns, BuildFails,
       StreamChunk, FinishHostMessage, FinishMessage, WakeBetweenTurns,
       WakeAfterChallenge, TaskCancelled, PostHumanMessage, Close
  <2>2. status = "ended" => status' = "ended" /\ (pc = "stopped" => pc' = "stopped")
    BY <1>4, StoppedRoomRests DEF roomVars
  <2> QED BY <2>1, <2>2 DEF OverrideInv
<1> QED BY <1>1, <1>2, <1>3, <1>4

\* The snapshot an override answers with is final, whoever else calls.
THEOREM OverrideIsFinal == Spec => OverrideAnswerIsFinal
<1>1. Init => OverrideInv
  BY DEF Init, OverrideInv
<1>2. IInv /\ OrderInv /\ OverrideInv /\ [Next]_vars => OverrideInv'
  BY NextOverrideInv DEF OrderInv
<1>3. IInv /\ OrderInv /\ OverrideInv /\ [Next]_vars =>
         [override = "returned" => UNCHANGED <<roomVars, pc>>]_vars
  BY StoppedRoomRests DEF OrderInv, OverrideInv
<1> QED BY <1>1, <1>2, <1>3, Inductive, JournalInOrder, PTL DEF Spec, OverrideAnswerIsFinal

-----------------------------------------------------------------------------
(* The meeting a client is promised.                                       *)

\* The last event of the journal after a batch is the batch's.
LEMMA LastEvent ==
    ASSUME journal \in Seq(Event), NEW es \in Seq(Event), es # <<>>, AppendEvents(es)
    PROVE  journal'[Len(journal')] = es[Len(es)]
BY LastOfBatch DEF AppendEvents

\* What each kind of batch does to the meeting's status and its messages.
LEMMA BatchMovesMeeting ==
    ASSUME IInv, NEW es \in Seq(Event), Batch(es)
    PROVE  /\ OpenLog(es) => status' = "running"
           /\ ClosedLog(es) => status' = "ended" /\ Cause' = es[Len(es)].note
           /\ heard' = IF Has(es, "human.message") THEN heard + 1 ELSE heard
<1>1. /\ status' = IF Has(es, "meeting.ended") THEN "ended" ELSE status
      /\ heard' = IF Has(es, "human.message") THEN heard + 1 ELSE heard
      /\ status = "running"
  BY DEF Batch, AppendEvents, Project
<1>2. OpenLog(es) => ~Has(es, "meeting.ended")
  BY DEF OpenLog, Has
<1>3. ASSUME ClosedLog(es) PROVE status' = "ended" /\ Cause' = es[Len(es)].note
  <2>1. Len(es) \in DOMAIN es
    BY <1>3, LenProperties, EmptySeq DEF ClosedLog
  <2>2. status' = "ended"
    BY <1>1, <1>3, <2>1 DEF ClosedLog, Has
  <2>3. journal'[Len(journal')] = es[Len(es)]
    BY <1>3, LastEvent DEF ClosedLog, Batch, IInv, TypeOK
  <2> QED BY <2>2, <2>3 DEF Cause
<1> QED BY <1>1, <1>2, <1>3

\* The abstract meeting's variables, as the room defines them.
Completed == IF Cause \in {"orchestration", "budget"} THEN round ELSE round - 1

\* A room that runs has no cause, and has completed every round but this one.
LEMMA RunningMeeting ==
    ASSUME status = "running"
    PROVE  Cause = "none" /\ Completed = round - 1
BY DEF Cause, Completed

\* One batch is one step of the meeting, or none.
LEMMA BatchRefines ==
    ASSUME IInv, NEW es \in Seq(Event), Batch(es)
    PROVE  \/ /\ Cause = "none" /\ heard' = heard + 1
              /\ Cause' = Cause /\ Completed' = Completed
           \/ /\ Cause = "none" /\ Completed < MaxRounds /\ Completed' = Completed + 1
              /\ Cause' \in {"none", "orchestration", "budget"}
              /\ Cause' = "budget" => Completed' = MaxRounds
              /\ Cause' = "none" => Completed' < MaxRounds
              /\ heard' = heard
           \/ /\ Cause = "none" /\ Cause' \in {"override", "runtime_failure"}
              /\ Completed' = Completed /\ heard' = heard
           \/ Cause' = Cause /\ Completed' = Completed /\ heard' = heard
<1>1. Cause = "none" /\ Completed = round - 1 /\ round \in 1..MaxRounds /\ MaxRounds \in Nat
  BY RunningMeeting, BoundsAssumption DEF Batch, IInv, TypeOK
<1>2. /\ OpenLog(es) => status' = "running"
      /\ ClosedLog(es) => status' = "ended" /\ Cause' = es[Len(es)].note
      /\ heard' = IF Has(es, "human.message") THEN heard + 1 ELSE heard
  BY BatchMovesMeeting
<1>3. status' = "running" => Cause' = "none" /\ Completed' = round' - 1
  BY DEF Cause, Completed
<1>4. CASE GoesOn(es)
  BY <1>1, <1>2, <1>3, <1>4 DEF GoesOn
<1>5. CASE TakesMessage(es)
  <2> DEFINE e == Ev("human.message", "human", 0, "")
  <2>3. es = <<e>> /\ e.type = "human.message"
    BY <1>5 DEF TakesMessage, Ev
  <2> HIDE DEF e
  <2>1. OpenLog(es) /\ Has(es, "human.message")
    BY <2>3 DEF OpenLog, Has
  <2>2. round' = round
    BY <1>5 DEF TakesMessage
  <2> QED BY <1>1, <1>2, <1>3, <2>1, <2>2
<1>6. CASE ClosesRound(es)
  <2>1. OpenLog(es) /\ ~Has(es, "human.message") /\ round < MaxRounds /\ round' = round + 1
    BY <1>6 DEF ClosesRound
  <2>2. Cause' = "none" /\ Completed' = round /\ heard' = heard
    BY <1>1, <1>2, <1>3, <2>1
  <2> QED BY <1>1, <2>1, <2>2
<1>7. CASE EndsMeeting(es)
  <2> DEFINE note == es[Len(es)].note
  <2>1. /\ ClosedLog(es) /\ round' = round /\ ~Has(es, "human.message")
        /\ note \in EndCauses /\ (note = "budget" => round = MaxRounds)
    BY <1>7 DEF EndsMeeting
  <2>2. Cause' = note /\ heard' = heard
    BY <1>2, <2>1
  <2>3. Completed' = IF note \in {"orchestration", "budget"} THEN round ELSE round - 1
    BY <2>1, <2>2 DEF Completed
  <2> HIDE DEF note
  <2> QED BY <1>1, <2>1, <2>2, <2>3 DEF EndCauses
<1> QED BY <1>4, <1>5, <1>6, <1>7 DEF Batch

\* Every step of a room is a step of the meeting it promises, or none.
LEMMA StepRefines ==
    ASSUME IInv, LineupJoined, [Next]_vars
    PROVE  [Lifecycle!Next]_Lifecycle!vars
<1> USE DEF Lifecycle!Next, Lifecycle!vars, Lifecycle!AcceptMessage,
        Lifecycle!CompleteRound, Lifecycle!Interrupt
<1>1. CASE Quiet \/ UNCHANGED vars
  <2>1. UNCHANGED <<journal, status, round, heard>>
    BY <1>1 DEF Quiet, vars, roomVars, roundVars
  <2>2. Cause' = Cause
    BY <2>1 DEF Cause
  <2> QED BY <2>1, <2>2
<1>2. CASE OneBatch
  <2>1. PICK es \in Seq(Event) : Batch(es)
    BY <1>2 DEF OneBatch
  <2> QED BY <2>1, BatchRefines DEF Completed
<1> QED BY <1>1, <1>2, StepIsBatch

\* The room, with its journal, task, operator and shutdown, implements the
\* abstract meeting: at most MaxRounds rounds, one end, one of four causes.
THEOREM RoomImplementsMeeting == Spec => ImplementsLifecycle
<1>1. Init => Lifecycle!Init
  <2> SUFFICES ASSUME Init PROVE Lifecycle!Init
    OBVIOUS
  <2>1. Cause = "none" /\ Completed = round - 1 /\ round = 1 /\ heard = 0
    BY RunningMeeting DEF Init
  <2> QED BY <2>1 DEF Lifecycle!Init, Completed
<1>2. IInv /\ OrderInv /\ [Next]_vars => [Lifecycle!Next]_Lifecycle!vars
  BY StepRefines DEF OrderInv
<1> QED BY <1>1, <1>2, Inductive, JournalInOrder, PTL DEF Spec, ImplementsLifecycle, Lifecycle!Spec

-----------------------------------------------------------------------------
(* The partial text a client shows.                                        *)

\* A task is cancelled only by who has ended the room or closed the service.
CancelHasCause == cancelled => status = "ended" \/ ~open
LiveInv == LiveTextIsTheSpeakers /\ CancelHasCause

\* The speakers a batch shows the partial text of, and those it completes.
Opens(es) == By(es, {"message.chunk"})
Completes(es) == By(es, {"agent.message"})

\* A batch that neither streams nor completes a message.
Hush(es) == es \in Seq(Event) /\ Opens(es) = {} /\ Completes(es) = {}

\* What one event opens.
LEMMA OpensOfOne ==
    ASSUME NEW e \in Event
    PROVE  /\ <<e>> \in Seq(Event)
           /\ e.type = "message.chunk" => Opens(<<e>>) = {e.by} /\ Completes(<<e>>) = {}
           /\ e.type \notin {"message.chunk", "agent.message"} => Hush(<<e>>)
BY DEF Opens, Completes, By, Hush

\* The texts two batches in a row open and complete are those of either.
LEMMA OpensOfTwo ==
    ASSUME NEW a \in Seq(Event), NEW b \in Seq(Event)
    PROVE  /\ a \o b \in Seq(Event)
           /\ Opens(a \o b) = Opens(a) \cup Opens(b)
           /\ Completes(a \o b) = Completes(a) \cup Completes(b)
BY ByConcat, ConcatProperties DEF Opens, Completes

\* A batch followed by silence opens and completes what it did.
LEMMA HushAfter ==
    ASSUME NEW a \in Seq(Event), NEW b, Hush(b)
    PROVE  /\ a \o b \in Seq(Event)
           /\ Opens(a \o b) = Opens(a) /\ Completes(a \o b) = Completes(a)
<1>1. b \in Seq(Event) /\ Opens(b) = {} /\ Completes(b) = {}
  BY DEF Hush
<1>2. /\ a \o b \in Seq(Event)
      /\ Opens(a \o b) = Opens(a) \cup Opens(b)
      /\ Completes(a \o b) = Completes(a) \cup Completes(b)
  BY <1>1, OpensOfTwo, Zenon
<1> QED BY <1>1, <1>2

\* A chunk opens the text of who sends it.
LEMMA ChunkAfter ==
    ASSUME NEW a \in Seq(Event), NEW e \in Event, e.type = "message.chunk"
    PROVE  /\ a \o <<e>> \in Seq(Event)
           /\ Opens(a \o <<e>>) = Opens(a) \cup {e.by}
           /\ Completes(a \o <<e>>) = Completes(a)
<1>1. <<e>> \in Seq(Event) /\ Opens(<<e>>) = {e.by} /\ Completes(<<e>>) = {}
  BY OpensOfOne
<1>2. /\ a \o <<e>> \in Seq(Event)
      /\ Opens(a \o <<e>>) = Opens(a) \cup Opens(<<e>>)
      /\ Completes(a \o <<e>>) = Completes(a) \cup Completes(<<e>>)
  BY <1>1, OpensOfTwo, Zenon
<1> QED BY <1>1, <1>2

\* The live text after a batch.
LEMMA LiveAfterBatch ==
    ASSUME NEW es, AppendEvents(es)
    PROVE  live' = (live \cup Opens(es)) \ Completes(es)
BY DEF AppendEvents, Project, LiveAfter, Opens, Completes

\* A complete message takes its speaker's text away.
LEMMA MessageEventsComplete ==
    ASSUME IInv
    PROVE  /\ MessageEvents \in Seq(Event)
           /\ Opens(MessageEvents) = {} /\ Completes(MessageEvents) = {Speaker}
<1> DEFINE a == Ev("message.commit", Speaker, round, "")
           b == Ev("agent.message", Speaker, round, "")
<1>1. a \in Event /\ b \in Event
  BY Parts, SpeakerTyped, EventTyped DEF EventTypes, Notes
<1>2. a.type = "message.commit" /\ b.type = "agent.message" /\ b.by = Speaker
  BY DEF Ev
<1>3. MessageEvents = <<a, b>>
  BY DEF MessageEvents
<1> HIDE DEF a, b
<1>4. MessageEvents \in Seq(Event)
  BY <1>1, <1>3
<1>5. /\ DOMAIN MessageEvents = {1, 2}
      /\ MessageEvents[1].type = "message.commit"
      /\ MessageEvents[2].type = "agent.message" /\ MessageEvents[2].by = Speaker
  BY <1>2, <1>3
<1> QED BY <1>4, <1>5 DEF Opens, Completes, By

\* What the run published before the next turn: the host's text is complete.
Cleared(earlier) ==
    /\ earlier \in Seq(Event)
    /\ Opens(earlier) = {}
    /\ live \ Completes(earlier) = {}
    /\ Completes(earlier) \cap Specialists = {}

\* Taking the next turn shows the text of the new speaker, or of nobody.
LEMMA NextTurnLive ==
    ASSUME IInv, NEW earlier, Cleared(earlier), NextTurn(earlier)
    PROVE  live' = IF pc' = "streaming" THEN {Speaker'} ELSE {}
<1>1. lineup \in Seq(Specialists) /\ turn \in 0..Len(lineup) /\ round \in Nat
  BY Parts DEF TaskTypes
<1>2. ASSUME turn < Len(lineup)
      PROVE  turn + 1 \in 1..Len(lineup) /\ lineup[turn + 1] \in Specialists
  <2>1. turn + 1 \in 1..Len(lineup)
    BY <1>1, <1>2, LenProperties
  <2> QED BY <1>1, <2>1, ElementOfSeq
<1>3. CASE turn < Len(lineup) /\ StartMessage(earlier, turn + 1)
  <2> DEFINE e == Ev("message.chunk", lineup[turn + 1], round, "")
  <2>1. e \in Event /\ e.type = "message.chunk" /\ e.by = lineup[turn + 1]
    BY <1>1, <1>2, <1>3, EventTyped DEF Ev, EventTypes, Speakers, Notes
  <2>2. /\ AppendEvents(earlier \o <<e>>) /\ pc' = "streaming"
        /\ turn' = turn + 1 /\ lineup' = lineup
    BY <1>3 DEF StartMessage, Publish
  <2>3. Speaker' = lineup[turn + 1]
    <3>1. turn + 1 # 0
      BY <1>1
    <3> QED BY <2>2, <3>1 DEF Speaker
  <2> HIDE DEF e
  <2>4. /\ Opens(earlier \o <<e>>) = {lineup[turn + 1]}
        /\ Completes(earlier \o <<e>>) = Completes(earlier)
    BY <2>1, ChunkAfter DEF Cleared
  <2>5. live' = {lineup[turn + 1]}
    BY <1>2, <1>3, <2>2, <2>4, LiveAfterBatch DEF Cleared
  <2> QED BY <2>2, <2>3, <2>5
<1>4. CASE turn < Len(lineup) /\ Challenge(earlier, turn + 1)
  <2> DEFINE e == Ev("agent.challenge", lineup[turn + 1], round, "")
  <2>1. e \in Event /\ e.type = "agent.challenge"
    BY <1>1, <1>2, <1>4, EventTyped DEF Ev, EventTypes, Speakers, Notes
  <2>2. AppendEvents(earlier \o <<e>>) /\ pc' = "challengeDelay"
    BY <1>4 DEF Challenge, Publish
  <2> HIDE DEF e
  <2>3. Opens(earlier \o <<e>>) = {} /\ Completes(earlier \o <<e>>) = Completes(earlier)
    BY <2>1, OpensOfOne, HushAfter DEF Cleared
  <2> QED BY <2>2, <2>3, LiveAfterBatch DEF Cleared
<1>5. CASE FinishRound(earlier)
  <2>1. PICK decided \in BOOLEAN, note \in {"end", "continue"} :
          \/ /\ ClosingCause(note) # ""
             /\ Publish(earlier \o RoundEvents(decided, note)
                                \o <<Ended(ClosingCause(note))>>)
             /\ pc' = "stopped"
          \/ /\ Publish(earlier \o RoundEvents(decided, note))
             /\ pc' = "roundDelay"
    BY <1>5 DEF FinishRound
  <2> DEFINE s == Ev("agent.summary", "synthesis", round, IF decided THEN "candidate" ELSE "")
             c == Check(round, note)
             e == Ended(ClosingCause(note))
  <2>2. s \in Event /\ s.type = "agent.summary"
    BY <1>1 DEF Ev, Event, EventTypes, Speakers, Notes
  <2>3. c \in Event /\ c.type = "consensus.check"
    BY <1>1 DEF Check, Ev, Event, EventTypes, Speakers, Notes
  <2>4. ClosingCause(note) # "" => e \in Event /\ e.type = "meeting.ended"
    BY DEF ClosingCause, Ended, Ev, Event, EventTypes, Speakers, Notes, EndCauses
  <2>5. RoundEvents(decided, note) = <<s, c>>
    BY DEF RoundEvents
  <2> HIDE DEF s, c
  <2>6. Hush(<<s, c>>)
    BY <2>2, <2>3 DEF Hush, Opens, Completes, By
  <2> DEFINE b == earlier \o <<s, c>>
  <2>7. /\ b \in Seq(Event) /\ Opens(b) = {} /\ Completes(b) = Completes(earlier)
    BY <2>6, HushAfter DEF Cleared
  <2>8. CASE pc' = "roundDelay"
    <3>1. AppendEvents(b)
      BY <2>1, <2>5, <2>8 DEF Publish
    <3> HIDE DEF b
    <3> QED BY <2>7, <2>8, <3>1, LiveAfterBatch DEF Cleared
  <2>9. CASE pc' = "stopped"
    <3>1. AppendEvents(b \o <<e>>) /\ ClosingCause(note) # ""
      BY <2>1, <2>5, <2>9 DEF Publish
    <3> HIDE DEF b, e
    <3>2. Hush(<<e>>)
      BY <2>4, <3>1, OpensOfOne
    <3>3. Opens(b \o <<e>>) = {} /\ Completes(b \o <<e>>) = Completes(earlier)
      BY <2>7, <3>2, HushAfter
    <3> QED BY <2>9, <3>1, <3>3, LiveAfterBatch DEF Cleared
  <2> QED BY <2>1, <2>8, <2>9
<1> QED BY <1>3, <1>4, <1>5 DEF NextTurn

\* A step that leaves the task where it is and streams nothing.
LEMMA LiveUntouched ==
    ASSUME LiveTextIsTheSpeakers, live' = live, Speaker' = Speaker,
           status' = status, open' => open,
           pc' = pc \/ {pc, pc'} \cap {"streaming"} = {}
    PROVE  LiveTextIsTheSpeakers'
BY DEF LiveTextIsTheSpeakers

\* A running task sees the text of its speaker.
LEMMA LiveNow ==
    ASSUME LiveInv, Running, status = "running"
    PROVE  live = IF pc = "streaming" THEN {Speaker} ELSE {}
BY DEF LiveInv, LiveTextIsTheSpeakers, Running

\* Every step of the drive task keeps the live text its speaker's.
LEMMA DriveKeepsLive ==
    ASSUME IInv, LiveInv, DriveStep
    PROVE  LiveTextIsTheSpeakers'
<1> SUFFICES ASSUME status' = "running", open'
             PROVE  live' = IF pc' = "streaming" THEN {Speaker'} ELSE {}
  BY DEF LiveTextIsTheSpeakers
<1>0. status \in {"running", "ended"} /\ round \in Nat
      /\ lineup \in Seq(Specialists) /\ turn \in 0..Len(lineup)
  BY Parts DEF TaskTypes
<1>1. CASE BeginRound
  <2>1. Running /\ status = "running" /\ pc # "streaming"
    BY <1>1 DEF BeginRound, roomVars
  <2>2. live' = live /\ pc' = "building"
    BY <1>1 DEF BeginRound, roomVars
  <2> QED BY <2>1, <2>2, LiveNow
<1>2. CASE BuildPublishes
  <2> DEFINE e == Ev("memory.write", "system", round, "")
  <2>1. Running /\ pc = "building" /\ pc' = "building" /\ AppendEvents(<<e>>)
    BY <1>2 DEF BuildPublishes, Publish
  <2>2. status = "running"
    BY <2>1, DriveActsInARunningRoom
  <2>3. e \in Event /\ e.type = "memory.write"
    BY <1>0, EventTyped DEF Ev, EventTypes, Speakers, Notes
  <2> HIDE DEF e
  <2>4. Opens(<<e>>) = {} /\ Completes(<<e>>) = {}
    BY <2>3, OpensOfOne DEF Hush
  <2> QED BY <2>1, <2>2, <2>4, LiveNow, LiveAfterBatch
<1>3. ASSUME NEW speakers \in Lineups \ {<<>>}, NEW joins \in Lineups,
             BuildReturns(speakers, joins)
      PROVE  live' = IF pc' = "streaming" THEN {Speaker'} ELSE {}
  <2> DEFINE a == JoinEvents(joins)
             e == Ev("message.chunk", "host", round, "")
  <2>1. Running /\ pc = "building" /\ pc' = "streaming" /\ turn' = 0 /\ AppendEvents(a \o <<e>>)
    BY <1>3 DEF BuildReturns, Publish
  <2>2. status = "running" /\ Speaker' = "host"
    BY <2>1, DriveActsInARunningRoom DEF Speaker
  <2>3. e \in Event /\ e.type = "message.chunk" /\ e.by = "host"
    BY <1>0, EventTyped DEF Ev, EventTypes, Speakers, Notes
  <2>4. Hush(a)
    <3>1. joins \in Seq(Specialists) /\ a \in Seq(Event) /\ DOMAIN a = 1..Len(joins)
          /\ \A i \in 1..Len(joins) : a[i] = Joined(joins[i])
      BY LineupIsSeq, JoinEventsTyped, LenProperties
    <3>2. \A role : Joined(role).type = "agent.joined"
      BY DEF Joined, Ev
    <3> HIDE DEF a
    <3>3. \A i \in DOMAIN a : a[i].type = "agent.joined"
      BY <3>1, <3>2
    <3> QED BY <3>1, <3>3 DEF Hush, Opens, Completes, By
  <2> HIDE DEF a, e
  <2>5. Opens(a \o <<e>>) = {"host"} /\ Completes(a \o <<e>>) = {}
    BY <2>3, <2>4, OpensOfOne, OpensOfTwo DEF Hush
  <2> QED BY <2>1, <2>2, <2>5, LiveNow, LiveAfterBatch
<1>4. CASE BuildFails
  <2> DEFINE e == Ended("runtime_failure")
  <2>1. AppendEvents(<<e>>)
    BY <1>4 DEF BuildFails, Publish, FailureEvents
  <2>2. e.type = "meeting.ended"
    BY DEF Ended, Ev
  <2> HIDE DEF e
  <2>3. 1 \in DOMAIN <<e>> /\ <<e>>[1] = e
    OBVIOUS
  <2>4. Has(<<e>>, "meeting.ended")
    BY <2>2, <2>3 DEF Has
  <2> QED BY <2>1, <2>4 DEF AppendEvents, Project
<1>5. CASE StreamChunk
  <2> DEFINE e == Ev("message.chunk", Speaker, round, "")
  <2>1. /\ Running /\ pc = "streaming" /\ pc' = "streaming" /\ AppendEvents(<<e>>)
        /\ turn' = turn /\ lineup' = lineup
    BY <1>5 DEF StreamChunk, Publish
  <2>2. status = "running" /\ Speaker' = Speaker
    BY <2>1, DriveActsInARunningRoom DEF Speaker
  <2>3. e \in Event /\ e.type = "message.chunk" /\ e.by = Speaker
    BY <1>0, SpeakerTyped, EventTyped DEF Ev, EventTypes, Notes
  <2> HIDE DEF e
  <2>4. Opens(<<e>>) = {Speaker} /\ Completes(<<e>>) = {}
    BY <2>3, OpensOfOne
  <2> QED BY <2>1, <2>2, <2>4, LiveNow, LiveAfterBatch
<1>6. CASE FinishHostMessage
  <2>1. Running /\ pc = "streaming" /\ turn = 0
    BY <1>6 DEF FinishHostMessage
  <2>2. status = "running" /\ Speaker = "host"
    BY <2>1, DriveActsInARunningRoom DEF Speaker
  <2>3. live = {"host"}
    BY <2>1, <2>2, LiveNow
  <2>4. Cleared(MessageEvents)
    BY <2>2, <2>3, MessageEventsComplete, SpecialistsAssumption DEF Cleared
  <2>5. CASE NextTurn(MessageEvents)
    BY <2>4, <2>5, NextTurnLive
  <2>6. CASE /\ Publish(MessageEvents \o <<Ev("agent.handoff", "host", round, "")>>)
             /\ pc' = "turnDelay"
    <3> DEFINE e == Ev("agent.handoff", "host", round, "")
    <3>1. e \in Event /\ e.type = "agent.handoff"
      BY <1>0, EventTyped DEF Ev, EventTypes, Speakers, Notes
    <3>2. AppendEvents(MessageEvents \o <<e>>)
      BY <2>6 DEF Publish
    <3> HIDE DEF e
    <3>3. /\ Opens(MessageEvents \o <<e>>) = {}
          /\ Completes(MessageEvents \o <<e>>) = Completes(MessageEvents)
      BY <2>4, <3>1, OpensOfOne, HushAfter DEF Cleared
    <3> QED BY <2>4, <2>6, <3>2, <3>3, LiveAfterBatch DEF Cleared
  <2> QED BY <1>6, <2>5, <2>6 DEF FinishHostMessage
<1>7. CASE FinishMessage
  <2>1. Running /\ pc = "streaming" /\ pc' = "turnDelay" /\ AppendEvents(MessageEvents)
    BY <1>7 DEF FinishMessage, Publish
  <2>2. live = {Speaker}
    BY <2>1, DriveActsInARunningRoom, LiveNow
  <2> QED BY <2>1, <2>2, MessageEventsComplete, LiveAfterBatch
<1>8. CASE WakeBetweenTurns
  <2>1. Running /\ pc = "turnDelay" /\ NextTurn(<<>>)
    BY <1>8 DEF WakeBetweenTurns
  <2>2. live = {}
    BY <2>1, DriveActsInARunningRoom, LiveNow
  <2>3. Cleared(<<>>)
    BY <2>2 DEF Cleared, Opens, Completes, By
  <2> QED BY <2>1, <2>3, NextTurnLive
<1>9. CASE WakeAfterChallenge
  <2> DEFINE e == Ev("message.chunk", lineup[turn], round, "")
  <2>1. /\ Running /\ pc = "challengeDelay" /\ pc' = "streaming"
        /\ AppendEvents(<<>> \o <<e>>) /\ turn' = turn /\ lineup' = lineup
    BY <1>9 DEF WakeAfterChallenge, StartMessage, Publish
  <2>2. turn \in 1..Len(lineup) /\ lineup[turn] \in Specialists
    <3>1. turn \in 1..Len(lineup)
      BY <2>1, Parts DEF ChallengeHasSpeaker
    <3> QED BY <1>0, <3>1, ElementOfSeq
  <2>3. live = {} /\ Speaker' = lineup[turn]
    <3>1. live = {}
      BY <2>1, DriveActsInARunningRoom, LiveNow
    <3>2. turn # 0
      BY <2>2
    <3> QED BY <2>1, <3>1, <3>2 DEF Speaker
  <2>4. e \in Event /\ e.type = "message.chunk" /\ e.by = lineup[turn]
    BY <1>0, <2>2, EventTyped DEF Ev, EventTypes, Speakers, Notes
  <2> HIDE DEF e
  <2>5. <<>> \in Seq(Event) /\ Opens(<<>>) = {} /\ Completes(<<>>) = {}
    BY DEF Opens, Completes, By
  <2>6. Opens(<<>> \o <<e>>) = {lineup[turn]} /\ Completes(<<>> \o <<e>>) = {}
    BY <2>4, <2>5, OpensOfOne, OpensOfTwo
  <2> QED BY <2>1, <2>3, <2>6, LiveAfterBatch
<1>10. CASE TaskCancelled
  <2>1. cancelled /\ status' = status /\ open' = open
    BY <1>10 DEF TaskCancelled, roomVars
  <2> QED BY <2>1 DEF LiveInv, CancelHasCause
<1> QED
  BY <1>1, <1>2, <1>3, <1>4, <1>5, <1>6, <1>7, <1>8, <1>9, <1>10 DEF DriveStep

\* So do the operator's calls and the shutdown.
LEMMA NextLiveInv ==
    ASSUME IInv, LineupJoined, LiveInv, [Next]_vars
    PROVE  LiveInv'
<1>1. CASE UNCHANGED vars
  BY <1>1 DEF vars, roomVars, roundVars, LiveInv, LiveTextIsTheSpeakers, CancelHasCause, Speaker
<1>2. CASE DriveStep
  <2>1. cancelled' = cancelled /\ open' = open
    BY <1>2 DEF DriveStep, BeginRound, BuildPublishes, BuildReturns, BuildFails,
       StreamChunk, FinishHostMessage, FinishMessage, WakeBetweenTurns,
       WakeAfterChallenge, TaskCancelled
  <2>2. Next
    BY <1>2 DEF Next
  <2>3. status = "ended" => status' = "ended"
    BY <2>2, StoppedRoomRests DEF roomVars
  <2>4. CancelHasCause'
    BY <2>1, <2>3 DEF LiveInv, CancelHasCause
  <2> QED BY <1>2, <2>4, DriveKeepsLive DEF LiveInv
<1>3. CASE PostHumanMessage
  <2> DEFINE e == Ev("human.message", "human", 0, "")
  <2>1. AppendEvents(<<e>>) /\ UNCHANGED <<pc, roundVars, cancelled, open>>
    BY <1>3 DEF PostHumanMessage, Publish
  <2>2. e \in Event /\ e.type = "human.message"
    BY EventTyped DEF Ev, EventTypes, Speakers, Notes
  <2> HIDE DEF e
  <2>3. Opens(<<e>>) = {} /\ Completes(<<e>>) = {}
    BY <2>2, OpensOfOne DEF Hush
  <2>4. live' = live
    BY <2>1, <2>3, LiveAfterBatch
  <2>5. Speaker' = Speaker
    BY <2>1 DEF Speaker, roundVars
  <2>6. status' = status
    <3>1. ~Has(<<e>>, "meeting.ended")
      BY <2>2 DEF Has
    <3> QED BY <2>1, <3>1 DEF AppendEvents, Project
  <2>7. CancelHasCause'
    BY <2>1, <2>6 DEF LiveInv, CancelHasCause
  <2> QED BY <2>1, <2>4, <2>5, <2>6, <2>7, LiveUntouched DEF LiveInv
<1>4. CASE PostHumanOverride
  <2> DEFINE a == Ev("human.override", "human", 0, "")
             b == Ended("override")
  <2>1. b.type = "meeting.ended"
    BY DEF Ended, Ev
  <2>2. AppendEvents(<<a, b>>)
    BY <1>4 DEF PostHumanOverride
  <2> HIDE DEF a, b
  <2>3. 2 \in DOMAIN <<a, b>> /\ <<a, b>>[2] = b
    OBVIOUS
  <2>4. Has(<<a, b>>, "meeting.ended")
    BY <2>1, <2>3 DEF Has
  <2>5. status' = "ended"
    BY <2>2, <2>4 DEF AppendEvents, Project
  <2> QED BY <2>5 DEF LiveInv, LiveTextIsTheSpeakers, CancelHasCause
<1>5. CASE OverrideReturns
  <2>1. UNCHANGED <<roomVars, pc, roundVars, cancelled, open>>
    BY <1>5 DEF OverrideReturns
  <2> QED BY <2>1 DEF roomVars, roundVars, LiveInv, LiveTextIsTheSpeakers, CancelHasCause, Speaker
<1>6. CASE Close
  <2>1. ~open'
    BY <1>6 DEF Close
  <2> QED BY <2>1 DEF LiveInv, LiveTextIsTheSpeakers, CancelHasCause
<1> QED BY <1>1, <1>2, <1>3, <1>4, <1>5, <1>6 DEF Next

\* While a room runs, the partial text its clients show is that of the
\* message being streamed, and there is none between messages.
THEOREM LiveTextMatches == Spec => []LiveTextIsTheSpeakers
<1>1. Init => LiveInv
  BY DEF Init, LiveInv, LiveTextIsTheSpeakers, CancelHasCause
<1>2. IInv /\ OrderInv /\ LiveInv /\ [Next]_vars => LiveInv'
  BY NextLiveInv DEF OrderInv
<1>3. LiveInv => LiveTextIsTheSpeakers
  BY DEF LiveInv
<1> QED BY <1>1, <1>2, <1>3, Inductive, JournalInOrder, PTL DEF Spec

=============================================================================
