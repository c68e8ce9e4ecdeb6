----------------------------- MODULE LessonStore -----------------------------
(***************************************************************************)
(* The long-term lessons of each role (memory/store.py, class              *)
(* LongTermLessonStore): one file per role, read once into the cache of    *)
(* each process that uses the memory directory and rewritten whole, by way *)
(* of a temporary file, at every append.  A server and a script that runs  *)
(* a meeting and exports it share the directory.  A lesson is the number   *)
(* of the meeting it comes from.                                           *)
(***************************************************************************)
EXTENDS SequencesExt, Naturals

CONSTANTS
    Processes,  \* processes that use the directory
    Roles,      \* specialist roles
    LessonCap,  \* max_lessons_per_role
    Absent,     \* no such file
    Torn,       \* a file that does not parse
    Unread      \* no entry in the cache

ASSUME LessonCapAssumption == LessonCap \in Nat \ {0}
ASSUME RolesAssumption == IsFiniteSet(Roles)
ASSUME MarkersAssumption == \A m \in {Absent, Torn, Unread} : m \notin Seq(Nat)

VARIABLES
    cache,   \* _cache of each process
    lessons, \* {role}.json
    scratch, \* {role}.json.tmp
    append   \* what each process is appending, and how far it has come

lessonVars == <<cache, lessons, scratch, append>>

Idle == [at |-> "idle", roles |-> <<>>, lesson |-> 0]
IsIdle(p) == append[p] = Idle

LessonsInit ==
    /\ cache = [p \in Processes |-> [r \in Roles |-> Unread]]
    /\ lessons = [r \in Roles |-> Absent]
    /\ scratch = [r \in Roles |-> Absent]
    /\ append = [p \in Processes |-> Idle]

\* _load: a missing file, and one that does not parse, hold no lesson.
Load(p, r) ==
    IF cache[p][r] # Unread THEN cache[p][r]
    ELSE IF lessons[r] \in {Absent, Torn} THEN <<>>
    ELSE lessons[r]

\* The cap; the mutant forgets it.
Everything(s, n) == s
Newest(s, n) == SubSeq(s, IF Len(s) > n THEN Len(s) - n + 1 ELSE 1, Len(s))

\* recent, for the recall block of a prompt or for the export, fills the
\* cache.
Recent(p, r) ==
    /\ IsIdle(p)
    /\ cache[p][r] = Unread
    /\ cache' = [cache EXCEPT ![p][r] = Load(p, r)]
    /\ UNCHANGED <<lessons, scratch, append>>

\* persist_meeting_lessons_from_snapshot: one append per role, in turn.
StartAppending(p, roles, lesson) ==
    /\ IsIdle(p)
    /\ append' = [append EXCEPT ![p] =
                     [at |-> "load", roles |-> roles, lesson |-> lesson]]
    /\ UNCHANGED <<cache, lessons, scratch>>

Appending(p) == Head(append[p].roles)

\* append, up to the file: the cache has the lesson first.
AppendToCache(p) ==
    LET r == Appending(p) IN
    /\ append[p].at = "load"
    /\ cache' = [cache EXCEPT ![p][r] =
                    Newest(Append(Load(p, r), append[p].lesson), LessonCap)]
    /\ append' = [append EXCEPT ![p].at = "write"]
    /\ UNCHANGED <<lessons, scratch>>

\* tmp.write_text.  The mutant writes to the file itself.
WriteInPlace(p) ==
    LET r == Appending(p) IN
    /\ append[p].at = "write"
    /\ lessons' = [lessons EXCEPT ![r] = Torn]
    /\ scratch' = [scratch EXCEPT ![r] = cache[p][r]]
    /\ append' = [append EXCEPT ![p].at = "replace"]
    /\ UNCHANGED cache
WriteScratch(p) ==
    LET r == Appending(p) IN
    /\ append[p].at = "write"
    /\ scratch' = [scratch EXCEPT ![r] = cache[p][r]]
    /\ append' = [append EXCEPT ![p].at = "replace"]
    /\ UNCHANGED <<cache, lessons>>

\* tmp.replace.
ReplaceFile(p) ==
    LET r == Appending(p) IN
    /\ append[p].at = "replace"
    /\ scratch[r] # Absent
    /\ lessons' = [lessons EXCEPT ![r] = scratch[r]]
    /\ scratch' = [scratch EXCEPT ![r] = Absent]
    /\ append' = [append EXCEPT ![p] =
                     IF Len(@.roles) = 1 THEN Idle
                     ELSE [at |-> "load", roles |-> Tail(@.roles), lesson |-> @.lesson]]
    /\ UNCHANGED cache

\* The write or the replacement raises; _persist_meeting_lessons swallows it,
\* and the other roles get no lesson.
AppendFails(p) ==
    /\ append[p].at \in {"write", "replace"}
    /\ scratch' = IF append[p].at = "write"
                  THEN [scratch EXCEPT ![Appending(p)] = Torn] ELSE scratch
    /\ append' = [append EXCEPT ![p] = Idle]
    /\ UNCHANGED <<cache, lessons>>

\* The process dies, maybe in the middle of a write, and starts again.
Forget(p) ==
    /\ cache' = [cache EXCEPT ![p] = [r \in Roles |-> Unread]]
    /\ append' = [append EXCEPT ![p] = Idle]
    /\ \/ scratch' = scratch
       \/ /\ append[p].at = "write"
          /\ scratch' = [scratch EXCEPT ![Appending(p)] = Torn]
    /\ UNCHANGED lessons

AppendStep(p) == AppendToCache(p) \/ WriteScratch(p) \/ ReplaceFile(p) \/ AppendFails(p)

-----------------------------------------------------------------------------
(* Properties.                                                             *)

InFile(r) == IF lessons[r] \in {Absent, Torn} THEN {} ELSE ToSet(lessons[r])

\* A lesson leaves its file only when the cap pushes it out, that is when the
\* file is full of newer ones: no crash, failed write or other process takes
\* a lesson away ("Append-only per-role lesson store").
LessonsLeaveByAge ==
    [][\A r \in Roles : \A old \in InFile(r) \ InFile(r)' :
          /\ Cardinality(InFile(r)') = LessonCap
          /\ \A kept \in InFile(r)' : kept > old]_lessons

=============================================================================
