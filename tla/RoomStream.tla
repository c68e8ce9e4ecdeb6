----------------------------- MODULE RoomStream ------------------------------
(***************************************************************************)
(* How one browser follows a room: the handlers of /ws/rooms/{id} and      *)
(* /api/rooms/{id}/events (runtime/http_api.py) replay the journal and     *)
(* then subscribe to it, and the client (lib/transport.ts, lib/room-store  *)
(* and the effect of routes/room.tsx) reconnects from the last room_seq it *)
(* has seen.                                                               *)
(*                                                                         *)
(* An event is its room_seq; the journal gives its kind.  A handler is     *)
(* suspended inside a send while the connection's buffer is full, and      *)
(* other coroutines publish meanwhile; between the return of its last      *)
(* replay send and its registration it does not suspend.                   *)
(***************************************************************************)
EXTENDS Naturals, Sequences, Functions

CONSTANTS
    QueueSize,    \* maxsize of a subscriber's queue, 256 in the code
    BufferSize,   \* events a connection takes before a send suspends
    MaxEvents,    \* bound: events of the room
    MaxLoads,     \* bound: times the page loads its snapshot
    MaxDrops      \* bound: connections lost

ASSUME StreamAssumption ==
    /\ QueueSize \in Nat \ {0}
    /\ BufferSize \in Nat \ {0}
    /\ MaxEvents \in Nat \ {0}
    /\ MaxLoads \in Nat
    /\ MaxDrops \in Nat

VARIABLES
    journal,      \* the kinds of the room's events, by room_seq
    served,       \* the service knows the room
    phase,        \* where the connection's handler is
    backlog,      \* what it still has to replay
    queue,        \* its subscriber queue
    since,        \* the last room_seq when it registered the queue
    wire,         \* events sent and not received yet
    link,         \* the transport the client uses, "off" for none
    currentSeq,   \* currentSeq of connectRoomStream
    store,        \* the room_seqs the room store has been given, in order
    base,         \* last_seq of the loaded snapshot, 0 before the first
    loading,      \* last_seq of a snapshot on its way to the page, or 0
    loads, drops  \* counters of the bounds

handlerVars == <<phase, backlog, queue, since, wire>>
clientVars == <<link, currentSeq, store, base>>
vars == <<journal, served, handlerVars, clientVars, loading, loads, drops>>

\* Tool calls, tool results and memory writes are "hidden": EventSource hands
\* an event only to a listener of its type and transport.ts adds none for them.
Kinds == {"shown", "hidden", "end"}
Last == Len(journal)
EndedAt(seq) == seq > 0 /\ journal[seq] = "end"
Ended == EndedAt(Last)

-----------------------------------------------------------------------------
(* The service.                                                            *)

\* Puts an event in a full queue by dropping its oldest one; the mutants drop
\* the new event, or nothing.
OfferUnbounded(q, seq) == Append(q, seq)
DropNewest(q, seq) == IF Len(q) < QueueSize THEN Append(q, seq) ELSE q
Offer(q, seq) == IF Len(q) < QueueSize THEN Append(q, seq) ELSE Append(Tail(q), seq)

\* The room journals an event and offers it to its subscribers; nothing
\* follows the end of the meeting.
Publish(kind) ==
    /\ served
    /\ ~Ended
    /\ Last < MaxEvents
    /\ journal' = Append(journal, kind)
    /\ queue' = IF phase = "live" THEN Offer(queue, Last + 1) ELSE queue
    /\ UNCHANGED <<served, phase, backlog, since, wire, clientVars, loading,
                   loads, drops>>

\* RoomEventJournal.replay, and the mutant that repeats the acknowledged event.
ReplayFromAcked(after) == [i \in 1..(Last + 1 - after) |-> after + i - 1]
Replay(after) == [i \in 1..(Last - after) |-> after + i]

\* register_subscriber.
Register ==
    /\ phase' = "live"
    /\ queue' = <<>>
    /\ since' = Last

\* The client's request arrives: the missed events are collected at once, and
\* sent one by one; with none the queue is registered straight away.
Open ==
    /\ served
    /\ link # "off"
    /\ phase = "idle"
    /\ LET missed == Replay(currentSeq) IN
        \/ /\ missed = <<>>
           /\ Register
           /\ UNCHANGED <<backlog, wire>>
        \/ /\ missed # <<>>
           /\ phase' = "replaying"
           /\ wire' = <<Head(missed)>>
           /\ backlog' = Tail(missed)
           /\ UNCHANGED <<queue, since>>
    /\ UNCHANGED <<journal, served, clientVars, loading, loads, drops>>

\* A replay send returns: the next one starts, or the queue is registered.
ReplayNext ==
    /\ phase = "replaying"
    /\ Len(wire) < BufferSize
    /\ \/ /\ backlog # <<>>
          /\ wire' = Append(wire, Head(backlog))
          /\ backlog' = Tail(backlog)
          /\ UNCHANGED <<phase, queue, since>>
       \/ /\ backlog = <<>>
          /\ Register
          /\ UNCHANGED <<backlog, wire>>
    /\ UNCHANGED <<journal, served, clientVars, loading, loads, drops>>

\* The handler's loop: the oldest event of the queue is sent.
SendLive ==
    /\ phase = "live"
    /\ queue # <<>>
    /\ Len(wire) < BufferSize
    /\ wire' = Append(wire, Head(queue))
    /\ queue' = Tail(queue)
    /\ UNCHANGED <<journal, served, phase, backlog, since, clientVars, loading,
                   loads, drops>>

\* What becomes of a connection that is gone.
CloseConnection ==
    /\ phase' = "idle"
    /\ backlog' = <<>>
    /\ queue' = <<>>
    /\ wire' = <<>>
    /\ UNCHANGED since

\* RoomRuntime.close at shutdown: the room is forgotten, its connections end.
Stop ==
    /\ served
    /\ served' = FALSE
    /\ CloseConnection
    /\ link' = IF link = "off" THEN "off" ELSE "sse"
    /\ UNCHANGED <<journal, currentSeq, store, base, loading, loads, drops>>

-----------------------------------------------------------------------------
(* The client.                                                             *)

\* The route's loader asks for the snapshot of the room, on a first visit or
\* a later navigation; the answer takes its time.
LoadSnapshot ==
    /\ served
    /\ loading = 0
    /\ loads < MaxLoads
    /\ loading' = Last
    /\ loads' = loads + 1
    /\ UNCHANGED <<journal, served, handlerVars, clientVars, drops>>

\* Where the client resumes once the snapshot it has just loaded shows; the
\* mutant resumes where the stream before it stood.
KeepSeq(seq) == currentSeq
ResumeAt(seq) == seq

\* The page has its snapshot.  The effect runs when last_seq or status
\* changed: it drops the stream, replaces the store and connects anew, unless
\* the snapshot is that of an ended room.
ShowSnapshot ==
    /\ loading > 0
    /\ loading' = 0
    /\ \/ /\ loading = base
          /\ UNCHANGED <<handlerVars, clientVars>>
       \/ /\ loading # base
          /\ base' = loading
          /\ store' = [i \in 1..loading |-> i]
          /\ currentSeq' = ResumeAt(loading)
          /\ link' = IF EndedAt(loading) THEN "off" ELSE "ws"
          /\ CloseConnection
    /\ UNCHANGED <<journal, served, loads, drops>>

\* handleEvent, for an event the transport has a listener for.
Receive ==
    /\ wire # <<>>
    /\ wire' = Tail(wire)
    /\ LET seq == Head(wire) IN
        IF link = "sse" /\ journal[seq] = "hidden"
        THEN UNCHANGED <<currentSeq, store>>
        ELSE /\ currentSeq' = IF seq > currentSeq THEN seq ELSE currentSeq
             /\ store' = Append(store, seq)
    /\ UNCHANGED <<journal, served, phase, backlog, queue, since, link, base,
                   loading, loads, drops>>

\* The connection breaks or is not made: a WebSocket fails over to SSE, an
\* EventSource is opened again after its delay.
Drop ==
    /\ link # "off"
    /\ drops < MaxDrops
    /\ drops' = drops + 1
    /\ CloseConnection
    /\ link' = "sse"
    /\ UNCHANGED <<journal, served, currentSeq, store, base, loading, loads>>

-----------------------------------------------------------------------------
Init ==
    /\ journal = <<"shown">>
    /\ served = TRUE
    /\ phase = "idle"
    /\ backlog = <<>>
    /\ queue = <<>>
    /\ since = 0
    /\ wire = <<>>
    /\ link = "off"
    /\ currentSeq = 0
    /\ store = <<>>
    /\ base = 0
    /\ loading = 0
    /\ loads = 0
    /\ drops = 0

Next ==
    \/ \E kind \in Kinds : Publish(kind)
    \/ Open
    \/ ReplayNext
    \/ SendLive
    \/ Stop
    \/ LoadSnapshot
    \/ ShowSnapshot
    \/ Receive
    \/ Drop

Spec == Init /\ [][Next]_vars

\* The event loop resumes a send whose buffer has room, the network delivers,
\* the browser runs its handlers and its reconnect timer.  Nobody has to
\* publish, to navigate or to break the connection.
Fairness ==
    /\ WF_vars(Open)
    /\ WF_vars(ReplayNext)
    /\ WF_vars(SendLive)
    /\ WF_vars(Receive)
    /\ WF_vars(ShowSnapshot)
FairSpec == Spec /\ Fairness

-----------------------------------------------------------------------------
(* Properties.                                                             *)

Increasing(s) == \A i, j \in DOMAIN s : i < j => s[i] < s[j]
InFlight == wire \o backlog \o queue

\* Every variable holds a value of its kind.
TypeOK ==
    /\ journal \in Seq(Kinds)
    /\ served \in BOOLEAN
    /\ phase \in {"idle", "replaying", "live"}
    /\ link \in {"off", "ws", "sse"}
    /\ \A s \in {backlog, queue, wire, store} : s \in Seq(1..Last)
    /\ Len(queue) <= QueueSize
    /\ Len(wire) <= BufferSize
    /\ {since, currentSeq, base, loading} \subseteq 0..Last
    /\ loads \in 0..MaxLoads
    /\ drops \in 0..MaxDrops

\* The room store is given every event at most once and in journal order,
\* through drops, failovers, reloads and queue overflows.  applyRoomEvent has
\* no check of its own: a repeated event would show a message twice.
AppliedOnceInOrder == Increasing(store)

\* All that is on its way to the client is newer than all it has acknowledged,
\* so that a connection lost now is made up for by the replay of the next.
InFlightIsUnseen ==
    /\ Increasing(InFlight)
    /\ \A i \in DOMAIN InFlight : InFlight[i] > currentSeq

\* A client subscribed when the meeting ends shows its end, whatever overflows
\* and however often the connection is lost, unless the service stops.
EndShown == Ended /\ Last \in Range(store)
EndReachesSubscriber ==
    (phase = "live" /\ Ended /\ since < Last) ~> (EndShown \/ ~served)

\* P0-1, Runtime Recovery Contract: replay the gap first, then switch to the
\* live stream; at the switch no event the client would show is left behind.
ReplayJoinsLiveStream ==
    [][phase = "replaying" /\ phase' = "live" =>
          \A seq \in (currentSeq + 1)..Last :
              journal[seq] = "hidden" \/ seq \in Range(wire)]_vars

=============================================================================
