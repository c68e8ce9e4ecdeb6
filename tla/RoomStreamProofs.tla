-------------------------- MODULE RoomStreamProofs ---------------------------
(***************************************************************************)
(* Theorems of RoomStream: what a page is given, through any number of     *)
(* drops, failovers, reloads and overflows, for every size of the queues   *)
(* and every length of the journal.                                        *)
(***************************************************************************)
EXTENDS RoomStream, SequenceTheorems, TLAPS

-----------------------------------------------------------------------------
(* Two sequences of numbers, one behind the other, ahead of a number.      *)

Above(s, c) == \A i \in DOMAIN s : s[i] > c
Before(s, t) == \A i \in DOMAIN s, j \in DOMAIN t : s[i] < t[j]

\* w followed by p grows, and all of it lies above c.
Ahead(w, p, c) ==
    /\ Increasing(w) /\ Increasing(p)
    /\ Before(w, p)
    /\ Above(w, c) /\ Above(p, c)

\* Nothing is ahead of anything.
LEMMA NothingAhead ==
    ASSUME NEW c
    PROVE  Ahead(<<>>, <<>>, c)
BY DEF Ahead, Increasing, Before, Above

\* A newer number may be put behind.
LEMMA PushAhead ==
    ASSUME NEW w \in Seq(Nat), NEW p \in Seq(Nat), NEW c \in Nat, NEW x \in Nat,
           Ahead(w, p, c), x > c,
           \A i \in DOMAIN w : w[i] < x,
           \A i \in DOMAIN p : p[i] < x
    PROVE  Ahead(w, Append(p, x), c)
<1> DEFINE q == Append(p, x)
<1>1. /\ DOMAIN q = 1..(Len(p) + 1) /\ DOMAIN p = 1..Len(p) /\ Len(p) \in Nat
      /\ \A i \in DOMAIN p : q[i] = p[i]
      /\ q[Len(p) + 1] = x
    BY AppendProperties, LenProperties
<1>2. \A i \in DOMAIN q : i \in DOMAIN p \/ (i = Len(p) + 1 /\ i \notin DOMAIN p)
    BY <1>1
<1>3. \A i \in DOMAIN p : p[i] \in Nat
    BY <1>1, ElementOfSeq
<1>4. \A i \in DOMAIN w : w[i] \in Nat
    BY ElementOfSeq, LenProperties
<1> HIDE DEF q
<1>5. Increasing(q)
    <2> SUFFICES ASSUME NEW i \in DOMAIN q, NEW j \in DOMAIN q, i < j
                 PROVE  q[i] < q[j]
        BY DEF Increasing
    <2>1. i \in DOMAIN p
        BY <1>1
    <2>2. CASE j \in DOMAIN p
        BY <1>1, <2>1, <2>2 DEF Ahead, Increasing
    <2>3. CASE j = Len(p) + 1
        BY <1>1, <2>1, <2>3
    <2> QED BY <1>2, <2>2, <2>3
<1>6. Before(w, q)
    BY <1>1, <1>2 DEF Ahead, Before
<1>7. Above(q, c)
    BY <1>1, <1>2 DEF Ahead, Above
<1> QED BY <1>5, <1>6, <1>7 DEF Ahead, q

\* What Tail does, index by index.
LEMMA TailFields ==
    ASSUME NEW s \in Seq(Nat), s # <<>>
    PROVE  /\ Tail(s) \in Seq(Nat) /\ Head(s) \in Nat /\ Head(s) = s[1]
           /\ 1 \in DOMAIN s /\ Len(Tail(s)) = Len(s) - 1
           /\ \A i \in DOMAIN Tail(s) : i + 1 \in DOMAIN s /\ i + 1 > 1 /\ Tail(s)[i] = s[i + 1]
           /\ \A i, j \in DOMAIN Tail(s) : i < j => i + 1 < j + 1
<1>1. Len(s) \in Nat \ {0} /\ DOMAIN s = 1..Len(s)
    BY EmptySeq, LenProperties
<1>2. /\ Head(s) \in Nat /\ Tail(s) \in Seq(Nat) /\ Len(Tail(s)) = Len(s) - 1
      /\ \A i \in 1..Len(Tail(s)) : Tail(s)[i] = s[i + 1]
    BY HeadTailProperties
<1>3. DOMAIN Tail(s) = 1..(Len(s) - 1)
    BY <1>2, LenProperties
<1>4. Head(s) = s[1]
    OBVIOUS
<1> QED BY <1>1, <1>2, <1>3, <1>4

\* The first number of the second sequence may be dropped.
LEMMA DropAhead ==
    ASSUME NEW w \in Seq(Nat), NEW p \in Seq(Nat), p # <<>>, NEW c \in Nat,
           Ahead(w, p, c)
    PROVE  Ahead(w, Tail(p), c)
<1>1. /\ \A i \in DOMAIN Tail(p) : i + 1 \in DOMAIN p /\ Tail(p)[i] = p[i + 1]
      /\ \A i, j \in DOMAIN Tail(p) : i < j => i + 1 < j + 1
    BY TailFields
<1>2. Increasing(Tail(p))
    BY <1>1 DEF Ahead, Increasing
<1>3. Before(w, Tail(p))
    BY <1>1 DEF Ahead, Before
<1>4. Above(Tail(p), c)
    BY <1>1 DEF Ahead, Above
<1> QED BY <1>2, <1>3, <1>4 DEF Ahead

\* It may also move to the end of the first one.
LEMMA ShiftAhead ==
    ASSUME NEW w \in Seq(Nat), NEW p \in Seq(Nat), p # <<>>, NEW c \in Nat,
           Ahead(w, p, c)
    PROVE  Ahead(Append(w, Head(p)), Tail(p), c)
<1> DEFINE x == Head(p)
           v == Append(w, x)
<1>1. /\ x \in Nat /\ x = p[1] /\ 1 \in DOMAIN p
      /\ \A i \in DOMAIN Tail(p) : i + 1 \in DOMAIN p /\ i + 1 > 1 /\ Tail(p)[i] = p[i + 1]
    BY TailFields
<1>2. /\ \A i \in DOMAIN w : w[i] < x
      /\ x > c
    BY <1>1 DEF Ahead, Before, Above
<1>3. /\ DOMAIN v = 1..(Len(w) + 1) /\ DOMAIN w = 1..Len(w) /\ Len(w) \in Nat
      /\ \A i \in DOMAIN w : v[i] = w[i]
      /\ v[Len(w) + 1] = x
    BY <1>1, AppendProperties, LenProperties
<1>4. \A i \in DOMAIN v : i \in DOMAIN w \/ (i = Len(w) + 1 /\ i \notin DOMAIN w)
    BY <1>3
<1>5. /\ <<>> \in Seq(Nat)
      /\ \A i \in DOMAIN <<>> : <<>>[i] < x
    OBVIOUS
<1>6. Ahead(<<>>, v, c)
    <2>1. Ahead(<<>>, w, c)
        <3>1. Increasing(<<>>) /\ Before(<<>>, w) /\ Above(<<>>, c)
            BY DEF Increasing, Before, Above
        <3> QED BY <3>1 DEF Ahead
    <2> QED BY <1>1, <1>2, <1>5, <2>1, PushAhead
<1>7. Ahead(w, Tail(p), c)
    BY DropAhead
<1>8. Before(v, Tail(p))
    <2> SUFFICES ASSUME NEW i \in DOMAIN v, NEW j \in DOMAIN Tail(p)
                 PROVE  v[i] < Tail(p)[j]
        BY DEF Before
    <2>1. CASE i \in DOMAIN w
        BY <1>3, <1>7, <2>1 DEF Ahead, Before
    <2>2. CASE i = Len(w) + 1
        BY <1>1, <1>3, <2>2 DEF Ahead, Increasing
    <2> QED BY <1>4, <2>1, <2>2
<1> QED BY <1>6, <1>7, <1>8 DEF Ahead

\* The first number of all may be delivered: it lies above the mark, and the
\* rest lies above it.
LEMMA DeliverAhead ==
    ASSUME NEW w \in Seq(Nat), w # <<>>, NEW p \in Seq(Nat), NEW c \in Nat,
           Ahead(w, p, c)
    PROVE  /\ Head(w) \in Nat /\ Head(w) > c
           /\ Ahead(Tail(w), p, Head(w))
           /\ Ahead(Tail(w), p, c)
<1>1. /\ Head(w) \in Nat /\ Head(w) = w[1] /\ 1 \in DOMAIN w
      /\ \A i \in DOMAIN Tail(w) : i + 1 \in DOMAIN w /\ i + 1 > 1 /\ Tail(w)[i] = w[i + 1]
      /\ \A i, j \in DOMAIN Tail(w) : i < j => i + 1 < j + 1
    BY TailFields
<1>2. Increasing(Tail(w)) /\ Increasing(p) /\ Before(Tail(w), p)
    BY <1>1 DEF Ahead, Increasing, Before
<1>3. Above(Tail(w), Head(w)) /\ Above(Tail(w), c)
    BY <1>1 DEF Ahead, Increasing, Above
<1>4. \A j \in DOMAIN p : p[j] > Head(w)
    <2>1. \A j \in DOMAIN p : w[1] < p[j] /\ p[j] \in Nat
        BY <1>1, ElementOfSeq, LenProperties DEF Ahead, Before
    <2> QED BY <1>1, <2>1
<1>5. Head(w) > c
    BY <1>1 DEF Ahead, Above
<1> QED BY <1>1, <1>2, <1>3, <1>4, <1>5 DEF Ahead, Above

\* The replay after c is ahead of c.
LEMMA ReplayAhead ==
    ASSUME NEW c \in Nat, Last \in Nat
    PROVE  /\ Replay(c) \in Seq(1..Last)
           /\ Ahead(<<>>, Replay(c), c)
<1>1. CASE Last - c \in Nat
    <2>1. Replay(c) \in [1..(Last - c) -> 1..Last]
        BY <1>1 DEF Replay
    <2>2. Replay(c) \in Seq(1..Last) /\ DOMAIN Replay(c) = 1..(Last - c)
        BY <1>1, <2>1
    <2>3. \A i \in 1..(Last - c) : Replay(c)[i] = c + i
        BY DEF Replay
    <2> QED BY <1>1, <2>2, <2>3 DEF Ahead, Increasing, Before, Above
<1>2. CASE Last - c \notin Nat
    <2>1. 1..(Last - c) = {}
        BY <1>2
    <2>2. Replay(c) = <<>>
        BY <2>1 DEF Replay
    <2> QED BY <2>2, NothingAhead
<1> QED BY <1>1, <1>2

-----------------------------------------------------------------------------
(* Type correctness.                                                       *)

\* A longer journal holds what a shorter one holds.
LEMMA LongerJournal ==
    ASSUME NEW m \in Nat, NEW s \in Seq(1..m)
    PROVE  s \in Seq(1..(m + 1))
<1>1. s \in [1..Len(s) -> 1..m] /\ Len(s) \in Nat
    BY LenProperties
<1>2. s \in [1..Len(s) -> 1..(m + 1)]
    BY <1>1
<1> QED BY <1>1, <1>2

\* The snapshot's events.
LEMMA SnapshotTyped ==
    ASSUME NEW m \in Nat, NEW n \in 0..m
    PROVE  [i \in 1..n |-> i] \in Seq(1..m)
<1>1. [i \in 1..n |-> i] \in [1..n -> 1..m]
    OBVIOUS
<1> QED BY <1>1

\* A full queue gives up its oldest event and stays within its size.
LEMMA OfferTyped ==
    ASSUME NEW m \in Nat, NEW q \in Seq(1..m), Len(q) <= QueueSize,
           NEW seq \in 1..m
    PROVE  /\ Offer(q, seq) \in Seq(1..m)
           /\ Len(Offer(q, seq)) <= QueueSize
<1>1. QueueSize \in Nat \ {0} /\ Len(q) \in Nat
    BY StreamAssumption, LenProperties
<1>2. CASE Len(q) < QueueSize
    BY <1>1, <1>2, AppendProperties DEF Offer
<1>3. CASE ~(Len(q) < QueueSize)
    <2>1. q # <<>>
        BY <1>1, <1>3, EmptySeq
    <2>2. Tail(q) \in Seq(1..m) /\ Len(Tail(q)) = Len(q) - 1
        BY <2>1, HeadTailProperties
    <2> QED BY <1>1, <1>3, <2>2, AppendProperties DEF Offer
<1> QED BY <1>2, <1>3

\* What a send does to its two sequences.
LEMMA SendTyped ==
    ASSUME NEW m \in Nat, NEW w \in Seq(1..m), NEW p \in Seq(1..m), p # <<>>,
           Len(w) < BufferSize
    PROVE  /\ Append(w, Head(p)) \in Seq(1..m)
           /\ Len(Append(w, Head(p))) <= BufferSize
           /\ Tail(p) \in Seq(1..m)
           /\ Len(Tail(p)) = Len(p) - 1
           /\ Len(p) \in Nat
<1>1. /\ Head(p) \in 1..m /\ Tail(p) \in Seq(1..m) /\ Len(Tail(p)) = Len(p) - 1
      /\ Len(p) \in Nat /\ Len(w) \in Nat
    BY HeadTailProperties, LenProperties
<1>2. Append(w, Head(p)) \in Seq(1..m) /\ Len(Append(w, Head(p))) = Len(w) + 1
    BY <1>1, AppendProperties
<1>3. BufferSize \in Nat
    BY StreamAssumption
<1> QED BY <1>1, <1>2, <1>3

\* Every state is typed.
THEOREM TypeCorrect == Spec => []TypeOK
<1>1. Init => TypeOK
    <2> SUFFICES ASSUME Init PROVE TypeOK
        OBVIOUS
    <2>1. journal \in Seq(Kinds) /\ Last = 1
        BY DEF Init, Kinds, Last
    <2>2. \A s \in {backlog, queue, wire, store} : s = <<>>
        BY DEF Init
    <2>3. <<>> \in Seq(1..Last) /\ Len(<<>>) = 0
        BY EmptySeq
    <2> QED BY <2>1, <2>2, <2>3, StreamAssumption DEF Init, TypeOK
<1>2. TypeOK /\ [Next]_vars => TypeOK'
    <2> SUFFICES ASSUME TypeOK, [Next]_vars PROVE TypeOK'
        OBVIOUS
    <2>0. /\ Last \in Nat /\ <<>> \in Seq(1..Last) /\ Len(<<>>) = 0
          /\ QueueSize \in Nat \ {0} /\ BufferSize \in Nat \ {0}
          /\ MaxLoads \in Nat /\ MaxDrops \in Nat
          /\ Len(queue) \in Nat /\ Len(wire) \in Nat
        BY StreamAssumption, EmptySeq, LenProperties DEF TypeOK, Last
    <2>c. CloseConnection /\ UNCHANGED <<journal, store>> =>
              /\ Last' = Last /\ phase' = "idle"
              /\ \A s \in {backlog', queue', wire', store'} : s \in Seq(1..Last')
              /\ Len(queue') <= QueueSize /\ Len(wire') <= BufferSize
        BY <2>0 DEF CloseConnection, TypeOK, Last
    <2>1. ASSUME NEW kind \in Kinds, Publish(kind) PROVE TypeOK'
        <3>1. journal' \in Seq(Kinds) /\ Last' = Last + 1
            BY <2>1, AppendProperties DEF Publish, TypeOK, Last
        <3>2. \A s \in {backlog, queue, wire, store} : s \in Seq(1..Last')
            BY <2>0, <3>1, LongerJournal DEF TypeOK
        <3>3. queue' \in Seq(1..Last') /\ Len(queue') <= QueueSize
            <4>1. CASE phase = "live"
                <5>1. Last + 1 \in 1..Last' /\ Last' \in Nat
                    BY <2>0, <3>1
                <5>2. queue' = Offer(queue, Last + 1)
                    BY <2>1, <4>1 DEF Publish
                <5> QED BY <3>2, <5>1, <5>2, OfferTyped DEF TypeOK
            <4>2. CASE phase # "live"
                BY <2>1, <3>2, <4>2 DEF Publish, TypeOK
            <4> QED BY <4>1, <4>2
        <3>4. {since', currentSeq', base', loading'} \subseteq 0..Last'
            BY <2>0, <2>1, <3>1 DEF Publish, clientVars, TypeOK
        <3> QED BY <2>1, <3>1, <3>2, <3>3, <3>4 DEF Publish, clientVars, TypeOK
    <2>2. CASE Open
        <3> DEFINE missed == Replay(currentSeq)
        <3>1. missed \in Seq(1..Last)
            BY <2>0, ReplayAhead DEF TypeOK
        <3>2. CASE missed = <<>>
            BY <2>0, <2>2, <3>2 DEF Open, Register, clientVars, TypeOK, Last
        <3>3. CASE missed # <<>>
            <4> HIDE DEF missed
            <4>1. Append(<<>>, Head(missed)) = <<Head(missed)>>
                OBVIOUS
            <4>2. /\ <<Head(missed)>> \in Seq(1..Last)
                  /\ Len(<<Head(missed)>>) <= BufferSize
                  /\ Tail(missed) \in Seq(1..Last)
                BY <2>0, <3>1, <3>3, <4>1, SendTyped
            <4>3. /\ wire' = <<Head(missed)>> /\ backlog' = Tail(missed)
                  /\ phase' = "replaying" /\ UNCHANGED <<queue, since>>
                  /\ UNCHANGED <<journal, served, clientVars, loading, loads, drops>>
                BY <2>2, <3>3 DEF Open, missed
            <4> QED BY <4>2, <4>3 DEF clientVars, TypeOK, Last
        <3> QED BY <3>2, <3>3
    <2>3. CASE ReplayNext
        <3>1. CASE backlog # <<>>
            <4>1. /\ Append(wire, Head(backlog)) \in Seq(1..Last)
                  /\ Len(Append(wire, Head(backlog))) <= BufferSize
                  /\ Tail(backlog) \in Seq(1..Last)
                BY <2>0, <2>3, <3>1, SendTyped DEF ReplayNext, TypeOK
            <4> QED BY <2>3, <3>1, <4>1 DEF ReplayNext, clientVars, TypeOK, Last
        <3>2. CASE backlog = <<>>
            BY <2>0, <2>3, <3>2 DEF ReplayNext, Register, clientVars, TypeOK, Last
        <3> QED BY <3>1, <3>2
    <2>4. CASE SendLive
        <3>1. /\ Append(wire, Head(queue)) \in Seq(1..Last)
              /\ Len(Append(wire, Head(queue))) <= BufferSize
              /\ Tail(queue) \in Seq(1..Last)
              /\ Len(Tail(queue)) <= QueueSize
            BY <2>0, <2>4, SendTyped DEF SendLive, TypeOK
        <3> QED BY <2>4, <3>1 DEF SendLive, clientVars, TypeOK, Last
    <2>5. CASE Stop
        <3>1. CloseConnection /\ UNCHANGED <<journal, store>>
            BY <2>5 DEF Stop
        <3>2. {since', currentSeq', base', loading'} \subseteq 0..Last
            BY <2>5 DEF Stop, CloseConnection, TypeOK
        <3> QED BY <2>5, <2>c, <3>1, <3>2 DEF Stop, TypeOK
    <2>6. CASE LoadSnapshot
        BY <2>0, <2>6 DEF LoadSnapshot, handlerVars, clientVars, TypeOK, Last
    <2>7. CASE ShowSnapshot
        <3>1. CASE loading = base
            BY <2>0, <2>7, <3>1 DEF ShowSnapshot, handlerVars, clientVars, TypeOK, Last
        <3>2. CASE loading # base
            <4>1. [i \in 1..loading |-> i] \in Seq(1..Last)
                BY <2>0, SnapshotTyped DEF TypeOK
            <4>2. /\ CloseConnection /\ UNCHANGED journal
                  /\ store' = [i \in 1..loading |-> i]
                  /\ loading' = 0 /\ base' = loading /\ currentSeq' = loading
                  /\ link' \in {"off", "ws"}
                  /\ UNCHANGED <<served, loads, drops>>
                BY <2>7, <3>2 DEF ShowSnapshot, ResumeAt
            <4>3. /\ Last' = Last
                  /\ backlog' = <<>> /\ queue' = <<>> /\ wire' = <<>>
                  /\ phase' = "idle" /\ since' = since
                BY <4>2 DEF CloseConnection, Last
            <4>4. {since', currentSeq', base', loading'} \subseteq 0..Last
                BY <2>0, <4>2, <4>3 DEF TypeOK
            <4> QED BY <2>0, <4>1, <4>2, <4>3, <4>4 DEF TypeOK
        <3> QED BY <3>1, <3>2
    <2>8. CASE Receive
        <3> DEFINE seq == Head(wire)
        <3>1. /\ seq \in 1..Last /\ Tail(wire) \in Seq(1..Last)
              /\ Len(Tail(wire)) <= BufferSize
            <4>1. wire \in Seq(1..Last) /\ wire # <<>> /\ Len(wire) <= BufferSize
                BY <2>0, <2>8 DEF Receive, TypeOK
            <4>2. /\ Head(wire) \in 1..Last /\ Tail(wire) \in Seq(1..Last)
                  /\ Len(Tail(wire)) = Len(wire) - 1
                BY <4>1, HeadTailProperties
            <4>3. Len(wire) \in Nat /\ BufferSize \in Nat
                BY <4>1, LenProperties, StreamAssumption
            <4> QED BY <4>1, <4>2, <4>3
        <3> HIDE DEF seq
        <3>2. Append(store, seq) \in Seq(1..Last)
            BY <3>1, AppendProperties DEF TypeOK
        <3>3. store' \in {store, Append(store, seq)} /\ currentSeq' \in {currentSeq, seq}
            BY <2>8 DEF Receive, seq
        <3>4. /\ Last' = Last /\ wire' = Tail(wire)
              /\ UNCHANGED <<journal, served, phase, backlog, queue, since, link, base,
                             loading, loads, drops>>
            BY <2>8 DEF Receive, Last
        <3>5. store' \in Seq(1..Last)
            BY <3>2, <3>3 DEF TypeOK
        <3>6. {since', currentSeq', base', loading'} \subseteq 0..Last
            BY <2>0, <3>1, <3>3, <3>4 DEF TypeOK
        <3> QED BY <3>1, <3>4, <3>5, <3>6 DEF TypeOK
    <2>9. CASE Drop
        BY <2>0, <2>9 DEF Drop, CloseConnection, TypeOK, Last
    <2>10. CASE UNCHANGED vars
        BY <2>10 DEF vars, handlerVars, clientVars, TypeOK, Last
    <2> QED BY <2>1, <2>2, <2>3, <2>4, <2>5, <2>6, <2>7, <2>8, <2>9, <2>10 DEF Next
<1> QED BY <1>1, <1>2, PTL DEF Spec

-----------------------------------------------------------------------------
(* Order.  What the handler has yet to send is its backlog or its queue,   *)
(* never both; it lies behind what is on the wire, and all of it ahead of  *)
(* what the client has acknowledged.  A register can therefore start from  *)
(* an empty queue, and a lost connection leaves nothing out of order.      *)

Pending == IF phase = "live" THEN queue ELSE backlog

OneSource ==
    /\ phase # "replaying" => backlog = <<>>
    /\ phase # "live" => queue = <<>>
    /\ phase = "idle" => wire = <<>>

\* What the store holds grows and stays below the acknowledged number.
StoreBehind ==
    /\ Increasing(store)
    /\ \A i \in DOMAIN store : store[i] <= currentSeq

OrderInv == OneSource /\ Ahead(wire, Pending, currentSeq) /\ StoreBehind

\* The members of a typed sequence.
LEMMA Members ==
    ASSUME NEW m \in Nat, NEW s \in Seq(1..m)
    PROVE  s \in Seq(Nat) /\ \A i \in DOMAIN s : s[i] \in 1..m
<1>1. s \in [1..Len(s) -> 1..m] /\ Len(s) \in Nat /\ DOMAIN s = 1..Len(s)
    BY LenProperties
<1>2. s \in [1..Len(s) -> Nat]
    BY <1>1
<1> QED BY <1>1, <1>2

\* A published event goes behind everything.
LEMMA PublishOrdered ==
    ASSUME TypeOK, OrderInv, NEW kind \in Kinds, Publish(kind)
    PROVE  OrderInv'
<1>1. /\ Last \in Nat /\ currentSeq \in 0..Last
      /\ queue \in Seq(1..Last) /\ wire \in Seq(1..Last)
    BY LenProperties DEF TypeOK, Last
<1>2. /\ queue \in Seq(Nat) /\ wire \in Seq(Nat)
      /\ \A i \in DOMAIN queue : queue[i] < Last + 1
      /\ \A i \in DOMAIN wire : wire[i] < Last + 1
    BY <1>1, Members
<1>3. UNCHANGED <<phase, backlog, wire, currentSeq, store>>
    BY DEF Publish, clientVars
<1>4. CASE phase = "live"
    <2>1. queue' = Offer(queue, Last + 1)
        BY <1>4 DEF Publish
    <2>2. Ahead(wire, queue, currentSeq)
        BY <1>4 DEF OrderInv, Pending
    <2>3. Ahead(wire, Append(queue, Last + 1), currentSeq)
        <3>1. Last + 1 \in Nat /\ currentSeq \in Nat /\ Last + 1 > currentSeq
            BY <1>1
        <3> QED BY <1>2, <2>2, <3>1, PushAhead
    <2>4. CASE Len(queue) < QueueSize
        BY <1>3, <1>4, <2>1, <2>3, <2>4 DEF Offer, OrderInv, OneSource, StoreBehind, Pending
    <2>5. CASE ~(Len(queue) < QueueSize)
        <3>1. queue # <<>>
            BY <1>1, <2>5, EmptySeq, StreamAssumption
        <3>2. Tail(queue) \in Seq(Nat) /\ Ahead(wire, Tail(queue), currentSeq)
            BY <1>1, <1>2, <2>2, <3>1, DropAhead, HeadTailProperties
        <3>3. \A i \in DOMAIN Tail(queue) : Tail(queue)[i] < Last + 1
            BY <1>2, <3>1, TailFields
        <3>4. Ahead(wire, Append(Tail(queue), Last + 1), currentSeq)
            <4> DEFINE rest == Tail(queue)
                       next == Last + 1
            <4>1. rest \in Seq(Nat) /\ Ahead(wire, rest, currentSeq)
                  /\ \A i \in DOMAIN rest : rest[i] < next
                BY <3>2, <3>3
            <4>2. /\ next \in Nat /\ next > currentSeq /\ currentSeq \in Nat
                  /\ \A i \in DOMAIN wire : wire[i] < next
                BY <1>1, <1>2
            <4> HIDE DEF rest, next
            <4>3. Ahead(wire, Append(rest, next), currentSeq)
                BY <1>2, <4>1, <4>2, PushAhead
            <4> QED BY <4>3 DEF rest, next
        <3> QED BY <1>3, <1>4, <2>1, <2>5, <3>4 DEF Offer, OrderInv, OneSource, StoreBehind, Pending
    <2> QED BY <2>4, <2>5
<1>5. CASE phase # "live"
    <2>1. queue' = queue
        BY <1>5 DEF Publish
    <2> QED BY <1>3, <1>5, <2>1 DEF OrderInv, OneSource, StoreBehind, Pending
<1> QED BY <1>4, <1>5

\* A connection starts with the replay after what the client acknowledged.
LEMMA OpenOrdered ==
    ASSUME TypeOK, OrderInv, Open
    PROVE  OrderInv'
<1> DEFINE missed == Replay(currentSeq)
<1>1. Last \in Nat /\ currentSeq \in Nat
    BY LenProperties DEF TypeOK, Last
<1>2. missed \in Seq(Nat) /\ Ahead(<<>>, missed, currentSeq)
    BY <1>1, ReplayAhead, Members
<1>3. wire = <<>> /\ backlog = <<>> /\ queue = <<>> /\ UNCHANGED <<currentSeq, store>>
    BY DEF Open, clientVars, OrderInv, OneSource
<1>4. CASE missed = <<>>
    <2>1. phase' = "live" /\ queue' = <<>> /\ UNCHANGED <<backlog, wire>>
        BY <1>4 DEF Open, Register
    <2>2. OneSource' /\ StoreBehind'
        BY <1>3, <2>1 DEF OrderInv, OneSource, StoreBehind
    <2>3. wire' = <<>> /\ Pending' = <<>>
        BY <1>3, <2>1 DEF Pending
    <2> QED BY <2>2, <2>3, NothingAhead DEF OrderInv
<1>5. CASE missed # <<>>
    <2>1. /\ phase' = "replaying" /\ wire' = <<Head(missed)>> /\ backlog' = Tail(missed)
          /\ queue' = queue
        BY <1>5 DEF Open
    <2> HIDE DEF missed
    <2>2. Append(<<>>, Head(missed)) = <<Head(missed)>> /\ <<>> \in Seq(Nat)
        OBVIOUS
    <2>3. Ahead(<<Head(missed)>>, Tail(missed), currentSeq)
        BY <1>1, <1>2, <1>5, <2>2, ShiftAhead
    <2> QED BY <1>3, <2>1, <2>3 DEF OrderInv, OneSource, StoreBehind, Pending
<1> QED BY <1>4, <1>5

\* A send takes the first of what is left.
LEMMA SendOrdered ==
    ASSUME TypeOK, OrderInv, ReplayNext \/ SendLive
    PROVE  OrderInv'
<1>1. /\ Last \in Nat /\ currentSeq \in Nat
      /\ wire \in Seq(Nat) /\ backlog \in Seq(Nat) /\ queue \in Seq(Nat)
    <2>1. Last \in Nat
        BY LenProperties DEF TypeOK, Last
    <2> QED BY <2>1, Members DEF TypeOK
<1>2. UNCHANGED <<currentSeq, store>>
    BY DEF ReplayNext, SendLive, clientVars
<1>3. CASE ReplayNext
    <2>1. Ahead(wire, backlog, currentSeq) /\ queue = <<>>
        BY <1>3 DEF ReplayNext, OrderInv, OneSource, Pending
    <2>2. CASE backlog # <<>>
        <3>1. Ahead(Append(wire, Head(backlog)), Tail(backlog), currentSeq)
            BY <1>1, <2>1, <2>2, ShiftAhead
        <3>2. /\ phase' = "replaying" /\ queue' = <<>>
              /\ wire' = Append(wire, Head(backlog)) /\ backlog' = Tail(backlog)
            BY <1>3, <2>1, <2>2 DEF ReplayNext
        <3> QED BY <1>2, <3>1, <3>2 DEF OrderInv, OneSource, StoreBehind, Pending
    <2>3. CASE backlog = <<>>
        <3>1. phase' = "live" /\ queue' = <<>> /\ wire' = wire /\ backlog' = <<>>
            BY <1>3, <2>3 DEF ReplayNext, Register
        <3> QED BY <1>2, <2>1, <2>3, <3>1 DEF OrderInv, OneSource, StoreBehind, Pending
    <2> QED BY <2>2, <2>3
<1>4. CASE SendLive
    <2>1. Ahead(wire, queue, currentSeq) /\ backlog = <<>> /\ queue # <<>>
        BY <1>4 DEF SendLive, OrderInv, OneSource, Pending
    <2>2. Ahead(Append(wire, Head(queue)), Tail(queue), currentSeq)
        BY <1>1, <2>1, ShiftAhead
    <2>3. /\ phase' = "live" /\ backlog' = <<>>
          /\ wire' = Append(wire, Head(queue)) /\ queue' = Tail(queue)
        BY <1>4, <2>1 DEF SendLive
    <2> QED BY <1>2, <2>2, <2>3 DEF OrderInv, OneSource, StoreBehind, Pending
<1> QED BY <1>3, <1>4

\* What the client is given is newer than all it has been given.
LEMMA ReceiveOrdered ==
    ASSUME TypeOK, OrderInv, Receive
    PROVE  OrderInv'
<1> DEFINE seq == Head(wire)
<1>1. /\ Last \in Nat /\ currentSeq \in Nat
      /\ wire \in Seq(Nat) /\ Pending \in Seq(Nat) /\ store \in Seq(Nat)
    <2>1. Last \in Nat
        BY LenProperties DEF TypeOK, Last
    <2> QED BY <2>1, Members DEF TypeOK, Pending
<1>2. wire # <<>> /\ Ahead(wire, Pending, currentSeq)
    BY DEF Receive, OrderInv
<1>3. /\ seq \in Nat /\ seq > currentSeq
      /\ Ahead(Tail(wire), Pending, seq) /\ Ahead(Tail(wire), Pending, currentSeq)
    BY <1>1, <1>2, DeliverAhead
<1>4. /\ wire' = Tail(wire) /\ UNCHANGED <<phase, backlog, queue>>
      /\ \/ UNCHANGED <<currentSeq, store>>
         \/ currentSeq' = seq /\ store' = Append(store, seq)
    BY <1>1, <1>3 DEF Receive
<1> HIDE DEF seq
<1>5. OneSource' /\ Pending' = Pending
    BY <1>2, <1>4 DEF OrderInv, OneSource, Pending
<1>6. CASE UNCHANGED <<currentSeq, store>>
    BY <1>3, <1>4, <1>5, <1>6 DEF OrderInv, StoreBehind
<1>7. CASE currentSeq' = seq /\ store' = Append(store, seq)
    <2>1. /\ Append(store, seq) \in Seq(Nat)
          /\ DOMAIN Append(store, seq) = 1..(Len(store) + 1)
          /\ DOMAIN store = 1..Len(store) /\ Len(store) \in Nat
          /\ \A i \in DOMAIN store : Append(store, seq)[i] = store[i] /\ store[i] \in Nat
          /\ Append(store, seq)[Len(store) + 1] = seq
        BY <1>1, <1>3, AppendProperties, LenProperties, ElementOfSeq
    <2>2. \A i \in DOMAIN store' :
              (i \in DOMAIN store /\ store'[i] = store[i]) \/ (i = Len(store) + 1 /\ store'[i] = seq)
        BY <1>7, <2>1
    <2>3. \A i \in DOMAIN store : store[i] < seq /\ i < Len(store) + 1 /\ i \in Nat
        BY <1>1, <1>3, <2>1 DEF OrderInv, StoreBehind
    <2>4. Increasing(store')
        BY <2>1, <2>2, <2>3 DEF OrderInv, StoreBehind, Increasing
    <2>5. \A i \in DOMAIN store' : store'[i] <= currentSeq'
        BY <1>3, <1>7, <2>1, <2>2, <2>3
    <2> QED BY <1>3, <1>4, <1>5, <1>7, <2>4, <2>5 DEF OrderInv, StoreBehind
<1> QED BY <1>4, <1>6, <1>7

\* A connection that ends takes with it all that was under way.
LEMMA CloseOrdered ==
    ASSUME TypeOK, OrderInv, Drop \/ Stop \/ ShowSnapshot
    PROVE  OrderInv'
<1>1. loading \in Nat
    <2>1. Last \in Nat
        BY LenProperties DEF TypeOK, Last
    <2> QED BY <2>1 DEF TypeOK
<1>2. ASSUME CloseConnection PROVE OneSource' /\ Ahead(wire', Pending', currentSeq')
    BY <1>2, NothingAhead DEF CloseConnection, OneSource, Pending
<1>3. CASE Drop \/ Stop
    BY <1>2, <1>3 DEF Drop, Stop, OrderInv, StoreBehind
<1>4. CASE ShowSnapshot
    <2>1. CASE loading = base
        BY <1>4, <2>1 DEF ShowSnapshot, handlerVars, clientVars, OrderInv, OneSource,
                          StoreBehind, Pending
    <2>2. CASE loading # base
        <3>1. CloseConnection /\ store' = [i \in 1..loading |-> i] /\ currentSeq' = loading
            BY <1>4, <2>2 DEF ShowSnapshot, ResumeAt
        <3>2. StoreBehind'
            BY <1>1, <3>1 DEF StoreBehind, Increasing
        <3> QED BY <1>2, <3>1, <3>2 DEF OrderInv
    <2> QED BY <2>1, <2>2
<1> QED BY <1>3, <1>4

\* The order is kept by every step.
LEMMA Ordered == Spec => []OrderInv
<1>1. Init => OrderInv
    <2> SUFFICES ASSUME Init PROVE OrderInv
        OBVIOUS
    <2>1. /\ wire = <<>> /\ backlog = <<>> /\ queue = <<>> /\ store = <<>>
          /\ phase = "idle"
        BY DEF Init
    <2> QED BY <2>1, NothingAhead DEF OrderInv, OneSource, StoreBehind, Pending, Increasing
<1>2. TypeOK /\ OrderInv /\ [Next]_vars => OrderInv'
    <2> SUFFICES ASSUME TypeOK, OrderInv, [Next]_vars PROVE OrderInv'
        OBVIOUS
    <2>1. CASE LoadSnapshot \/ UNCHANGED vars
        BY <2>1 DEF LoadSnapshot, vars, handlerVars, clientVars, OrderInv, OneSource,
                    StoreBehind, Pending
    <2> QED BY <2>1, PublishOrdered, OpenOrdered, SendOrdered, ReceiveOrdered,
               CloseOrdered DEF Next
<1> QED BY <1>1, <1>2, TypeCorrect, PTL DEF Spec

\* Two sequences ahead of a number make one sequence ahead of it.
LEMMA JoinedAhead ==
    ASSUME NEW w \in Seq(Nat), NEW p \in Seq(Nat), NEW c \in Nat, Ahead(w, p, c)
    PROVE  Increasing(w \o p) /\ \A i \in DOMAIN (w \o p) : (w \o p)[i] > c
<1> DEFINE s == w \o p
<1>1. /\ DOMAIN s = 1..(Len(w) + Len(p))
      /\ \A i \in DOMAIN s : s[i] = IF i <= Len(w) THEN w[i] ELSE p[i - Len(w)]
      /\ Len(w) \in Nat /\ Len(p) \in Nat
      /\ DOMAIN w = 1..Len(w) /\ DOMAIN p = 1..Len(p)
    BY ConcatProperties, LenProperties
<1>2. \A i \in DOMAIN s :
          \/ i \in DOMAIN w /\ s[i] = w[i]
          \/ i > Len(w) /\ i - Len(w) \in DOMAIN p /\ s[i] = p[i - Len(w)]
    BY <1>1
<1> HIDE DEF s
<1>3. Increasing(s)
    <2> SUFFICES ASSUME NEW i \in DOMAIN s, NEW j \in DOMAIN s, i < j
                 PROVE  s[i] < s[j]
        BY DEF Increasing
    <2>1. CASE i \in DOMAIN w /\ j \in DOMAIN w
        BY <1>1, <2>1 DEF Ahead, Increasing
    <2>2. CASE i \in DOMAIN w /\ j \notin DOMAIN w
        BY <1>2, <1>1, <2>2 DEF Ahead, Before
    <2>3. CASE i \notin DOMAIN w
        <3>1. /\ i - Len(w) \in DOMAIN p /\ s[i] = p[i - Len(w)]
              /\ j - Len(w) \in DOMAIN p /\ s[j] = p[j - Len(w)]
              /\ i - Len(w) < j - Len(w)
            BY <1>1, <1>2, <2>3
        <3> QED BY <3>1 DEF Ahead, Increasing
    <2> QED BY <2>1, <2>2, <2>3
<1>4. \A i \in DOMAIN s : s[i] > c
    BY <1>2 DEF Ahead, Above
<1> QED BY <1>3, <1>4 DEF s

\* The room store is given every event at most once and in journal order,
\* whatever connections are lost, reopened or overflow.
THEOREM StoreInOrder == Spec => []AppliedOnceInOrder
<1>1. OrderInv => AppliedOnceInOrder
    BY DEF OrderInv, StoreBehind, AppliedOnceInOrder
<1> QED BY <1>1, Ordered, PTL

\* All that is on its way to the client, on the wire, in the replay or in the
\* queue, is newer than all it has acknowledged.
THEOREM FlightUnseen == Spec => []InFlightIsUnseen
<1>1. TypeOK /\ OrderInv => InFlightIsUnseen
    <2> SUFFICES ASSUME TypeOK, OrderInv PROVE InFlightIsUnseen
        OBVIOUS
    <2>1. /\ wire \in Seq(Nat) /\ backlog \in Seq(Nat) /\ queue \in Seq(Nat)
          /\ currentSeq \in Nat
        <3>1. Last \in Nat
            BY LenProperties DEF TypeOK, Last
        <3> QED BY <3>1, Members DEF TypeOK
    <2>2. InFlight = wire \o Pending
        <3>1. CASE phase = "live"
            <4>1. backlog = <<>> /\ wire \o <<>> = wire
                BY <2>1, <3>1, ConcatEmptySeq DEF OrderInv, OneSource
            <4> QED BY <3>1, <4>1 DEF InFlight, Pending
        <3>2. CASE phase # "live"
            <4>1. queue = <<>> /\ (wire \o backlog) \o <<>> = wire \o backlog
                BY <2>1, <3>2, ConcatEmptySeq, ConcatProperties DEF OrderInv, OneSource
            <4> QED BY <3>2, <4>1 DEF InFlight, Pending
        <3> QED BY <3>1, <3>2
    <2>3. Pending \in Seq(Nat)
        BY <2>1 DEF Pending
    <2> QED BY <2>1, <2>2, <2>3, JoinedAhead DEF OrderInv, InFlightIsUnseen
<1> QED BY <1>1, TypeCorrect, Ordered, PTL

=============================================================================
