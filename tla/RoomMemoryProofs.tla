---------------------------- MODULE RoomMemoryProofs ----------------------------
(***************************************************************************)
(* Proofs about RoomMemory.  The memory of a room is what its journal      *)
(* stands for, one write after another, whatever fails on disk; the        *)
(* decision record therefore has the latest plan.  Where one process uses  *)
(* the directory, every cache of lessons continues the file behind it.     *)
(***************************************************************************)
EXTENDS RoomMemory, ListingProofs, SequenceTheorems, FiniteSetTheorems, TLAPS

-----------------------------------------------------------------------------
(* The writes of a round.                                                  *)

EventNames == {"supervisor.plan", "specialist.claim"}
Payloads == [scope : Scopes, kind : {"fact"}, name : Keys, round : Nat]
               \cup [scope : Scopes, kind : {"event"}, name : EventNames, round : Nat]

\* The number of the round that the n-th write belongs to, from 0 on.
RoundOf(n) == 1 + (n \div WritesPerRound)

\* A round writes five times; each write carries its number.
LEMMA FiveWrites ==
    ASSUME NEW n \in Nat
    PROVE  /\ WritesPerRound = 5
           /\ \A i \in 1..5 : RoundWrites(n)[i] \in Payloads /\ RoundWrites(n)[i].round = n
           /\ RoundWrites(n)[1] = Fact("mas", "latest_supervisor_plan", n)
           /\ \A i \in 2..5 : ~(/\ RoundWrites(n)[i].kind = "fact"
                                /\ RoundWrites(n)[i].name = "latest_supervisor_plan")
<1>1. /\ Fact("mas", "latest_supervisor_plan", n) \in Payloads
      /\ Note("mas", "supervisor.plan", n) \in Payloads
      /\ Fact("mas", "latest_claim", n) \in Payloads
      /\ Note("mas", "specialist.claim", n) \in Payloads
      /\ Fact("agent", "last_self_claim", n) \in Payloads
  BY DEF Fact, Note, Payloads, Scopes, Keys, EventNames
<1>2. WritesPerRound = 5
  BY DEF WritesPerRound, RoundWrites
<1>3. \A i \in 1..5 : i \in {1, 2, 3, 4, 5}
  OBVIOUS
<1>4. /\ RoundWrites(n)[1] = Fact("mas", "latest_supervisor_plan", n)
      /\ RoundWrites(n)[2] = Note("mas", "supervisor.plan", n)
      /\ RoundWrites(n)[3] = Fact("mas", "latest_claim", n)
      /\ RoundWrites(n)[4] = Note("mas", "specialist.claim", n)
      /\ RoundWrites(n)[5] = Fact("agent", "last_self_claim", n)
  BY DEF RoundWrites
<1>5. \A i \in 1..5 : RoundWrites(n)[i] \in Payloads /\ RoundWrites(n)[i].round = n
  <2>1. \A i \in {1, 2, 3, 4, 5} : RoundWrites(n)[i] \in Payloads
    BY <1>1, <1>4
  <2>2. \A i \in {1, 2, 3, 4, 5} : RoundWrites(n)[i].round = n
    BY <1>4 DEF Fact, Note
  <2> QED BY <1>3, <2>1, <2>2
<1>6. \A i \in {2, 3, 4, 5} : ~(/\ RoundWrites(n)[i].kind = "fact"
                                /\ RoundWrites(n)[i].name = "latest_supervisor_plan")
  BY <1>4 DEF Fact, Note
<1>7. \A i \in 2..5 : i \in {2, 3, 4, 5}
  OBVIOUS
<1> QED BY <1>2, <1>4, <1>5, <1>6, <1>7

\* The next write of a process is of its round, and the first of the round is
\* the supervisor's plan.
LEMMA NextWriteOf ==
    ASSUME NEW p \in Processes, journal[p] \in Seq(Payloads)
    PROVE  /\ NextWrite(p) \in Payloads
           /\ NextWrite(p).round = RoundOf(Len(journal[p]))
           /\ \/ NextWrite(p) = Fact("mas", "latest_supervisor_plan", RoundOf(Len(journal[p])))
              \/ /\ Len(journal[p]) # 0
                 /\ RoundOf(Len(journal[p])) = RoundOf(Len(journal[p]) - 1)
                 /\ ~(/\ NextWrite(p).kind = "fact"
                      /\ NextWrite(p).name = "latest_supervisor_plan")
<1> DEFINE n == Len(journal[p])
           k == 1 + (n % 5)
           m == 1 + (n \div 5)
<1>1. n \in Nat
  OBVIOUS
<1>2. WritesPerRound = 5
  BY FiveWrites, 0 \in Nat
<1>3. NextWrite(p) = RoundWrites(m)[k] /\ RoundOf(n) = m
  BY <1>2 DEF NextWrite, RoundOf
<1>4. RoundOf(n - 1) = 1 + ((n - 1) \div 5)
  BY <1>2 DEF RoundOf
<1> HIDE DEF n
<1>5. m \in Nat /\ k \in 1..5
  BY <1>1
<1>6. k = 1 \/ (k \in 2..5 /\ n # 0 /\ n \div 5 = (n - 1) \div 5)
  BY <1>1
<1> HIDE DEF m, k
<1>7. RoundWrites(m)[k] \in Payloads /\ RoundWrites(m)[k].round = m
  BY <1>5, FiveWrites
<1>8. CASE k = 1
  BY <1>3, <1>5, <1>7, <1>8, FiveWrites DEF n
<1>9. CASE k \in 2..5 /\ n # 0 /\ n \div 5 = (n - 1) \div 5
  <2>1. ~(RoundWrites(m)[k].kind = "fact" /\ RoundWrites(m)[k].name = "latest_supervisor_plan")
    BY <1>5, <1>9, FiveWrites
  <2>2. RoundOf(n) = RoundOf(n - 1)
    BY <1>3, <1>4, <1>9 DEF m
  <2> QED BY <1>3, <1>7, <1>9, <2>1, <2>2 DEF n
<1> QED BY <1>6, <1>8, <1>9

-----------------------------------------------------------------------------
(* What a journal stands for, one write later.                             *)

\* The largest of places that end with n is n.
LEMMA MaxIsLast ==
    ASSUME NEW S \in SUBSET Nat, NEW n \in Nat, n \in S, \A i \in S : i <= n
    PROVE  Max(S) = n
<1>1. \A x \in S : (\A y \in S : x >= y) => x = n
  <2> SUFFICES ASSUME NEW x \in S, \A y \in S : x >= y PROVE x = n
    OBVIOUS
  <2>1. x \in Nat /\ x >= n /\ x <= n
    OBVIOUS
  <2> QED BY <2>1
<1>2. \A y \in S : n >= y
  <2> SUFFICES ASSUME NEW y \in S PROVE n >= y
    OBVIOUS
  <2>1. y \in Nat /\ y <= n
    OBVIOUS
  <2> QED BY <2>1
<1> QED BY <1>1, <1>2 DEF Max

\* The last value of a key is that of the new write, if it is of that key.
LEMMA LastValueNext ==
    ASSUME NEW j \in Seq(Payloads), NEW w \in Payloads, NEW s, NEW k
    PROVE  LastValue(Append(j, w), s, k) =
              IF w.kind = "fact" /\ w.scope = s /\ w.name = k THEN w.round
              ELSE LastValue(j, s, k)
<1> DEFINE t == Append(j, w)
           n == Len(j) + 1
           Of(x) == x.kind = "fact" /\ x.scope = s /\ x.name = k
           P == {i \in DOMAIN j : Of(j[i])}
           Q == {i \in DOMAIN t : Of(t[i])}
<1>1. /\ DOMAIN t = DOMAIN j \cup {n} /\ n \notin DOMAIN j
      /\ \A i \in DOMAIN j : t[i] = j[i]
      /\ t[n] = w
  BY AppendPlaces
<1>2. n \in Nat /\ DOMAIN j = 1..(n - 1)
  OBVIOUS
<1>3. LastValue(t, s, k) = IF Q = {} THEN 0 ELSE t[Max(Q)].round
  BY DEF LastValue
<1>4. LastValue(j, s, k) = IF P = {} THEN 0 ELSE j[Max(P)].round
  BY DEF LastValue
<1> HIDE DEF t, n
<1>5. CASE Of(w)
  <2>1. n \in Q /\ \A i \in Q : i <= n
    BY <1>1, <1>2, <1>5
  <2>2. Q \in SUBSET Nat
    BY <1>1, <1>2
  <2> HIDE DEF Q
  <2>3. Max(Q) = n
    BY <1>2, <2>1, <2>2, MaxIsLast
  <2> QED BY <1>1, <1>3, <1>5, <2>1, <2>3 DEF t
<1>6. CASE ~Of(w)
  <2>1. Q = P
    BY <1>1, <1>6
  <2>2. P # {} => Max(P) \in P
    <3> SUFFICES ASSUME P # {} PROVE Max(P) \in P
      OBVIOUS
    <3>1. P \in SUBSET Nat /\ \A i \in P : i <= n
      BY <1>2
    <3> HIDE DEF P
    <3>2. PICK m \in P : \A i \in P : i <= m
      <4>1. {n - i : i \in P} \in SUBSET Nat /\ {n - i : i \in P} # {}
        BY <1>2, <3>1
      <4>2. PICK d \in {n - i : i \in P} : \A e \in {n - i : i \in P} : d <= e
        BY <4>1, LeastOf
      <4>3. PICK m \in P : d = n - m
        OBVIOUS
      <4>4. \A i \in P : n - m <= n - i
        BY <4>2, <4>3
      <4>5. \A i \in P : i <= m
        <5> SUFFICES ASSUME NEW i \in P PROVE i <= m
          OBVIOUS
        <5>1. i \in Nat /\ m \in Nat /\ n - m <= n - i
          BY <3>1, <4>4
        <5> QED BY <1>2, <5>1
      <4> QED BY <4>5
    <3>3. Max(P) = m
      BY <3>1, <3>2, MaxIsLast
    <3> QED BY <3>3
  <2>3. P \in SUBSET DOMAIN j
    OBVIOUS
  <2> HIDE DEF P, Q
  <2> QED BY <1>1, <1>3, <1>4, <1>6, <2>1, <2>2, <2>3 DEF t
<1> QED BY <1>5, <1>6

\* How many entries a cap drops.
Dropped(s, n) == IF Len(s) > n THEN Len(s) - n ELSE 0

\* The cap keeps the end of a list: as much of it as fits.
LEMMA NewestOf ==
    ASSUME NEW X, NEW s \in Seq(X), NEW n \in Nat
    PROVE  /\ Dropped(s, n) \in Nat
           /\ Newest(s, n) \in Seq(X)
           /\ Len(Newest(s, n)) = Len(s) - Dropped(s, n)
           /\ \A i \in 1..(Len(s) - Dropped(s, n)) :
                 /\ Dropped(s, n) + i \in 1..Len(s)
                 /\ Newest(s, n)[i] = s[Dropped(s, n) + i]
<1> DEFINE d == IF Len(s) > n THEN Len(s) - n ELSE 0
           l == Len(s)
<1>1. l \in Nat /\ d \in 0..l /\ \A i \in 1..l : s[i] \in X
  OBVIOUS
<1>2. Newest(s, n) = SubSeq(s, d + 1, l)
  BY <1>1 DEF Newest
<1> HIDE DEF d, l
<1>3. /\ SubSeq(s, d + 1, l) \in Seq(X)
      /\ Len(SubSeq(s, d + 1, l)) = IF d + 1 <= l THEN l - (d + 1) + 1 ELSE 0
      /\ \A i \in 1..(l - (d + 1) + 1) : SubSeq(s, d + 1, l)[i] = s[d + 1 + i - 1]
  <2>1. d + 1 \in Int /\ l \in Int /\ \A i \in (d + 1)..l : s[i] \in X
    BY <1>1
  <2> QED BY <2>1, SubSeqProperties
<1>4. Len(SubSeq(s, d + 1, l)) = l - d
  BY <1>1, <1>3
<1>5. \A i \in 1..(l - d) : d + i \in 1..l /\ SubSeq(s, d + 1, l)[i] = s[d + i]
  <2> SUFFICES ASSUME NEW i \in 1..(l - d)
               PROVE  d + i \in 1..l /\ SubSeq(s, d + 1, l)[i] = s[d + i]
    OBVIOUS
  <2>1. i \in 1..(l - (d + 1) + 1) /\ d + 1 + i - 1 = d + i /\ d + i \in 1..l
    BY <1>1
  <2> QED BY <1>3, <2>1
<1>6. d \in Nat
  BY <1>1
<1> QED BY <1>2, <1>3, <1>4, <1>5, <1>6 DEF d, l, Dropped

\* A list capped at every write is the capped list of all writes.
LEMMA NewestOfNewest ==
    ASSUME NEW X, NEW s \in Seq(X), NEW x \in X, NEW n \in Nat \ {0}
    PROVE  Newest(Append(Newest(s, n), x), n) = Newest(Append(s, x), n)
<1> DEFINE l == Len(s)
           q == Newest(s, n)
           d == IF l > n THEN l - n ELSE 0
           t == Append(s, x)
           u == Append(q, x)
           e == IF l + 1 > n THEN l + 1 - n ELSE 0
           f == IF l - d + 1 > n THEN l - d + 1 - n ELSE 0
           a == Newest(u, n)
           b == Newest(t, n)
           m == l + 1 - e
<1>1. l \in Nat /\ n \in Nat /\ n >= 1
  OBVIOUS
<1>2. /\ q \in Seq(X) /\ Len(q) = l - d
      /\ \A i \in 1..(l - d) : d + i \in 1..l /\ q[i] = s[d + i]
  BY NewestOf DEF Dropped
<1>3. /\ t \in Seq(X) /\ Len(t) = l + 1 /\ t[l + 1] = x
      /\ \A i \in 1..l : t[i] = s[i]
  BY AppendProperties
<1>0. d \in Nat /\ d <= l
  BY <1>1
<1> HIDE DEF l, q, d
<1>4. /\ u \in Seq(X) /\ Len(u) = l - d + 1 /\ u[l - d + 1] = x
      /\ \A i \in 1..(l - d) : u[i] = q[i]
  BY <1>2, AppendProperties
<1> HIDE DEF t, u
<1>5. /\ a \in Seq(X) /\ Len(a) = l - d + 1 - f
      /\ \A i \in 1..(l - d + 1 - f) : f + i \in 1..(l - d + 1) /\ a[i] = u[f + i]
  <2>1. Dropped(u, n) = IF Len(u) > n THEN Len(u) - n ELSE 0
    BY DEF Dropped
  <2>2. f = Dropped(u, n)
    BY <1>0, <1>1, <1>4, <2>1
  <2>3. /\ Dropped(u, n) \in Nat
        /\ Newest(u, n) \in Seq(X)
        /\ Len(Newest(u, n)) = Len(u) - Dropped(u, n)
        /\ \A i \in 1..(Len(u) - Dropped(u, n)) :
              /\ Dropped(u, n) + i \in 1..Len(u)
              /\ Newest(u, n)[i] = u[Dropped(u, n) + i]
    <3>1. n \in Nat /\ u \in Seq(X)
      BY <1>1, <1>4
    <3> QED BY <3>1, NewestOf, Zenon
  <2>4. Len(u) = l - d + 1
    BY <1>4
  <2> HIDE DEF f
  <2>5. a \in Seq(X) /\ Len(a) = l - d + 1 - f
    BY <1>1, <1>0, <2>2, <2>3, <2>4
  <2>6. \A i \in 1..(l - d + 1 - f) : f + i \in 1..(l - d + 1) /\ a[i] = u[f + i]
    BY <1>1, <1>0, <2>2, <2>3, <2>4
  <2> QED BY <2>5, <2>6
<1>6. /\ b \in Seq(X) /\ Len(b) = l + 1 - e
      /\ \A i \in 1..(l + 1 - e) : e + i \in 1..(l + 1) /\ b[i] = t[e + i]
  <2>1. Dropped(t, n) = IF Len(t) > n THEN Len(t) - n ELSE 0
    BY DEF Dropped
  <2>2. e = Dropped(t, n)
    BY <1>0, <1>1, <1>3, <2>1
  <2>3. /\ Dropped(t, n) \in Nat
        /\ Newest(t, n) \in Seq(X)
        /\ Len(Newest(t, n)) = Len(t) - Dropped(t, n)
        /\ \A i \in 1..(Len(t) - Dropped(t, n)) :
              /\ Dropped(t, n) + i \in 1..Len(t)
              /\ Newest(t, n)[i] = t[Dropped(t, n) + i]
    <3>1. n \in Nat /\ t \in Seq(X)
      BY <1>1, <1>3
    <3> QED BY <3>1, NewestOf, Zenon
  <2>4. Len(t) = l + 1
    BY <1>3
  <2> HIDE DEF e
  <2>5. b \in Seq(X) /\ Len(b) = l + 1 - e
    BY <1>1, <1>0, <2>2, <2>3, <2>4
  <2>6. \A i \in 1..(l + 1 - e) : e + i \in 1..(l + 1) /\ b[i] = t[e + i]
    BY <1>1, <1>0, <2>2, <2>3, <2>4
  <2> QED BY <2>5, <2>6
<1>7. d + f = e /\ d \in 0..l /\ m \in Nat /\ l - d + 1 - f = m /\ f \in Nat
  BY <1>1 DEF d
<1> HIDE DEF e, f
<1>8. \A i \in 1..m : a[i] = b[i]
  <2> SUFFICES ASSUME NEW i \in 1..m PROVE a[i] = b[i]
    OBVIOUS
  <2>1. a[i] = u[f + i] /\ b[i] = t[e + i] /\ e + i \in 1..(l + 1) /\ f + i \in 1..(l - d + 1)
    BY <1>5, <1>6, <1>7
  <2>2. CASE e + i = l + 1
    <3>1. f + i = l - d + 1
      BY <1>1, <1>7, <2>2
    <3> QED BY <1>3, <1>4, <2>1, <2>2, <3>1
  <2>3. CASE e + i # l + 1
    <3>1. f + i \in 1..(l - d) /\ e + i \in 1..l /\ d + (f + i) = e + i
      BY <1>1, <1>7, <2>1, <2>3
    <3>2. u[f + i] = s[d + (f + i)]
      BY <1>2, <1>4, <3>1
    <3>3. t[e + i] = s[e + i]
      BY <1>3, <3>1
    <3> QED BY <2>1, <3>1, <3>2, <3>3
  <2> QED BY <2>2, <2>3
<1> HIDE DEF a, b, m
<1>9. Len(a) = m /\ Len(b) = m
  BY <1>5, <1>6, <1>7 DEF m
<1>10. a = [i \in 1..m |-> a[i]] /\ b = [i \in 1..m |-> b[i]]
  BY <1>5, <1>6, <1>9, LenProperties
<1> QED BY <1>8, <1>10 DEF a, b, u, t, q

\* The memory of a journal, one write later: the scope of the write remembers
\* it and no other scope changes.
LEMMA MemoryNext ==
    ASSUME NEW j \in Seq(Payloads), NEW w \in Payloads
    PROVE  MemoryOf(Append(j, w)) =
              [MemoryOf(j) EXCEPT ![w.scope] = Remembered(MemoryOf(j)[w.scope], w)]
<1> DEFINE t == Append(j, w)
           n == Len(j) + 1
           M == MemoryOf(j)
<1>1. /\ t \in Seq(Payloads)
      /\ DOMAIN t = DOMAIN j \cup {n} /\ n \notin DOMAIN j
      /\ \A i \in DOMAIN j : t[i] = j[i]
      /\ t[n] = w
  BY AppendPlaces
<1>2. /\ w.scope \in Scopes
      /\ w.kind \in {"fact", "event"}
      /\ w.kind = "fact" => w.name \in Keys
  BY DEF Payloads
<1>3. M = [s \in Scopes |-> [facts |-> [k \in Keys |-> LastValue(j, s, k)],
                             events |-> Newest(Picked(j, EventsOf(j, s)), EventCap)]]
  BY DEF MemoryOf
<1>4. MemoryOf(t) = [s \in Scopes |-> [facts |-> [k \in Keys |-> LastValue(t, s, k)],
                             events |-> Newest(Picked(t, EventsOf(t, s)), EventCap)]]
  BY DEF MemoryOf
<1> HIDE DEF t, M
<1>5. \A s \in Scopes : MemoryOf(t)[s] = IF s = w.scope THEN Remembered(M[s], w) ELSE M[s]
  <2> SUFFICES ASSUME NEW s \in Scopes
               PROVE  MemoryOf(t)[s] = IF s = w.scope THEN Remembered(M[s], w) ELSE M[s]
    OBVIOUS
  <2> DEFINE Q == EventsOf(j, s)
             q == Picked(j, Q)
             F == [k \in Keys |-> LastValue(j, s, k)]
             G == [k \in Keys |-> LastValue(t, s, k)]
             v == Newest(q, EventCap)
             y == Newest(Picked(t, EventsOf(t, s)), EventCap)
  <2>1. M[s] = [facts |-> F, events |-> v] /\ MemoryOf(t)[s] = [facts |-> G, events |-> y]
    BY <1>3, <1>4
  <2>2. Q \in SUBSET DOMAIN j
    BY DEF EventsOf
  <2>3. q \in Seq(Payloads)
    BY <2>2, PickedType
  <2>4. EventsOf(t, s) = IF w.kind = "event" /\ w.scope = s THEN Q \cup {n} ELSE Q
    BY <1>1 DEF EventsOf
  <2>5. \A k \in Keys : LastValue(t, s, k) = IF w.kind = "fact" /\ w.scope = s /\ w.name = k
                                             THEN w.round ELSE LastValue(j, s, k)
    BY LastValueNext DEF t
  <2> HIDE DEF Q
  <2>6. Picked(t, Q) = q /\ Picked(t, Q \cup {n}) = Append(q, w)
    BY <2>2, PickedSkip, PickedAppend DEF t
  <2> HIDE DEF q
  <2>7. CASE w.scope # s
    <3>1. \A k \in Keys : LastValue(t, s, k) = LastValue(j, s, k)
      BY <2>5, <2>7
    <3>2. F = G
      BY <3>1
    <3>3. v = y
      BY <2>4, <2>6, <2>7
    <3> HIDE DEF F, G, v, y
    <3> QED BY <2>1, <2>7, <3>2, <3>3
  <2>8. CASE w.scope = s /\ w.kind = "fact"
    <3>1. \A k \in Keys : LastValue(t, s, k) = IF k = w.name THEN w.round ELSE LastValue(j, s, k)
      BY <2>5, <2>8
    <3>2. G = [F EXCEPT ![w.name] = w.round]
      BY <3>1
    <3>3. v = y
      BY <2>4, <2>6, <2>8
    <3> HIDE DEF F, G, v, y
    <3>4. Remembered(M[s], w) = [M[s] EXCEPT !.facts[w.name] = w.round]
      BY <2>8 DEF Remembered
    <3> QED BY <2>1, <2>8, <3>2, <3>3, <3>4
  <2>9. CASE w.scope = s /\ w.kind = "event"
    <3>1. \A k \in Keys : LastValue(t, s, k) = LastValue(j, s, k)
      BY <2>5, <2>9
    <3>2. F = G
      BY <3>1
    <3>3. y = Newest(Append(v, w), EventCap)
      <4>1. y = Newest(Append(q, w), EventCap)
        BY <2>4, <2>6, <2>9
      <4>2. Newest(Append(Newest(q, EventCap), w), EventCap) = Newest(Append(q, w), EventCap)
        BY <2>3, NewestOfNewest, EventCapAssumption, Zenon
      <4> QED BY <4>1, <4>2
    <3> HIDE DEF F, G, v, y
    <3>4. Remembered(M[s], w) = [M[s] EXCEPT !.events = Newest(Append(@, w), EventCap)]
      BY <2>9 DEF Remembered
    <3> QED BY <2>1, <2>9, <3>2, <3>3, <3>4
  <2> QED BY <1>2, <2>7, <2>8, <2>9
<1>6. MemoryOf(t) = [s \in Scopes |-> MemoryOf(t)[s]] /\ DOMAIN MemoryOf(t) = Scopes
  BY <1>4
<1>7. M = [s \in Scopes |-> M[s]] /\ DOMAIN M = Scopes
  BY <1>3
<1>8. MemoryOf(t) = [M EXCEPT ![w.scope] = Remembered(M[w.scope], w)]
  BY <1>2, <1>5, <1>6, <1>7
<1> QED BY <1>8 DEF t, M

\* A journal without writes stands for an empty memory.
LEMMA EmptyJournal == MemoryOf(<<>>) = EmptyMemory
<1>1. \A s, k : LastValue(<<>>, s, k) = 0
  BY DEF LastValue
<1>2. \A s : Newest(Picked(<<>>, EventsOf(<<>>, s)), EventCap) = <<>>
  <2> SUFFICES ASSUME NEW s
               PROVE  Newest(Picked(<<>>, EventsOf(<<>>, s)), EventCap) = <<>>
    OBVIOUS
  <2>1. EventsOf(<<>>, s) = DOMAIN <<>>
    BY DEF EventsOf
  <2>2. <<>> \in Seq(Payloads) /\ Len(<<>>) = 0
    OBVIOUS
  <2>3. Picked(<<>>, DOMAIN <<>>) = <<>>
    BY <2>2, PickedAll
  <2>4. Newest(<<>>, EventCap) \in Seq(Payloads) /\ Len(Newest(<<>>, EventCap)) = 0
    <3>1. Dropped(<<>>, EventCap) = 0 /\ EventCap \in Nat
      BY <2>2, EventCapAssumption DEF Dropped
    <3>2. /\ Newest(<<>>, EventCap) \in Seq(Payloads)
          /\ Len(Newest(<<>>, EventCap)) = Len(<<>>) - Dropped(<<>>, EventCap)
      BY <2>2, <3>1, NewestOf, Zenon
    <3> QED BY <2>2, <3>1, <3>2
  <2> QED BY <2>1, <2>3, <2>4, EmptySeq
<1> QED BY <1>1, <1>2 DEF MemoryOf, EmptyMemory, EmptyScope

-----------------------------------------------------------------------------
(* The memory of a room.                                                   *)

\* Journals hold writes, and memories are what they stand for.
MemoryInv ==
    /\ journal \in [Processes -> Seq(Payloads)]
    /\ live = [p \in Processes |-> MemoryOf(journal[p])]

\* What each action does to journals and memories.
Writes(p) ==
    /\ journal' = [journal EXCEPT ![p] = Append(@, NextWrite(p))]
    /\ live' = [live EXCEPT ![p][NextWrite(p).scope] =
                   Remembered(live[p][NextWrite(p).scope], NextWrite(p))]
Empties(p) ==
    /\ journal' = [journal EXCEPT ![p] = <<>>]
    /\ live' = [live EXCEPT ![p] = EmptyMemory]

\* A step writes, empties or leaves the memory of a process.
LEMMA MemorySteps ==
    ASSUME [Next]_vars
    PROVE  \/ UNCHANGED <<journal, live>>
           \/ \E p \in Processes : Writes(p) \/ Empties(p)
<1>1. CASE UNCHANGED vars
  BY <1>1 DEF vars, roomVars
<1>2. ASSUME NEW p \in Processes, OpenRoom(p) PROVE Empties(p)
  BY <1>2 DEF OpenRoom, Empties
<1>3. ASSUME NEW p \in Processes, NEW saved \in BOOLEAN, Write(p, saved) PROVE Writes(p)
  BY <1>3 DEF Write, ApplyWrite, Writes
<1>4. ASSUME NEW p \in Processes, EndMeeting(p) PROVE UNCHANGED <<journal, live>>
  BY <1>4 DEF EndMeeting
<1>5. ASSUME NEW p \in Processes, Crash(p) PROVE Empties(p)
  BY <1>5 DEF Crash, Empties
<1>6. ASSUME UNCHANGED roomVars PROVE UNCHANGED <<journal, live>>
  BY <1>6 DEF roomVars
<1> QED BY <1>1, <1>2, <1>3, <1>4, <1>5, <1>6 DEF Next

\* Processes start with empty memories.
LEMMA MemoryBegins == Init => MemoryInv
<1> SUFFICES ASSUME Init PROVE MemoryInv
  OBVIOUS
<1>1. /\ journal = [p \in Processes |-> <<>>]
      /\ live = [p \in Processes |-> EmptyMemory]
  BY DEF Init
<1>2. <<>> \in Seq(Payloads)
  OBVIOUS
<1> QED BY <1>1, <1>2, EmptyJournal DEF MemoryInv

\* Every step keeps the memory what its journal stands for.
LEMMA MemoryStep == MemoryInv /\ [Next]_vars => MemoryInv'
<1> SUFFICES ASSUME MemoryInv, [Next]_vars PROVE MemoryInv'
  OBVIOUS
<1>0. /\ journal \in [Processes -> Seq(Payloads)]
      /\ live = [p \in Processes |-> MemoryOf(journal[p])]
  BY DEF MemoryInv
<1>1. CASE UNCHANGED <<journal, live>>
  BY <1>0, <1>1 DEF MemoryInv
<1>2. ASSUME NEW p \in Processes, Writes(p) PROVE MemoryInv'
  <2> DEFINE w == NextWrite(p)
             j == journal[p]
  <2>1. j \in Seq(Payloads) /\ w \in Payloads /\ live[p] = MemoryOf(j)
    BY <1>0, NextWriteOf
  <2>2. /\ journal' = [journal EXCEPT ![p] = Append(j, w)]
        /\ live' = [live EXCEPT ![p][w.scope] = Remembered(live[p][w.scope], w)]
    BY <1>2 DEF Writes
  <2> HIDE DEF w, j
  <2>3. Append(j, w) \in Seq(Payloads)
    BY <2>1, AppendProperties
  <2>4. MemoryOf(Append(j, w)) = [live[p] EXCEPT ![w.scope] = Remembered(live[p][w.scope], w)]
    BY <2>1, MemoryNext
  <2>5. live' = [live EXCEPT ![p] = MemoryOf(Append(j, w))]
    BY <2>2, <2>4
  <2>6. journal' \in [Processes -> Seq(Payloads)]
    BY <1>0, <2>2, <2>3
  <2>7. live' = [q \in Processes |-> MemoryOf(journal'[q])]
    BY <1>0, <2>2, <2>5
  <2> QED BY <2>6, <2>7 DEF MemoryInv
<1>3. ASSUME NEW p \in Processes, Empties(p) PROVE MemoryInv'
  <2>1. journal' = [journal EXCEPT ![p] = <<>>] /\ live' = [live EXCEPT ![p] = MemoryOf(<<>>)]
    BY <1>3, EmptyJournal DEF Empties
  <2>2. <<>> \in Seq(Payloads)
    OBVIOUS
  <2>3. journal' \in [Processes -> Seq(Payloads)]
    BY <1>0, <2>1, <2>2
  <2>4. live' = [q \in Processes |-> MemoryOf(journal'[q])]
    BY <1>0, <2>1
  <2> QED BY <2>3, <2>4 DEF MemoryInv
<1> QED BY <1>1, <1>2, <1>3, MemorySteps

\* The memory invariant of every behaviour.
LEMMA MemoryInvariance == Spec => []MemoryInv
BY MemoryBegins, MemoryStep, PTL DEF Spec

\* The memory that prompts recall is the one the journal stands for: a write
\* to disk that fails is swallowed after the state has changed
\* (RoomMemoryStore.apply_journal_event).
THEOREM MemoryIsTheJournals == Spec => []MemoryFollowsJournal
<1>1. MemoryInv => MemoryFollowsJournal
  BY DEF MemoryInv, MemoryFollowsJournal
<1> QED BY <1>1, MemoryInvariance, PTL

-----------------------------------------------------------------------------
(* The supervisor's plans.                                                 *)

\* The i-th write is of its round, the latest plan is of the round of the
\* last write, and events remembered were written.
RecordInv ==
    \A p \in Processes :
        /\ \A i \in DOMAIN journal[p] : journal[p][i].round = RoundOf(i - 1)
        /\ LatestPlan(live[p]) = IF journal[p] = <<>> THEN 0
                                 ELSE RoundOf(Len(journal[p]) - 1)
        /\ ToSet(live[p]["mas"].events) \subseteq ToSet(journal[p])

\* Nothing is remembered before the first write.
LEMMA EmptyRecord ==
    /\ LatestPlan(EmptyMemory) = 0
    /\ ToSet(EmptyMemory["mas"].events) = {}
<1>1. "mas" \in Scopes /\ "latest_supervisor_plan" \in Keys
  BY DEF Scopes, Keys
<1> QED BY <1>1 DEF LatestPlan, EmptyMemory, EmptyScope, ToSet

\* What a scope remembers after a write: the value of a fact, or one more
\* event of which some may be dropped.
LEMMA RememberedPlan ==
    ASSUME NEW j \in Seq(Payloads), NEW w \in Payloads
    PROVE  /\ LatestPlan(MemoryOf(Append(j, w))) =
                 IF w.kind = "fact" /\ w.scope = "mas" /\ w.name = "latest_supervisor_plan"
                 THEN w.round ELSE LatestPlan(MemoryOf(j))
           /\ ToSet(MemoryOf(Append(j, w))["mas"].events)
                 \subseteq ToSet(MemoryOf(j)["mas"].events) \cup {w}
<1> DEFINE old == MemoryOf(j)
           new == MemoryOf(Append(j, w))
           evs == old["mas"].events
<1>1. new = [old EXCEPT ![w.scope] = Remembered(old[w.scope], w)]
  BY MemoryNext
<1>2. "mas" \in Scopes /\ "latest_supervisor_plan" \in Keys
  BY DEF Scopes, Keys
<1>3. \A t : LatestPlan(MemoryOf(t)) = LastValue(t, "mas", "latest_supervisor_plan")
  BY <1>2 DEF LatestPlan, MemoryOf
<1>4. LatestPlan(new) =
         IF w.kind = "fact" /\ w.scope = "mas" /\ w.name = "latest_supervisor_plan"
         THEN w.round ELSE LatestPlan(old)
  BY <1>3, LastValueNext
<1>5. evs \in Seq(Payloads)
  <2>1. evs = Newest(Picked(j, EventsOf(j, "mas")), EventCap)
    BY <1>2 DEF MemoryOf
  <2>2. Picked(j, EventsOf(j, "mas")) \in Seq(Payloads)
    BY PickedType DEF EventsOf
  <2> QED BY <2>1, <2>2, NewestOf, EventCapAssumption
<1>6. old = [s \in Scopes |-> old[s]] /\ DOMAIN old = Scopes
  BY DEF MemoryOf
<1>7. DOMAIN old["mas"] = {"facts", "events"}
  BY <1>2 DEF MemoryOf
<1>8. CASE w.scope = "mas" /\ w.kind # "fact"
  <2> HIDE DEF old, new
  <2>1. new["mas"].events = Newest(Append(evs, w), EventCap)
    BY <1>1, <1>2, <1>6, <1>7, <1>8 DEF Remembered
  <2> HIDE DEF evs
  <2>2. /\ Append(evs, w) \in Seq(Payloads)
        /\ DOMAIN Append(evs, w) = DOMAIN evs \cup {Len(evs) + 1}
        /\ \A i \in DOMAIN evs : Append(evs, w)[i] = evs[i]
        /\ Append(evs, w)[Len(evs) + 1] = w
    BY <1>5, AppendPlaces
  <2>3. ToSet(Append(evs, w)) \subseteq ToSet(evs) \cup {w}
    BY <2>2 DEF ToSet
  <2>4. ToSet(Newest(Append(evs, w), EventCap)) \subseteq ToSet(Append(evs, w))
    <3> DEFINE u == Append(evs, w)
               v == Newest(u, EventCap)
               d == Dropped(u, EventCap)
    <3>1. EventCap \in Nat /\ u \in Seq(Payloads)
      BY <2>2, EventCapAssumption
    <3> HIDE DEF u
    <3>2. /\ v \in Seq(Payloads)
          /\ Len(v) = Len(u) - d
          /\ \A i \in 1..(Len(u) - d) : d + i \in 1..Len(u) /\ v[i] = u[d + i]
      BY <3>1, NewestOf, Zenon
    <3> HIDE DEF v, d
    <3>3. DOMAIN v = 1..(Len(u) - d) /\ DOMAIN u = 1..Len(u)
      BY <3>1, <3>2
    <3>4. ToSet(v) \subseteq ToSet(u)
      BY <3>2, <3>3 DEF ToSet
    <3> QED BY <3>4 DEF u, v
  <2>5. ToSet(new["mas"].events) \subseteq ToSet(evs) \cup {w}
    BY <2>1, <2>3, <2>4
  <2> QED BY <1>4, <2>5 DEF old, new, evs
<1>9. CASE ~(w.scope = "mas" /\ w.kind # "fact")
  <2> HIDE DEF old, new
  <2>1. new["mas"].events = evs
    BY <1>1, <1>2, <1>6, <1>7, <1>9 DEF Remembered
  <2> QED BY <1>4, <2>1 DEF old, new
<1> QED BY <1>8, <1>9

\* Processes start without plans.
LEMMA RecordBegins == Init => RecordInv
<1> SUFFICES ASSUME Init, NEW p \in Processes
             PROVE  /\ \A i \in DOMAIN journal[p] : journal[p][i].round = RoundOf(i - 1)
                    /\ LatestPlan(live[p]) = IF journal[p] = <<>> THEN 0
                                             ELSE RoundOf(Len(journal[p]) - 1)
                    /\ ToSet(live[p]["mas"].events) \subseteq ToSet(journal[p])
  BY DEF RecordInv
<1>1. journal[p] = <<>> /\ live[p] = EmptyMemory
  BY DEF Init
<1> QED BY <1>1, EmptyRecord

\* Every step keeps the record of plans.
LEMMA RecordStep == MemoryInv /\ RecordInv /\ [Next]_vars => RecordInv'
<1> SUFFICES ASSUME MemoryInv, RecordInv, [Next]_vars PROVE RecordInv'
  OBVIOUS
<1>0. /\ journal \in [Processes -> Seq(Payloads)]
      /\ live = [p \in Processes |-> MemoryOf(journal[p])]
  BY DEF MemoryInv
<1> DEFINE Recorded(j, m) ==
               /\ \A i \in DOMAIN j : j[i].round = RoundOf(i - 1)
               /\ LatestPlan(m) = IF j = <<>> THEN 0 ELSE RoundOf(Len(j) - 1)
               /\ ToSet(m["mas"].events) \subseteq ToSet(j)
<1>1. \A p \in Processes : Recorded(journal[p], live[p])
  BY DEF RecordInv
<1>2. SUFFICES ASSUME NEW q \in Processes PROVE Recorded(journal'[q], live'[q])
  <2>1. \A q \in Processes : LatestPlan(live[q])' = LatestPlan(live'[q])
    BY DEF LatestPlan
  <2> QED BY <1>2, <2>1 DEF RecordInv
<1> HIDE DEF Recorded
<1>3. CASE UNCHANGED <<journal, live>>
  BY <1>1, <1>3
<1>4. ASSUME NEW p \in Processes, Empties(p) PROVE Recorded(journal'[q], live'[q])
  <2>1. Recorded(<<>>, EmptyMemory)
    BY EmptyRecord DEF Recorded
  <2>2. CASE q = p
    <3>1. journal'[q] = <<>> /\ live'[q] = EmptyMemory
      BY <1>0, <1>4, <2>2 DEF Empties
    <3> QED BY <2>1, <3>1
  <2>3. CASE q # p
    <3>1. journal'[q] = journal[q] /\ live'[q] = live[q]
      BY <1>0, <1>4, <2>3 DEF Empties
    <3> QED BY <1>1, <3>1
  <2> QED BY <2>2, <2>3
<1>5. ASSUME NEW p \in Processes, Writes(p) PROVE Recorded(journal'[q], live'[q])
  <2>1. MemoryInv'
    BY MemoryStep
  <2>2. CASE q # p
    <3>1. journal'[q] = journal[q]
      BY <1>0, <1>5, <2>2 DEF Writes
    <3>2. live'[q] = live[q]
      BY <1>0, <2>1, <3>1 DEF MemoryInv
    <3> QED BY <1>1, <3>1, <3>2
  <2>3. CASE q = p
    <3> DEFINE j == journal[p]
               w == NextWrite(p)
               n == Len(j)
               t == Append(j, w)
               a == MemoryOf(j)
               b == MemoryOf(t)
    <3>1. /\ j \in Seq(Payloads) /\ w \in Payloads /\ w.round = RoundOf(n)
          /\ \/ w = Fact("mas", "latest_supervisor_plan", RoundOf(n))
             \/ /\ n # 0
                /\ RoundOf(n) = RoundOf(n - 1)
                /\ ~(w.kind = "fact" /\ w.name = "latest_supervisor_plan")
      BY <1>0, NextWriteOf
    <3>2. journal'[q] = t /\ live'[q] = b /\ live[p] = a
      <4>1. journal'[q] = t
        BY <1>0, <1>5, <2>3 DEF Writes
      <4> QED BY <1>0, <2>1, <4>1 DEF MemoryInv
    <3> HIDE DEF w, j
    <3>3. /\ t \in Seq(Payloads)
          /\ DOMAIN t = DOMAIN j \cup {n + 1}
          /\ \A i \in DOMAIN j : t[i] = j[i]
          /\ t[n + 1] = w
          /\ Len(t) = n + 1 /\ t # <<>>
      BY <3>1, AppendPlaces, AppendProperties
    <3>4. /\ LatestPlan(b) =
                IF w.kind = "fact" /\ w.scope = "mas" /\ w.name = "latest_supervisor_plan"
                THEN w.round ELSE LatestPlan(a)
          /\ ToSet(b["mas"].events) \subseteq ToSet(a["mas"].events) \cup {w}
      BY <3>1, RememberedPlan
    <3>5. Recorded(j, a)
      BY <1>1, <3>2 DEF j
    <3>6. n \in Nat /\ n + 1 - 1 = n /\ (n # 0 => j # <<>>)
      BY <3>1
    <3> HIDE DEF n, t, a, b
    <3>7. \A i \in DOMAIN t : t[i].round = RoundOf(i - 1)
      BY <3>1, <3>3, <3>5, <3>6 DEF Recorded
    <3>8. LatestPlan(b) = RoundOf(Len(t) - 1)
      <4>1. Len(t) - 1 = n
        BY <3>3, <3>6
      <4>2. CASE w = Fact("mas", "latest_supervisor_plan", RoundOf(n))
        BY <3>1, <3>4, <4>1, <4>2 DEF Fact
      <4>3. CASE /\ n # 0 /\ RoundOf(n) = RoundOf(n - 1)
                 /\ ~(w.kind = "fact" /\ w.name = "latest_supervisor_plan")
        <5>1. LatestPlan(a) = RoundOf(Len(j) - 1)
          BY <3>5, <3>6, <4>3 DEF Recorded
        <5> QED BY <3>4, <4>1, <4>3, <5>1 DEF n
      <4> QED BY <3>1, <4>2, <4>3
    <3>9. ToSet(b["mas"].events) \subseteq ToSet(t)
      <4>1. ToSet(j) \cup {w} \subseteq ToSet(t)
        BY <3>3 DEF ToSet
      <4> QED BY <3>4, <3>5, <4>1 DEF Recorded
    <3> QED BY <3>2, <3>3, <3>7, <3>8, <3>9 DEF Recorded
  <2> QED BY <2>2, <2>3
<1> QED BY <1>3, <1>4, <1>5, MemorySteps

\* The invariants of the record, of every behaviour.
LEMMA RecordInvariance == Spec => [](MemoryInv /\ RecordInv)
BY MemoryBegins, MemoryStep, RecordBegins, RecordStep, PTL DEF Spec

\* The rounds written go up, so that the last write is of the latest round.
LEMMA LatestRound ==
    ASSUME NEW j \in Seq(Payloads), j # <<>>,
           \A i \in DOMAIN j : j[i].round = RoundOf(i - 1)
    PROVE  Max({w.round : w \in ToSet(j)}) = RoundOf(Len(j) - 1)
<1> DEFINE n == Len(j)
           R == {w.round : w \in ToSet(j)}
<1>1. n \in Nat /\ n >= 1 /\ DOMAIN j = 1..n
  OBVIOUS
<1>2. WritesPerRound = 5
  BY FiveWrites, 0 \in Nat
<1>3. R = {RoundOf(i - 1) : i \in 1..n}
  BY <1>1 DEF ToSet
<1> HIDE DEF n
<1>4. \A i \in 1..n : RoundOf(i - 1) \in Nat /\ RoundOf(i - 1) <= RoundOf(n - 1)
  <2> SUFFICES ASSUME NEW i \in 1..n
               PROVE  RoundOf(i - 1) \in Nat /\ RoundOf(i - 1) <= RoundOf(n - 1)
    OBVIOUS
  <2>1. (i - 1) \div 5 <= (n - 1) \div 5 /\ (i - 1) \div 5 \in Nat /\ (n - 1) \div 5 \in Nat
    BY <1>1
  <2> QED BY <1>2, <2>1 DEF RoundOf
<1>5. n \in 1..n
  BY <1>1
<1>6. RoundOf(n - 1) \in R /\ R \in SUBSET Nat /\ \A r \in R : r <= RoundOf(n - 1)
  BY <1>3, <1>4, <1>5
<1>7. RoundOf(n - 1) \in Nat
  BY <1>4, <1>5
<1> HIDE DEF R
<1>8. Max(R) = RoundOf(n - 1)
  BY <1>6, <1>7, MaxIsLast
<1> QED BY <1>8 DEF R, n

\* The decision record lists the plan of the latest round, though the cap may
\* have dropped its event, and no plan of a round that did not take place
\* (_collect_supervisor_plans).
THEOREM LatestPlanIsRecorded == Spec => []RecordHasTheLatestPlan
<1>1. MemoryInv /\ RecordInv => RecordHasTheLatestPlan
  <2> SUFFICES ASSUME MemoryInv, RecordInv, NEW p \in Processes
               PROVE  LET planned == {w.round : w \in ToSet(journal[p])}
                      IN /\ RecordedPlans(live[p]) \subseteq planned
                         /\ planned # {} => Max(planned) \in RecordedPlans(live[p])
    BY DEF RecordHasTheLatestPlan
  <2> DEFINE j == journal[p]
             m == live[p]
             planned == {w.round : w \in ToSet(j)}
  <2>1. j \in Seq(Payloads)
    BY DEF MemoryInv
  <2>2. /\ \A i \in DOMAIN j : j[i].round = RoundOf(i - 1)
        /\ LatestPlan(m) = IF j = <<>> THEN 0 ELSE RoundOf(Len(j) - 1)
        /\ ToSet(m["mas"].events) \subseteq ToSet(j)
    BY DEF RecordInv
  <2> HIDE DEF j, m
  <2>3. PlanEvents(m) \subseteq planned
    BY <2>2 DEF PlanEvents
  <2>4. CASE j = <<>>
    <3>1. ToSet(j) = {} /\ LatestPlan(m) = 0
      BY <2>2, <2>4 DEF ToSet
    <3> QED BY <2>3, <3>1 DEF RecordedPlans, j, m
  <2>5. CASE j # <<>>
    <3>1. Max(planned) = RoundOf(Len(j) - 1) /\ LatestPlan(m) = RoundOf(Len(j) - 1)
      BY <2>1, <2>2, <2>5, LatestRound
    <3>2. Len(j) \in DOMAIN j /\ Len(j) - 1 \in Nat
      BY <2>1, <2>5
    <3>3. RoundOf(Len(j) - 1) \in planned
      <4>1. j[Len(j)] \in ToSet(j) /\ j[Len(j)].round = RoundOf(Len(j) - 1)
        BY <2>2, <3>2 DEF ToSet
      <4> QED BY <4>1
    <3>4. RoundOf(Len(j) - 1) # 0
      <4>1. WritesPerRound = 5
        BY FiveWrites, 0 \in Nat
      <4>2. (Len(j) - 1) \div 5 \in Nat
        BY <3>2
      <4> QED BY <4>1, <4>2 DEF RoundOf
    <3> HIDE DEF planned
    <3>5. /\ RecordedPlans(m) \subseteq planned
          /\ Max(planned) \in RecordedPlans(m)
      BY <2>3, <3>1, <3>3, <3>4 DEF RecordedPlans
    <3> QED BY <3>5 DEF planned, j, m
  <2> QED BY <2>4, <2>5
<1> QED BY <1>1, RecordInvariance, PTL

-----------------------------------------------------------------------------
(* The lessons, where one process uses the directory.                      *)

OneProcess == \A p, q \in Processes : p = q

\* Lists of lessons: within the cap and from the oldest meeting on.
Aged(s) ==
    /\ Len(s) <= LessonCap
    /\ \A i, j \in 1..Len(s) : i < j => s[i] < s[j]
AgedLists == {s \in Seq(1..MaxMeetings) : Aged(s)}

RoleLists == {s \in Seq(Roles) : s # <<>> /\ Once(s)}
Jobs == [at : {"load", "write", "replace"}, roles : RoleLists, lesson : 1..MaxMeetings]

\* What a process knows of a role's lessons, and who knows which at all.
Known(p, r) == IF cache[p][r] = Unread THEN {} ELSE ToSet(cache[p][r])
Below(r, n) == /\ \A x \in InFile(r) : x < n
               /\ \A p \in Processes : \A x \in Known(p, r) : x < n

\* The roles that are still to get the lesson a process appends.
Pending(p) ==
    {append[p].roles[i] : i \in (IF append[p].at = "load" THEN 1 ELSE 2)..Len(append[p].roles)}

\* s has every lesson of old but those that the cap pushed out.
Follows(s, old) ==
    \A x \in old \ ToSet(s) : Len(s) = LessonCap /\ \A y \in ToSet(s) : y > x

\* Files, caches and jobs are of their kinds.
ShelvesTyped ==
    /\ held \in 0..MaxMeetings
    /\ room \in [Processes -> 0..MaxMeetings]
    /\ cache \in [Processes -> [Roles -> AgedLists \cup {Unread}]]
    /\ lessons \in [Roles -> AgedLists \cup {Absent}]
    /\ DOMAIN scratch = Roles
    /\ append \in [Processes -> Jobs \cup {Idle}]

\* A lesson is of a meeting that was held, and newer than what the role has.
LessonsNumbered ==
    /\ \A r \in Roles : Below(r, held + 1)
    /\ \A p \in Processes : room[p] # 0 =>
          room[p] = held /\ IsIdle(p) /\ \A r \in Roles : Below(r, held)
    /\ \A p \in Processes : ~IsIdle(p) =>
          append[p].lesson <= held /\ \A r \in Pending(p) : Below(r, append[p].lesson)

\* What is about to become a file is what the cache has.
AppendsStaged ==
    \A p \in Processes : ~IsIdle(p) /\ append[p].at # "load" =>
        /\ cache[p][Appending(p)] # Unread
        /\ append[p].at = "replace" => scratch[Appending(p)] = cache[p][Appending(p)]

\* A cache continues the file behind it.
CachesFollow ==
    \A p \in Processes : \A r \in Roles :
        cache[p][r] # Unread => Follows(cache[p][r], InFile(r))

LessonsInv == ShelvesTyped /\ LessonsNumbered /\ AppendsStaged /\ CachesFollow

\* No list is one of the markers.
LEMMA ListsAreNoMarkers ==
    ASSUME NEW s \in AgedLists
    PROVE  s \in Seq(1..MaxMeetings) /\ s \in Seq(Nat) /\ Aged(s)
           /\ s # Absent /\ s # Torn /\ s # Unread
<1>1. s \in Seq(1..MaxMeetings) /\ Aged(s)
  BY DEF AgedLists
<1>2. s \in Seq(Nat)
  <2>1. \A i \in 1..Len(s) : s[i] \in Nat
    <3>1. \A i \in 1..Len(s) : s[i] \in 1..MaxMeetings
      BY <1>1, ElementOfSeq
    <3> QED BY <3>1
  <2>2. s = [i \in 1..Len(s) |-> s[i]] /\ Len(s) \in Nat
    BY <1>1, LenProperties
  <2>3. s \in [1..Len(s) -> Nat]
    BY <2>1, <2>2
  <2> QED BY <2>2, <2>3, SeqDef
<1> QED BY <1>1, <1>2, MarkersAssumption

\* An aged list has as many lessons as entries.
LEMMA AgedCardinality ==
    ASSUME NEW s \in AgedLists
    PROVE  IsFiniteSet(ToSet(s)) /\ Cardinality(ToSet(s)) = Len(s)
<1> DEFINE n == Len(s)
           T == ToSet(s)
<1>1. /\ s \in Seq(1..MaxMeetings) /\ n \in Nat /\ DOMAIN s = 1..n
      /\ \A i, j \in 1..n : i < j => s[i] < s[j]
  BY DEF AgedLists, Aged
<1>2. \A i \in 1..n : s[i] \in Int
  <2>1. \A i \in 1..n : s[i] \in 1..MaxMeetings
    BY <1>1, ElementOfSeq
  <2> QED BY <2>1
<1>3. T = {s[i] : i \in 1..n}
  BY <1>1 DEF ToSet
<1>4. s = [i \in 1..n |-> s[i]]
  BY <1>1, LenProperties
<1> HIDE DEF n, T
<1>5. s \in [1..n -> T]
  BY <1>3, <1>4
<1>6. \A i, j \in 1..n : s[i] = s[j] => i = j
  <2> SUFFICES ASSUME NEW i \in 1..n, NEW j \in 1..n, s[i] = s[j] PROVE i = j
    OBVIOUS
  <2>1. ~(i < j) /\ ~(j < i)
    BY <1>1, <1>2
  <2> QED BY <1>1, <2>1
<1>7. s \in Bijection(1..n, T)
  BY <1>3, <1>5, <1>6 DEF Bijection, Injection, Surjection, IsInjective
<1>8. ExistsBijection(1..n, T)
  BY <1>7 DEF ExistsBijection
<1>9. IsFiniteSet(1..n) /\ Cardinality(1..n) = n
  BY <1>1, InOrderInterval, FS_Interval
<1> QED BY <1>8, <1>9, FS_Bijection DEF n, T

\* A list of lessons, one lesson later.
Newer(s, x) == Newest(Append(s, x), LessonCap)

\* A newer lesson at the end of a list, and the cap: what leaves is older
\* than all that stays, and the list is full.
LEMMA NewestLessons ==
    ASSUME NEW s \in AgedLists, NEW x \in 1..MaxMeetings, \A y \in ToSet(s) : y < x
    PROVE  /\ Newer(s, x) \in AgedLists
           /\ ToSet(Newer(s, x)) \subseteq ToSet(s) \cup {x}
           /\ Len(s) = LessonCap => Len(Newer(s, x)) = LessonCap
           /\ Follows(Newer(s, x), ToSet(s))
<1> DEFINE l == Len(s)
           t == Append(s, x)
           N == Newest(t, LessonCap)
           d == Dropped(t, LessonCap)
           X == 1..MaxMeetings
<1>1. /\ s \in Seq(X) /\ l \in Nat /\ l <= LessonCap /\ DOMAIN s = 1..l
      /\ \A i, j \in 1..l : i < j => s[i] < s[j]
      /\ LessonCap \in Nat /\ LessonCap >= 1
  BY LessonCapAssumption DEF AgedLists, Aged
<1>2. \A i \in 1..l : s[i] < x
  BY <1>1 DEF ToSet
<1> HIDE DEF X
<1>3. /\ t \in Seq(X) /\ Len(t) = l + 1 /\ t[l + 1] = x
      /\ \A i \in 1..l : t[i] = s[i]
  BY <1>1, AppendProperties DEF X
<1> HIDE DEF t
<1>4. /\ N \in Seq(X)
      /\ Len(N) = Len(t) - d
      /\ \A i \in 1..(Len(t) - d) : d + i \in 1..Len(t) /\ N[i] = t[d + i]
  <2>1. LessonCap \in Nat /\ t \in Seq(X)
    BY <1>1, <1>3
  <2> QED BY <2>1, NewestOf, Zenon
<1>5. d = IF l + 1 > LessonCap THEN l + 1 - LessonCap ELSE 0
  BY <1>1, <1>3 DEF Dropped
<1> HIDE DEF N, d, l
<1>6. d \in Nat /\ d <= l + 1 /\ l + 1 - d <= LessonCap
      /\ (d > 0 => l + 1 - d = LessonCap)
  BY <1>1, <1>5
<1>7. /\ Len(N) = l + 1 - d /\ DOMAIN N = 1..(l + 1 - d)
      /\ \A i \in 1..(l + 1 - d) : d + i \in 1..(l + 1) /\ N[i] = t[d + i]
  BY <1>1, <1>3, <1>4, <1>6
<1>8. \A i, j \in 1..(l + 1) : i < j => t[i] < t[j]
  <2> SUFFICES ASSUME NEW i \in 1..(l + 1), NEW j \in 1..(l + 1), i < j PROVE t[i] < t[j]
    OBVIOUS
  <2>1. i \in 1..l /\ (j \in 1..l \/ j = l + 1)
    BY <1>1
  <2> QED BY <1>1, <1>2, <1>3, <2>1
<1>9. \A i, j \in 1..(l + 1 - d) : i < j => N[i] < N[j]
  <2> SUFFICES ASSUME NEW i \in 1..(l + 1 - d), NEW j \in 1..(l + 1 - d), i < j
               PROVE  N[i] < N[j]
    OBVIOUS
  <2>1. d + i \in 1..(l + 1) /\ d + j \in 1..(l + 1) /\ d + i < d + j
    BY <1>6, <1>7
  <2> QED BY <1>7, <1>8, <2>1
<1>10. N \in AgedLists
  BY <1>4, <1>6, <1>7, <1>9 DEF AgedLists, Aged, X
<1>11. ToSet(N) \subseteq ToSet(s) \cup {x}
  <2> SUFFICES ASSUME NEW i \in 1..(l + 1 - d) PROVE N[i] \in ToSet(s) \cup {x}
    BY <1>7 DEF ToSet
  <2>1. N[i] = t[d + i] /\ d + i \in 1..(l + 1)
    BY <1>7
  <2>2. d + i \in 1..l \/ d + i = l + 1
    BY <1>1, <2>1
  <2> QED BY <1>1, <1>3, <2>1, <2>2 DEF ToSet
<1>12. l = LessonCap => Len(N) = LessonCap
  BY <1>1, <1>5, <1>7
<1>13. Follows(N, ToSet(s))
  <2> SUFFICES ASSUME NEW i \in 1..l, s[i] \notin ToSet(N)
               PROVE  Len(N) = LessonCap /\ \A k \in 1..(l + 1 - d) : N[k] > s[i]
    BY <1>1, <1>7 DEF Follows, ToSet
  <2>1. i <= d
    <3> SUFFICES ASSUME i > d PROVE FALSE
      BY <1>6
    <3>1. i - d \in 1..(l + 1 - d) /\ d + (i - d) = i
      BY <1>1, <1>6
    <3>2. N[i - d] = s[i]
      BY <1>3, <1>7, <3>1
    <3> QED BY <1>7, <3>1, <3>2 DEF ToSet
  <2>2. Len(N) = LessonCap
    BY <1>6, <1>7, <2>1
  <2>3. ASSUME NEW k \in 1..(l + 1 - d) PROVE N[k] > s[i]
    <3>1. d + k \in 1..(l + 1) /\ N[k] = t[d + k] /\ i \in 1..(l + 1) /\ i < d + k
      BY <1>1, <1>6, <1>7, <2>1
    <3>2. t[i] < t[d + k] /\ t[i] = s[i]
      BY <1>3, <1>8, <3>1
    <3>3. s[i] \in Int /\ t[d + k] \in Int
      <4>1. s[i] \in X /\ t[d + k] \in X
        BY <1>1, <1>3, <3>1
      <4> QED BY <4>1 DEF X
    <3> QED BY <3>1, <3>2, <3>3
  <2> QED BY <2>2, <2>3
<1> QED BY <1>10, <1>11, <1>12, <1>13 DEF Newer, N, t, l

\* What follows a list that followed a file still follows the file.
LEMMA FollowsOn ==
    ASSUME NEW s \in AgedLists, NEW old \in SUBSET Int, Follows(s, old),
           NEW x \in 1..MaxMeetings,
           \A y \in ToSet(s) : y < x, \A y \in old : y < x
    PROVE  Follows(Newer(s, x), old)
<1> DEFINE N == Newer(s, x)
<1>0. /\ N \in AgedLists
      /\ ToSet(N) \subseteq ToSet(s) \cup {x}
      /\ Len(s) = LessonCap => Len(N) = LessonCap
      /\ Follows(N, ToSet(s))
  BY NewestLessons
<1> HIDE DEF N
<1> SUFFICES ASSUME NEW y \in old, y \notin ToSet(N)
             PROVE  Len(N) = LessonCap /\ \A z \in ToSet(N) : z > y
  BY DEF Follows, N
<1>1. CASE y \in ToSet(s)
  BY <1>0, <1>1 DEF Follows
<1>2. CASE y \notin ToSet(s)
  <2>1. Len(s) = LessonCap /\ \A z \in ToSet(s) : z > y
    BY <1>2 DEF Follows
  <2>2. x > y
    BY x \in Int, y \in Int
  <2> QED BY <1>0, <2>1, <2>2
<1> QED BY <1>1, <1>2

\* Lessons that are known, and those in a file, are numbers.
LEMMA LessonsAreNumbers ==
    ASSUME ShelvesTyped, NEW r \in Roles
    PROVE  /\ lessons[r] \in AgedLists => InFile(r) = ToSet(lessons[r])
           /\ lessons[r] \notin AgedLists => InFile(r) = {}
           /\ InFile(r) \in SUBSET Int
           /\ \A p \in Processes : Known(p, r) \in SUBSET Int
           /\ \A p \in Processes : cache[p][r] # Unread => cache[p][r] \in AgedLists
<1>1. \A s \in AgedLists : ToSet(s) \in SUBSET Int
  <2> SUFFICES ASSUME NEW s \in AgedLists PROVE ToSet(s) \in SUBSET Int
    OBVIOUS
  <2>1. s \in Seq(Nat)
    BY ListsAreNoMarkers
  <2>2. \A i \in 1..Len(s) : s[i] \in Nat
    BY <2>1, ElementOfSeq
  <2>3. DOMAIN s = 1..Len(s)
    BY <2>1
  <2> QED BY <2>2, <2>3 DEF ToSet
<1>2. lessons[r] \in AgedLists \/ lessons[r] = Absent
  BY DEF ShelvesTyped
<1>3. lessons[r] \in AgedLists => InFile(r) = ToSet(lessons[r])
  BY ListsAreNoMarkers DEF InFile
<1>4. lessons[r] \notin AgedLists => InFile(r) = {}
  BY <1>2 DEF InFile
<1>5. \A p \in Processes : cache[p][r] = Unread \/ cache[p][r] \in AgedLists
  BY DEF ShelvesTyped
<1>6. \A p \in Processes : Known(p, r) \in SUBSET Int
  BY <1>1, <1>5 DEF Known
<1>7. InFile(r) \in SUBSET Int
  BY <1>1, <1>2, <1>3, <1>4
<1> QED BY <1>3, <1>4, <1>5, <1>6, <1>7

\* What is below a number is below a larger one.
LEMMA BelowMore ==
    ASSUME ShelvesTyped, NEW r \in Roles, NEW m \in Int, NEW n \in Int, m <= n, Below(r, m)
    PROVE  Below(r, n)
<1>1. \A x \in Int : x < m => x < n
  OBVIOUS
<1>2. InFile(r) \in SUBSET Int /\ \A p \in Processes : Known(p, r) \in SUBSET Int
  BY LessonsAreNumbers
<1> QED BY <1>1, <1>2 DEF Below

\* Where nobody learns anything new, what was below a number still is.
LEMMA BelowStays ==
    ASSUME NEW r \in Roles, NEW n, Below(r, n),
           InFile(r)' \subseteq InFile(r) \cup UNION {Known(p, r) : p \in Processes},
           \A p \in Processes : Known(p, r)' \subseteq Known(p, r) \cup InFile(r)
    PROVE  Below(r, n)'
<1>1. \A x \in InFile(r)' : x < n
  BY DEF Below
<1>2. \A p \in Processes : \A x \in Known(p, r)' : x < n
  BY DEF Below
<1> QED BY <1>1, <1>2 DEF Below

\* The first process starts without lessons.
LEMMA LessonsBegin == Init => LessonsInv
<1> SUFFICES ASSUME Init PROVE LessonsInv
  OBVIOUS
<1>1. /\ held = 0
      /\ room = [p \in Processes |-> 0]
      /\ cache = [p \in Processes |-> [r \in Roles |-> Unread]]
      /\ lessons = [r \in Roles |-> Absent]
      /\ scratch = [r \in Roles |-> Absent]
      /\ append = [p \in Processes |-> Idle]
  BY DEF Init, LessonsInit
<1>2. ShelvesTyped
  BY <1>1, MeetingsAssumption DEF ShelvesTyped
<1>3. \A r \in Roles : InFile(r) = {} /\ \A p \in Processes : Known(p, r) = {}
  BY <1>1 DEF InFile, Known
<1>4. LessonsNumbered
  BY <1>1, <1>3 DEF LessonsNumbered, Below, IsIdle
<1>5. AppendsStaged /\ CachesFollow
  BY <1>1 DEF AppendsStaged, CachesFollow, IsIdle
<1> QED BY <1>2, <1>4, <1>5 DEF LessonsInv

\* Nothing about lessons depends on what a room remembers.
LEMMA LessonsStay ==
    ASSUME LessonsInv, UNCHANGED <<held, room, lessonVars>>
    PROVE  LessonsInv'
<1>1. UNCHANGED <<held, room, cache, lessons, scratch, append>>
  BY DEF lessonVars
<1>2. \A r : InFile(r)' = InFile(r)
  BY <1>1 DEF InFile
<1>3. \A p, r : Known(p, r)' = Known(p, r)
  BY <1>1 DEF Known
<1>4. \A p : Pending(p)' = Pending(p) /\ Appending(p)' = Appending(p) /\ IsIdle(p)' = IsIdle(p)
  BY <1>1 DEF Pending, Appending, IsIdle
<1>5. \A r, n : Below(r, n)' <=> Below(r, n)
  BY <1>2, <1>3 DEF Below
<1>6. ShelvesTyped'
  BY <1>1 DEF LessonsInv, ShelvesTyped
<1>7. LessonsNumbered'
  BY <1>1, <1>4, <1>5 DEF LessonsInv, LessonsNumbered
<1>8. AppendsStaged'
  BY <1>1, <1>4 DEF LessonsInv, AppendsStaged
<1>9. CachesFollow'
  BY <1>1, <1>2 DEF LessonsInv, CachesFollow
<1> QED BY <1>6, <1>7, <1>8, <1>9 DEF LessonsInv

\* A new room is of a meeting newer than all lessons.
LEMMA LessonsOpen ==
    ASSUME OneProcess, LessonsInv, NEW p \in Processes, OpenRoom(p)
    PROVE  LessonsInv'
<1>1. /\ IsIdle(p) /\ held < MaxMeetings
      /\ held' = held + 1
      /\ room' = [room EXCEPT ![p] = held']
      /\ UNCHANGED <<cache, lessons, scratch, append>>
  BY DEF OpenRoom, lessonVars
<1>2. ShelvesTyped /\ LessonsNumbered /\ AppendsStaged /\ CachesFollow
  BY DEF LessonsInv
<1>3. held \in Nat /\ held + 1 \in 0..MaxMeetings
  BY <1>1, <1>2, MeetingsAssumption DEF ShelvesTyped
<1>4. \A r : InFile(r)' = InFile(r)
  BY <1>1 DEF InFile
<1>5. \A q, r : Known(q, r)' = Known(q, r)
  BY <1>1 DEF Known
<1>6. \A q : Appending(q)' = Appending(q) /\ IsIdle(q)' = IsIdle(q)
  BY <1>1 DEF Appending, IsIdle
<1>7. \A r, n : Below(r, n)' <=> Below(r, n)
  BY <1>4, <1>5 DEF Below
<1>8. ShelvesTyped'
  BY <1>1, <1>2, <1>3 DEF ShelvesTyped
<1>9. LessonsNumbered'
  <2>1. \A q \in Processes : q = p
    BY DEF OneProcess
  <2>2. \A r \in Roles : Below(r, held + 1)
    BY <1>2 DEF LessonsNumbered
  <2>3. \A r \in Roles : Below(r, held + 1 + 1)
    BY <1>2, <1>3, <2>2, BelowMore
  <2>4. IsIdle(p)' /\ room'[p] = held'
    BY <1>1, <1>2, <1>6 DEF ShelvesTyped
  <2>5. \A r \in Roles : Below(r, held)' /\ Below(r, held + 1)'
    BY <1>1, <1>7, <2>2, <2>3
  <2> QED BY <2>1, <2>4, <2>5 DEF LessonsNumbered
<1>10. AppendsStaged'
  BY <1>1, <1>2, <1>6 DEF AppendsStaged
<1>11. CachesFollow'
  BY <1>1, <1>2, <1>4 DEF CachesFollow
<1> QED BY <1>8, <1>9, <1>10, <1>11 DEF LessonsInv

\* Speakers are a list of roles without repeats.
LEMMA SpeakersAreRoles ==
    ASSUME NEW s \in Speakers
    PROVE  s \in RoleLists
<1>1. Cardinality(Roles) \in Nat
  BY RolesAssumption, FS_CardinalityType
<1>2. PICK n \in 1..Cardinality(Roles) : s \in [1..n -> Roles]
  BY DEF Speakers
<1>3. n \in Nat /\ n # 0
  BY <1>1
<1>4. s \in Seq(Roles) /\ Len(s) = n
  BY <1>2, <1>3, SeqDef
<1>5. \A i, j \in 1..Len(s) : s[i] = s[j] => i = j
  BY <1>2, <1>4 DEF Speakers
<1>6. s # <<>>
  BY <1>3, <1>4
<1> QED BY <1>4, <1>5, <1>6 DEF RoleLists, Once

\* The meeting that ends leaves its lesson to be appended, or none.
LEMMA LessonsEnd ==
    ASSUME OneProcess, LessonsInv, NEW p \in Processes, EndMeeting(p)
    PROVE  LessonsInv'
<1>1. /\ room[p] # 0 /\ IsIdle(p)
      /\ room' = [room EXCEPT ![p] = 0]
      /\ UNCHANGED <<held, cache, lessons, scratch>>
      /\ \/ UNCHANGED append
         \/ \E s \in Speakers :
               append' = [append EXCEPT ![p] = [at |-> "load", roles |-> s, lesson |-> room[p]]]
  BY DEF EndMeeting, StartAppending, lessonVars
<1>2. ShelvesTyped /\ LessonsNumbered /\ AppendsStaged /\ CachesFollow
  BY DEF LessonsInv
<1>3. \A q \in Processes : q = p
  BY DEF OneProcess
<1>4. \A r : InFile(r)' = InFile(r)
  BY <1>1 DEF InFile
<1>5. \A q, r : Known(q, r)' = Known(q, r)
  BY <1>1 DEF Known
<1>6. \A r, n : Below(r, n)' <=> Below(r, n)
  BY <1>4, <1>5 DEF Below
<1>7. room'[p] = 0 /\ room' \in [Processes -> 0..MaxMeetings]
  BY <1>1, <1>2, MeetingsAssumption DEF ShelvesTyped
<1>8. room[p] = held /\ held \in 1..MaxMeetings /\ \A r \in Roles : Below(r, held)
  BY <1>1, <1>2 DEF LessonsNumbered, ShelvesTyped
<1>9. CASE UNCHANGED append
  <2>1. IsIdle(p)'
    BY <1>1, <1>9 DEF IsIdle
  <2>2. ShelvesTyped'
    BY <1>1, <1>2, <1>7, <1>9 DEF ShelvesTyped
  <2>3. LessonsNumbered'
    BY <1>1, <1>2, <1>3, <1>6, <1>7, <2>1 DEF LessonsNumbered
  <2>4. AppendsStaged'
    BY <1>3, <2>1 DEF AppendsStaged
  <2>5. CachesFollow'
    BY <1>1, <1>2, <1>4 DEF CachesFollow
  <2> QED BY <2>2, <2>3, <2>4, <2>5 DEF LessonsInv
<1>10. ASSUME NEW s \in Speakers,
              append' = [append EXCEPT ![p] = [at |-> "load", roles |-> s, lesson |-> room[p]]]
       PROVE  LessonsInv'
  <2>1. append'[p] = [at |-> "load", roles |-> s, lesson |-> held]
    BY <1>2, <1>8, <1>10 DEF ShelvesTyped
  <2>2. append'[p] \in Jobs
    BY <1>8, <2>1, SpeakersAreRoles DEF Jobs
  <2>3. ShelvesTyped'
    BY <1>1, <1>2, <1>7, <1>10, <2>1, <2>2 DEF ShelvesTyped
  <2>4. append'[p].at = "load" /\ append'[p].lesson = held /\ append'[p].roles = s
    BY <2>1
  <2>5. Pending(p)' \subseteq Roles
    <3>1. s \in Seq(Roles)
      BY SpeakersAreRoles DEF RoleLists
    <3> QED BY <2>4, <3>1, ElementOfSeq DEF Pending
  <2>6. LessonsNumbered'
    BY <1>1, <1>2, <1>3, <1>6, <1>7, <1>8, <2>4, <2>5 DEF LessonsNumbered
  <2>7. AppendsStaged'
    BY <1>3, <2>4 DEF AppendsStaged
  <2>8. CachesFollow'
    BY <1>1, <1>2, <1>4 DEF CachesFollow
  <2> QED BY <2>3, <2>6, <2>7, <2>8 DEF LessonsInv
<1> QED BY <1>1, <1>9, <1>10

\* A load answers what the cache has or else the file, and follows the file.
LEMMA LoadAnswers ==
    ASSUME ShelvesTyped, CachesFollow, NEW p \in Processes, NEW r \in Roles
    PROVE  /\ Load(p, r) \in AgedLists
           /\ ToSet(Load(p, r)) \subseteq InFile(r) \cup Known(p, r)
           /\ Follows(Load(p, r), InFile(r))
<1>1. lessons[r] \in AgedLists \/ lessons[r] = Absent
  BY DEF ShelvesTyped
<1>2. <<>> \in AgedLists /\ ToSet(<<>>) = {}
  BY LessonCapAssumption DEF AgedLists, Aged, ToSet
<1>3. CASE cache[p][r] # Unread
  <2>1. Load(p, r) = cache[p][r] /\ Known(p, r) = ToSet(cache[p][r])
    BY <1>3 DEF Load, Known
  <2> QED BY <1>3, <2>1, LessonsAreNumbers DEF CachesFollow
<1>4. CASE cache[p][r] = Unread /\ lessons[r] \in AgedLists
  <2>1. Load(p, r) = lessons[r] /\ InFile(r) = ToSet(lessons[r])
    BY <1>4, ListsAreNoMarkers DEF Load, InFile
  <2> QED BY <1>4, <2>1 DEF Follows
<1>5. CASE cache[p][r] = Unread /\ lessons[r] = Absent
  <2>1. Load(p, r) = <<>> /\ InFile(r) = {}
    BY <1>5 DEF Load, InFile
  <2> QED BY <1>2, <2>1 DEF Follows
<1> QED BY <1>1, <1>3, <1>4, <1>5

\* Lessons that are recalled fill the cache from the file.
LEMMA LessonsRecalled ==
    ASSUME OneProcess, LessonsInv, NEW p \in Processes, NEW r \in Roles,
           Recent(p, r), UNCHANGED roomVars
    PROVE  LessonsInv'
<1>1. /\ IsIdle(p) /\ cache[p][r] = Unread
      /\ cache' = [cache EXCEPT ![p][r] = Load(p, r)]
      /\ UNCHANGED <<held, room, lessons, scratch, append>>
  BY DEF Recent, roomVars
<1>2. ShelvesTyped /\ LessonsNumbered /\ AppendsStaged /\ CachesFollow
  BY DEF LessonsInv
<1>3. \A q \in Processes : q = p
  BY DEF OneProcess
<1>4. /\ Load(p, r) \in AgedLists
      /\ ToSet(Load(p, r)) \subseteq InFile(r) \cup Known(p, r)
      /\ Follows(Load(p, r), InFile(r))
  BY <1>2, LoadAnswers
<1>5. /\ cache' \in [Processes -> [Roles -> AgedLists \cup {Unread}]]
      /\ cache'[p][r] = Load(p, r)
      /\ \A x \in Roles : x # r => cache'[p][x] = cache[p][x]
  BY <1>1, <1>2, <1>4 DEF ShelvesTyped
<1>6. \A x : InFile(x)' = InFile(x)
  BY <1>1 DEF InFile
<1>7. \A x \in Roles : Known(p, x)' \subseteq Known(p, x) \cup InFile(x)
  BY <1>4, <1>5 DEF Known
<1>8. \A x \in Roles : \A n : Below(x, n) => Below(x, n)'
  BY <1>3, <1>6, <1>7, BelowStays
<1>9. \A q : IsIdle(q)' = IsIdle(q)
  BY <1>1 DEF IsIdle
<1>10. ShelvesTyped'
  BY <1>1, <1>2, <1>5 DEF ShelvesTyped
<1>11. LessonsNumbered'
  BY <1>1, <1>2, <1>3, <1>8, <1>9 DEF LessonsNumbered
<1>12. AppendsStaged'
  BY <1>1, <1>3, <1>9 DEF AppendsStaged
<1>13. CachesFollow'
  BY <1>2, <1>3, <1>4, <1>5, <1>6 DEF CachesFollow
<1> QED BY <1>10, <1>11, <1>12, <1>13 DEF LessonsInv

\* The rest of a list has what is at its places from the second on.
LEMMA TailPlaces ==
    ASSUME NEW s \in RoleLists
    PROVE  ToSet(Tail(s)) = {s[i] : i \in 2..Len(s)}
<1>0. s \in Seq(Roles) /\ Len(s) \in Nat /\ Len(s) # 0
  BY DEF RoleLists
<1>1. /\ Tail(s) \in Seq(Roles) /\ Len(Tail(s)) = Len(s) - 1
      /\ \A i \in 1..(Len(s) - 1) : Tail(s)[i] = s[i + 1]
  BY <1>0, HeadTailProperties
<1>2. ToSet(Tail(s)) = {s[i + 1] : i \in 1..(Len(s) - 1)}
  <2>1. DOMAIN Tail(s) = 1..(Len(s) - 1)
    BY <1>0, <1>1
  <2>2. ToSet(Tail(s)) = {Tail(s)[i] : i \in 1..(Len(s) - 1)}
    BY <2>1 DEF ToSet
  <2> QED BY <1>1, <2>2
<1>3. \A i \in 2..Len(s) : i - 1 \in 1..(Len(s) - 1) /\ (i - 1) + 1 = i
  BY <1>0
<1>4. \A i \in 1..(Len(s) - 1) : i + 1 \in 2..Len(s)
  BY <1>0
<1> QED BY <1>2, <1>3, <1>4

\* What a process at work on an append has in hand.
LEMMA AtWork ==
    ASSUME OneProcess, LessonsInv, NEW p \in Processes, ~IsIdle(p)
    PROVE  /\ append[p] \in Jobs
           /\ append[p].roles \in RoleLists
           /\ Appending(p) \in Roles
           /\ Appending(p) = append[p].roles[1]
           /\ room[p] = 0
           /\ append[p].lesson \in 1..MaxMeetings /\ append[p].lesson <= held
           /\ append[p].at = "load" =>
                 Pending(p) = ToSet(append[p].roles)
           /\ append[p].at # "load" =>
                 Pending(p) = ToSet(Tail(append[p].roles))
<1> DEFINE s == append[p].roles
<1>1. append[p] \in Jobs
  BY DEF LessonsInv, ShelvesTyped, IsIdle
<1>2. s \in RoleLists /\ append[p].lesson \in 1..MaxMeetings
  BY <1>1 DEF Jobs
<1>3. /\ s \in Seq(Roles) /\ Len(s) \in Nat /\ Len(s) # 0 /\ DOMAIN s = 1..Len(s)
  BY <1>2 DEF RoleLists
<1>4. Appending(p) = s[1] /\ s[1] \in Roles
  BY <1>3, ElementOfSeq DEF Appending
<1>5. room[p] = 0 /\ append[p].lesson <= held
  BY DEF LessonsInv, LessonsNumbered
<1>6. Pending(p) = {s[i] : i \in (IF append[p].at = "load" THEN 1 ELSE 2)..Len(s)}
  BY DEF Pending
<1> HIDE DEF s
<1>7. ToSet(s) = {s[i] : i \in 1..Len(s)}
  BY <1>3 DEF ToSet
<1>8. ToSet(Tail(s)) = {s[i] : i \in 2..Len(s)}
  BY <1>2, TailPlaces DEF s
<1> QED BY <1>1, <1>2, <1>4, <1>5, <1>6, <1>7, <1>8 DEF s

\* A role is appended once: it is not among those that follow.
LEMMA AppendedOnce ==
    ASSUME NEW s \in RoleLists
    PROVE  /\ s[1] \notin ToSet(Tail(s))
           /\ ToSet(Tail(s)) \subseteq Roles
           /\ ToSet(Tail(s)) \subseteq ToSet(s) /\ s[1] \in ToSet(s)
           /\ Len(s) # 1 => Tail(s) \in RoleLists
<1>1. /\ s \in Seq(Roles) /\ Len(s) \in Nat /\ Len(s) # 0 /\ DOMAIN s = 1..Len(s)
      /\ \A i, j \in 1..Len(s) : s[i] = s[j] => i = j
  BY DEF RoleLists, Once
<1>2. /\ Tail(s) \in Seq(Roles) /\ Len(Tail(s)) = Len(s) - 1
      /\ \A i \in 1..(Len(s) - 1) : Tail(s)[i] = s[i + 1]
      /\ DOMAIN Tail(s) = 1..(Len(s) - 1)
  BY <1>1, HeadTailProperties
<1>3. \A i \in 1..(Len(s) - 1) : i + 1 \in 1..Len(s) /\ i + 1 # 1
  BY <1>1
<1>4. s[1] \notin ToSet(Tail(s)) /\ ToSet(Tail(s)) \subseteq ToSet(s)
  BY <1>1, <1>2, <1>3 DEF ToSet
<1>5. ToSet(Tail(s)) \subseteq Roles
  BY <1>2, ElementOfSeq DEF ToSet
<1>6. s[1] \in ToSet(s)
  BY <1>1 DEF ToSet
<1>7. Once(Tail(s))
  <2> SUFFICES ASSUME NEW i \in 1..(Len(s) - 1), NEW j \in 1..(Len(s) - 1),
                      Tail(s)[i] = Tail(s)[j]
               PROVE  i = j
    BY <1>2 DEF Once
  <2>1. i + 1 = j + 1
    BY <1>1, <1>2, <1>3
  <2> QED BY <2>1
<1>8. Len(s) # 1 => Tail(s) # <<>>
  BY <1>1, <1>2
<1> QED BY <1>2, <1>4, <1>5, <1>6, <1>7, <1>8 DEF RoleLists

\* The cache has the lesson first: the newest of what the role has.
LEMMA LessonsCached ==
    ASSUME OneProcess, LessonsInv, NEW p \in Processes, AppendToCache(p), UNCHANGED roomVars,
           NEW r, r = Appending(p), NEW x, x = append[p].lesson
    PROVE  LessonsInv'
<1> DEFINE L == Load(p, r)
           N == Newer(L, x)
<1>1. /\ append[p].at = "load"
      /\ cache' = [cache EXCEPT ![p][r] = N]
      /\ append' = [append EXCEPT ![p].at = "write"]
      /\ UNCHANGED <<held, room, lessons, scratch>>
  BY DEF AppendToCache, roomVars, Newer
<1>2. ShelvesTyped /\ LessonsNumbered /\ AppendsStaged /\ CachesFollow
  BY DEF LessonsInv
<1>3. \A q \in Processes : q = p
  BY DEF OneProcess
<1>4. ~IsIdle(p)
  BY <1>1 DEF IsIdle, Idle
<1>5. /\ append[p] \in Jobs /\ append[p].roles \in RoleLists
      /\ r \in Roles /\ r = append[p].roles[1]
      /\ room[p] = 0
      /\ x \in 1..MaxMeetings /\ x <= held
      /\ Pending(p) = ToSet(append[p].roles)
  BY <1>1, <1>4, AtWork
<1>6. r \in Pending(p) /\ \A y \in Pending(p) : Below(y, x)
  BY <1>2, <1>4, <1>5, AppendedOnce DEF LessonsNumbered
<1>7. /\ L \in AgedLists
      /\ ToSet(L) \subseteq InFile(r) \cup Known(p, r)
      /\ Follows(L, InFile(r))
  BY <1>2, <1>5, LoadAnswers
<1> HIDE DEF L
<1>8. (\A y \in ToSet(L) : y < x) /\ (\A y \in InFile(r) : y < x)
  BY <1>6, <1>7 DEF Below
<1>9. N \in AgedLists /\ ToSet(N) \subseteq ToSet(L) \cup {x} /\ Follows(N, InFile(r))
  <2>1. InFile(r) \in SUBSET Int
    BY <1>2, <1>5, LessonsAreNumbers
  <2> QED BY <1>5, <1>7, <1>8, <2>1, NewestLessons, FollowsOn
<1> HIDE DEF N
<1>10. /\ cache' \in [Processes -> [Roles -> AgedLists \cup {Unread}]]
       /\ cache'[p][r] = N
       /\ \A y \in Roles : y # r => cache'[p][y] = cache[p][y]
  BY <1>1, <1>2, <1>5, <1>9 DEF ShelvesTyped
<1>11. append'[p] = [append[p] EXCEPT !.at = "write"]
  BY <1>1, <1>2 DEF ShelvesTyped
<1>12. /\ append'[p].at = "write" /\ append'[p].roles = append[p].roles
       /\ append'[p].lesson = x /\ append'[p] \in Jobs
  BY <1>5, <1>11 DEF Jobs
<1>13. \A y : InFile(y)' = InFile(y)
  BY <1>1 DEF InFile
<1>14. \A y \in Roles : y # r => Known(p, y)' = Known(p, y)
  BY <1>10 DEF Known
<1>15. Known(p, r)' \subseteq ToSet(L) \cup {x}
  BY <1>9, <1>10 DEF Known
<1>16. IsIdle(p)' = FALSE
  BY <1>12 DEF IsIdle, Idle
<1>17. ShelvesTyped'
  <2>1. append' \in [Processes -> Jobs \cup {Idle}]
    BY <1>1, <1>2, <1>11, <1>12 DEF ShelvesTyped
  <2> QED BY <1>1, <1>2, <1>10, <2>1 DEF ShelvesTyped
<1>18. \A y \in Roles : \A n : y # r /\ Below(y, n) => Below(y, n)'
  BY <1>3, <1>13, <1>14, BelowStays
<1>19. Below(r, held + 1)'
  <2>1. held \in Int /\ x \in Int
    BY <1>2, <1>5, MeetingsAssumption DEF ShelvesTyped
  <2>2. Below(r, held + 1)
    BY <1>2, <1>5 DEF LessonsNumbered
  <2>3. \A y \in InFile(r) : y < held + 1
    BY <2>2 DEF Below
  <2>4. \A y \in Known(p, r)' : y < held + 1
    <3>1. \A y \in ToSet(L) : y < held + 1
      BY <1>7, <2>2 DEF Below
    <3>2. x < held + 1
      BY <1>5, <2>1
    <3> QED BY <1>15, <3>1, <3>2
  <2> QED BY <1>1, <1>3, <1>13, <2>3, <2>4 DEF Below
<1>20. LessonsNumbered'
  <2>1. \A y \in Roles : Below(y, held + 1)'
    BY <1>1, <1>2, <1>18, <1>19 DEF LessonsNumbered
  <2>2. Pending(p)' = ToSet(Tail(append[p].roles))
    <3>1. Pending(p)' = {append[p].roles[i] : i \in 2..Len(append[p].roles)}
      BY <1>12 DEF Pending
    <3> QED BY <1>5, <3>1, TailPlaces
  <2>3. \A y \in Pending(p)' : y \in Roles /\ y # r /\ y \in Pending(p)
    BY <1>5, <2>2, AppendedOnce
  <2>4. \A y \in Pending(p)' : Below(y, x)'
    BY <1>6, <1>18, <2>3
  <2> QED BY <1>1, <1>3, <1>5, <1>12, <2>1, <2>4 DEF LessonsNumbered
<1>21. AppendsStaged'
  <2>1. Appending(p)' = r
    BY <1>12 DEF Appending
  <2>2. N # Unread
    BY <1>9, ListsAreNoMarkers
  <2> QED BY <1>3, <1>10, <1>12, <2>1, <2>2 DEF AppendsStaged
<1>22. CachesFollow'
  BY <1>2, <1>3, <1>9, <1>10, <1>13 DEF CachesFollow
<1> QED BY <1>17, <1>20, <1>21, <1>22 DEF LessonsInv

\* The temporary file gets what the cache has.
LEMMA LessonsWritten ==
    ASSUME OneProcess, LessonsInv, NEW p \in Processes, WriteScratch(p), UNCHANGED roomVars,
           NEW r, r = Appending(p)
    PROVE  LessonsInv'
<1>1. /\ append[p].at = "write"
      /\ scratch' = [scratch EXCEPT ![r] = cache[p][r]]
      /\ append' = [append EXCEPT ![p].at = "replace"]
      /\ UNCHANGED <<held, room, cache, lessons>>
  BY DEF WriteScratch, roomVars
<1>2. ShelvesTyped /\ LessonsNumbered /\ AppendsStaged /\ CachesFollow
  BY DEF LessonsInv
<1>3. \A q \in Processes : q = p
  BY DEF OneProcess
<1>4. ~IsIdle(p)
  BY <1>1 DEF IsIdle, Idle
<1>5. append[p] \in Jobs /\ r \in Roles /\ room[p] = 0 /\ cache[p][r] # Unread
  BY <1>1, <1>2, <1>4, AtWork DEF AppendsStaged
<1>6. append'[p] = [append[p] EXCEPT !.at = "replace"]
  BY <1>1, <1>2 DEF ShelvesTyped
<1>7. /\ append'[p].at = "replace" /\ append'[p].roles = append[p].roles
      /\ append'[p].lesson = append[p].lesson /\ append'[p] \in Jobs
  BY <1>5, <1>6 DEF Jobs
<1>8. \A y : InFile(y)' = InFile(y) /\ \A q : Known(q, y)' = Known(q, y)
  BY <1>1 DEF InFile, Known
<1>9. \A y, n : Below(y, n)' <=> Below(y, n)
  BY <1>8 DEF Below
<1>10. Pending(p)' = Pending(p) /\ Appending(p)' = r
  BY <1>1, <1>7 DEF Pending, Appending
<1>11. ShelvesTyped'
  <2>1. append' \in [Processes -> Jobs \cup {Idle}]
    BY <1>1, <1>2, <1>6, <1>7 DEF ShelvesTyped
  <2> QED BY <1>1, <1>2, <2>1 DEF ShelvesTyped
<1>12. LessonsNumbered'
  BY <1>1, <1>2, <1>3, <1>4, <1>5, <1>7, <1>9, <1>10 DEF LessonsNumbered
<1>13. AppendsStaged'
  <2>1. scratch'[r] = cache[p][r]
    BY <1>1, <1>2, <1>5 DEF ShelvesTyped
  <2> QED BY <1>1, <1>3, <1>5, <1>10, <2>1 DEF AppendsStaged
<1>14. CachesFollow'
  BY <1>1, <1>2, <1>8 DEF CachesFollow
<1> QED BY <1>11, <1>12, <1>13, <1>14 DEF LessonsInv

\* The file becomes what the cache has.
LEMMA FileIsTheCache ==
    ASSUME OneProcess, LessonsInv, NEW p \in Processes, ReplaceFile(p),
           NEW r, r = Appending(p)
    PROVE  /\ r \in Roles /\ cache[p][r] \in AgedLists /\ cache[p][r] # Unread
           /\ lessons' = [lessons EXCEPT ![r] = cache[p][r]]
           /\ lessons'[r] = cache[p][r]
           /\ InFile(r)' = ToSet(cache[p][r])
           /\ \A y \in Roles : y # r => InFile(y)' = InFile(y)
<1>1. /\ append[p].at = "replace"
      /\ lessons' = [lessons EXCEPT ![r] = scratch[r]]
  BY DEF ReplaceFile
<1>2. ShelvesTyped /\ AppendsStaged
  BY DEF LessonsInv
<1>3. ~IsIdle(p)
  BY <1>1 DEF IsIdle, Idle
<1>4. r \in Roles /\ scratch[r] = cache[p][r] /\ cache[p][r] # Unread
  BY <1>1, <1>2, <1>3, AtWork DEF AppendsStaged
<1>5. cache[p][r] \in AgedLists
  BY <1>2, <1>4, LessonsAreNumbers
<1>6. lessons'[r] = cache[p][r]
  BY <1>1, <1>2, <1>4 DEF ShelvesTyped
<1>7. InFile(r)' = ToSet(cache[p][r])
  BY <1>5, <1>6, ListsAreNoMarkers DEF InFile
<1>8. \A y \in Roles : y # r => InFile(y)' = InFile(y)
  BY <1>1, <1>2 DEF InFile, ShelvesTyped
<1> QED BY <1>1, <1>4, <1>5, <1>6, <1>7, <1>8

\* When a file is replaced the next role is appended to, if there is one.
LEMMA LessonsReplaced ==
    ASSUME OneProcess, LessonsInv, NEW p \in Processes, ReplaceFile(p), UNCHANGED roomVars,
           NEW r, r = Appending(p)
    PROVE  LessonsInv'
<1>1. /\ append[p].at = "replace"
      /\ scratch' = [scratch EXCEPT ![r] = Absent]
      /\ UNCHANGED <<held, room, cache>>
  BY DEF ReplaceFile, roomVars
<1>0. append' = [append EXCEPT ![p] =
                    IF Len(@.roles) = 1 THEN Idle
                    ELSE [at |-> "load", roles |-> Tail(@.roles), lesson |-> @.lesson]]
  BY DEF ReplaceFile
<1>2. ShelvesTyped /\ LessonsNumbered /\ AppendsStaged /\ CachesFollow
  BY DEF LessonsInv
<1>3. \A q \in Processes : q = p
  BY DEF OneProcess
<1>4. ~IsIdle(p)
  BY <1>1 DEF IsIdle, Idle
<1>5. /\ append[p] \in Jobs /\ append[p].roles \in RoleLists /\ room[p] = 0
      /\ Pending(p) = ToSet(Tail(append[p].roles))
  BY <1>1, <1>4, AtWork
<1>6. /\ r \in Roles /\ cache[p][r] \in AgedLists /\ cache[p][r] # Unread
      /\ lessons' = [lessons EXCEPT ![r] = cache[p][r]]
      /\ lessons'[r] = cache[p][r]
      /\ InFile(r)' = ToSet(cache[p][r])
      /\ \A y \in Roles : y # r => InFile(y)' = InFile(y)
  BY FileIsTheCache
<1>7. \A y : Known(p, y)' = Known(p, y)
  BY <1>1 DEF Known
<1>8. InFile(r)' \subseteq Known(p, r)
  BY <1>6 DEF Known
<1>9. \A y \in Roles : \A n : Below(y, n) => Below(y, n)'
  <2>1. \A y \in Roles : InFile(y)' \subseteq InFile(y) \cup Known(p, y)
    BY <1>6, <1>8
  <2> QED BY <1>3, <1>7, <2>1, BelowStays
<1>10. /\ Len(append[p].roles) = 1 => append'[p] = Idle
       /\ Len(append[p].roles) # 1 =>
             append'[p] = [at |-> "load", roles |-> Tail(append[p].roles),
                           lesson |-> append[p].lesson]
  BY <1>0, <1>2 DEF ShelvesTyped
<1>16. append' = [append EXCEPT ![p] = append'[p]]
  BY <1>0, <1>2 DEF ShelvesTyped
<1>11. CachesFollow'
  <2>1. \A y \in Roles : y # r => Follows(cache[p][y], InFile(y)) \/ cache[p][y] = Unread
    BY <1>2 DEF CachesFollow
  <2>2. Follows(cache[p][r], InFile(r)')
    BY <1>6 DEF Follows
  <2>3. \A y \in Roles : cache'[p][y] = Unread \/ Follows(cache[p][y], InFile(y)')
    BY <1>1, <1>6, <2>1, <2>2
  <2> QED BY <1>1, <1>3, <2>3 DEF CachesFollow
<1>12. lessons' \in [Roles -> AgedLists \cup {Absent}] /\ DOMAIN scratch' = Roles
  BY <1>1, <1>2, <1>6 DEF ShelvesTyped
<1>13. \A y \in Roles : Below(y, held + 1)'
  BY <1>1, <1>2, <1>9 DEF LessonsNumbered
<1>14. CASE Len(append[p].roles) = 1
  <2>1. append'[p] = Idle /\ IsIdle(p)'
    BY <1>10, <1>14 DEF IsIdle
  <2>2. ShelvesTyped'
    BY <1>1, <1>2, <1>12, <1>16, <2>1 DEF ShelvesTyped
  <2>3. LessonsNumbered'
    BY <1>1, <1>3, <1>5, <1>13, <2>1 DEF LessonsNumbered
  <2>4. AppendsStaged'
    BY <1>3, <2>1 DEF AppendsStaged
  <2> QED BY <1>11, <2>2, <2>3, <2>4 DEF LessonsInv
<1>15. CASE Len(append[p].roles) # 1
  <2> DEFINE s == append[p].roles
  <2>2. Tail(s) \in RoleLists /\ ToSet(Tail(s)) \subseteq Roles
    BY <1>5, <1>15, AppendedOnce
  <2>3. append'[p] = [at |-> "load", roles |-> Tail(s), lesson |-> append[p].lesson]
    BY <1>10, <1>15
  <2> HIDE DEF s
  <2>1. /\ append'[p].at = "load" /\ append'[p].roles = Tail(s)
        /\ append'[p].lesson = append[p].lesson
    BY <2>3
  <2>4. append'[p] \in Jobs
    BY <1>5, <2>2, <2>3 DEF Jobs
  <2>5. Pending(p)' = Pending(p)
    <3>1. Tail(s) \in Seq(Roles)
      BY <2>2 DEF RoleLists
    <3>2. Pending(p)' = {Tail(s)[i] : i \in 1..Len(Tail(s))}
      BY <2>1 DEF Pending
    <3>3. DOMAIN Tail(s) = 1..Len(Tail(s))
      BY <3>1
    <3>4. ToSet(Tail(s)) = {Tail(s)[i] : i \in 1..Len(Tail(s))}
      BY <3>3 DEF ToSet
    <3> QED BY <1>5, <3>2, <3>4 DEF s
  <2>6. ShelvesTyped'
    <3>1. append' \in [Processes -> Jobs \cup {Idle}]
      BY <1>2, <1>16, <2>4 DEF ShelvesTyped
    <3> QED BY <1>1, <1>2, <1>12, <3>1 DEF ShelvesTyped
  <2>7. LessonsNumbered'
    <3>1. append[p].lesson <= held /\ \A y \in Pending(p) : Below(y, append[p].lesson)
      BY <1>2, <1>4 DEF LessonsNumbered
    <3>2. Pending(p) \subseteq Roles
      BY <1>5, <2>2 DEF s
    <3>3. \A y \in Pending(p)' : Below(y, append[p].lesson)'
      <4>1. \A n : n = append[p].lesson => \A y \in Pending(p) : Below(y, n)'
        BY <1>9, <3>1, <3>2
      <4> QED BY <2>1, <2>5, <4>1
    <3> QED BY <1>1, <1>3, <1>5, <1>13, <2>1, <3>1, <3>3 DEF LessonsNumbered
  <2>8. AppendsStaged'
    BY <1>3, <2>1 DEF AppendsStaged
  <2> QED BY <1>11, <2>6, <2>7, <2>8 DEF LessonsInv
<1> QED BY <1>14, <1>15

\* A step that ends the append, and may empty the cache, takes no lesson away.
LEMMA LessonsDropped ==
    ASSUME OneProcess, LessonsInv, NEW p \in Processes,
           append' = [append EXCEPT ![p] = Idle],
           cache' = cache \/ cache' = [cache EXCEPT ![p] = [r \in Roles |-> Unread]],
           room'[p] = 0, room' \in [Processes -> 0..MaxMeetings],
           DOMAIN scratch' = Roles,
           UNCHANGED <<held, lessons>>
    PROVE  LessonsInv'
<1>1. ShelvesTyped /\ LessonsNumbered /\ AppendsStaged /\ CachesFollow
  BY DEF LessonsInv
<1>2. \A q \in Processes : q = p
  BY DEF OneProcess
<1>3. append'[p] = Idle /\ IsIdle(p)'
  BY <1>1 DEF IsIdle, ShelvesTyped
<1>4. /\ cache' \in [Processes -> [Roles -> AgedLists \cup {Unread}]]
      /\ \A r \in Roles : cache'[p][r] \in {cache[p][r], Unread}
  BY <1>1 DEF ShelvesTyped
<1>5. \A r \in Roles : InFile(r)' = InFile(r) /\ Known(p, r)' \subseteq Known(p, r)
  BY <1>4 DEF InFile, Known
<1>6. \A r \in Roles : \A n : Below(r, n) => Below(r, n)'
  BY <1>2, <1>5, BelowStays
<1>7. ShelvesTyped'
  BY <1>1, <1>3, <1>4 DEF ShelvesTyped
<1>8. LessonsNumbered'
  BY <1>1, <1>2, <1>3, <1>6 DEF LessonsNumbered
<1>9. AppendsStaged'
  BY <1>2, <1>3 DEF AppendsStaged
<1>10. CachesFollow'
  BY <1>1, <1>2, <1>4, <1>5 DEF CachesFollow
<1> QED BY <1>7, <1>8, <1>9, <1>10 DEF LessonsInv

\* Every step keeps the lessons in order.
LEMMA LessonsStep ==
    ASSUME OneProcess, LessonsInv, [Next]_vars
    PROVE  LessonsInv'
<1>1. CASE UNCHANGED vars
  BY <1>1, LessonsStay DEF vars, roomVars
<1>2. ASSUME NEW p \in Processes, OpenRoom(p) PROVE LessonsInv'
  BY <1>2, LessonsOpen
<1>3. ASSUME NEW p \in Processes, NEW saved \in BOOLEAN, Write(p, saved) PROVE LessonsInv'
  BY <1>3, LessonsStay DEF Write, ApplyWrite
<1>4. ASSUME NEW p \in Processes, EndMeeting(p) PROVE LessonsInv'
  BY <1>4, LessonsEnd
<1>5. ASSUME NEW p \in Processes, NEW r \in Roles, Recent(p, r), UNCHANGED roomVars
      PROVE  LessonsInv'
  BY <1>5, LessonsRecalled
<1>6. ASSUME NEW p \in Processes, AppendFails(p), UNCHANGED roomVars PROVE LessonsInv'
  <2>1. /\ append[p].at \in {"write", "replace"}
        /\ append' = [append EXCEPT ![p] = Idle]
        /\ UNCHANGED <<held, room, cache, lessons>>
        /\ scratch' = scratch \/ scratch' = [scratch EXCEPT ![Appending(p)] = Torn]
    BY <1>6 DEF AppendFails, roomVars
  <2>2. ~IsIdle(p)
    BY <2>1 DEF IsIdle, Idle
  <2>3. /\ room'[p] = 0 /\ room' \in [Processes -> 0..MaxMeetings]
        /\ DOMAIN scratch' = Roles
    BY <2>1, <2>2, AtWork DEF LessonsInv, ShelvesTyped
  <2> QED BY <2>1, <2>3, LessonsDropped
<1>7. ASSUME NEW p \in Processes, AppendStep(p), UNCHANGED roomVars PROVE LessonsInv'
  <2>1. PICK r : r = Appending(p)
    OBVIOUS
  <2>2. PICK x : x = append[p].lesson
    OBVIOUS
  <2> QED BY <1>6, <1>7, <2>1, <2>2, LessonsCached, LessonsWritten, LessonsReplaced
        DEF AppendStep
<1>8. ASSUME NEW p \in Processes, Crash(p) PROVE LessonsInv'
  <2>1. /\ append' = [append EXCEPT ![p] = Idle]
        /\ cache' = [cache EXCEPT ![p] = [r \in Roles |-> Unread]]
        /\ room' = [room EXCEPT ![p] = 0]
        /\ UNCHANGED <<held, lessons>>
        /\ scratch' = scratch \/ scratch' = [scratch EXCEPT ![Appending(p)] = Torn]
    BY <1>8 DEF Crash, Forget
  <2>2. /\ room'[p] = 0 /\ room' \in [Processes -> 0..MaxMeetings]
        /\ DOMAIN scratch' = Roles
    BY <2>1, MeetingsAssumption DEF LessonsInv, ShelvesTyped
  <2> QED BY <2>1, <2>2, LessonsDropped
<1> QED BY <1>1, <1>2, <1>3, <1>4, <1>5, <1>7, <1>8 DEF Next

\* The lessons of every behaviour.
LEMMA LessonsInvariance ==
    ASSUME OneProcess
    PROVE  Spec => []LessonsInv
<1>1. LessonsInv /\ [Next]_vars => LessonsInv'
  BY LessonsStep
<1> QED BY <1>1, LessonsBegin, PTL DEF Spec

\* Files, caches and rooms are of their kinds, and no file is torn, however
\* often writes fail and the process dies: a file is only ever replaced by
\* what the cache has (LongTermLessonStore.append).
THEOREM MemoryTyped ==
    ASSUME OneProcess
    PROVE  Spec => []TypeOK
<1>1. LessonsInv => TypeOK
  <2> SUFFICES ASSUME LessonsInv PROVE TypeOK
    OBVIOUS
  <2>1. ShelvesTyped /\ LessonsNumbered
    BY DEF LessonsInv
  <2>2. \A p \in Processes : room[p] \in 0..held
    BY <2>1 DEF ShelvesTyped, LessonsNumbered
  <2>3. \A p \in Processes : append[p].at \in {"idle", "load", "write", "replace"}
    BY <2>1 DEF ShelvesTyped, Jobs, Idle
  <2>4. \A p \in Processes : \A r \in Roles :
           cache[p][r] = Unread \/ Len(cache[p][r]) <= LessonCap
    BY <2>1 DEF ShelvesTyped, AgedLists, Aged
  <2>5. \A r \in Roles : \/ lessons[r] = Absent
                         \/ lessons[r] \in Seq(1..MaxMeetings) /\ Len(lessons[r]) <= LessonCap
    BY <2>1 DEF ShelvesTyped, AgedLists, Aged
  <2> QED BY <2>1, <2>2, <2>3, <2>4, <2>5 DEF TypeOK, ShelvesTyped
<1> QED BY <1>1, LessonsInvariance, PTL

\* Where one process uses the directory, a lesson leaves its file only when
\* the cap pushes it out: the cache, which replaces the file, has kept
\* everything of it that newer lessons left room for, appends that failed
\* between the two included (LongTermLessonStore.append).
THEOREM LessonsLeaveOnlyByAge ==
    ASSUME OneProcess
    PROVE  Spec => LessonsLeaveByAge
<1> DEFINE ByAge == \A r \in Roles : \A old \in InFile(r) \ InFile(r)' :
                       /\ Cardinality(InFile(r)') = LessonCap
                       /\ \A kept \in InFile(r)' : kept > old
<1>1. LessonsInv /\ [Next]_vars => [ByAge]_lessons
  <2> SUFFICES ASSUME LessonsInv, [Next]_vars, lessons' # lessons PROVE ByAge
    OBVIOUS
  <2>1. PICK p \in Processes : ReplaceFile(p)
    <3>1. ~UNCHANGED vars
      BY DEF vars, lessonVars
    <3>2. Next
      BY <3>1
    <3>3. PICK p \in Processes : AppendStep(p)
      BY <3>2 DEF Next, OpenRoom, Write, ApplyWrite, EndMeeting, StartAppending, Recent,
                  Crash, Forget, lessonVars
    <3> QED BY <3>3 DEF AppendStep, AppendToCache, WriteScratch, AppendFails
  <2>2. PICK r : r = Appending(p)
    OBVIOUS
  <2>3. /\ r \in Roles /\ cache[p][r] \in AgedLists /\ cache[p][r] # Unread
        /\ InFile(r)' = ToSet(cache[p][r])
        /\ \A y \in Roles : y # r => InFile(y)' = InFile(y)
    BY <2>1, <2>2, FileIsTheCache
  <2>4. Follows(cache[p][r], InFile(r))
    BY <2>3 DEF LessonsInv, CachesFollow
  <2>5. Cardinality(ToSet(cache[p][r])) = Len(cache[p][r])
    BY <2>3, AgedCardinality
  <2>6. ASSUME NEW old \in InFile(r) \ InFile(r)'
        PROVE  /\ Cardinality(InFile(r)') = LessonCap
               /\ \A kept \in InFile(r)' : kept > old
    BY <2>3, <2>4, <2>5, <2>6 DEF Follows
  <2> QED BY <2>3, <2>6
<1>2. Spec => [][ByAge]_lessons
  BY <1>1, LessonsInvariance, PTL DEF Spec
<1> QED BY <1>2 DEF LessonsLeaveByAge

=============================================================================
