---------------------------- MODULE ListingProofs ----------------------------
(***************************************************************************)
(* Induction, and what the lists of module Listing are: for every finite   *)
(* set in a strict total order there is exactly one.  The induction        *)
(* theorems of the library take a predicate as a parameter; these take the *)
(* set of the values the predicate holds of.                               *)
(***************************************************************************)
EXTENDS Listing, SequenceTheorems, FiniteSetTheorems, TLAPS

-----------------------------------------------------------------------------
(* Induction.                                                              *)

\* If a subset is in A whenever its strict subsets are, then so is the whole.
LEMMA SubsetInduction ==
    ASSUME NEW S, IsFiniteSet(S), NEW A,
           \A T \in SUBSET S : (\A U \in SUBSET T : U # T => U \in A) => T \in A
    PROVE  S \in A
<1>1. SUFFICES ASSUME S \notin A PROVE FALSE
  OBVIOUS
<1> DEFINE bad == {T \in SUBSET S : T \notin A}
<1>2. bad \subseteq FiniteSubsetsOf(S)
  BY FS_FiniteSubsetsOfFinite
<1>3. bad # {}
  BY <1>1
<1>4. PICK T \in bad : \A U \in bad : ~(<<U, T>> \in StrictSubsetOrdering(S))
  <2> DEFINE R == StrictSubsetOrdering(S)
             F == FiniteSubsetsOf(S)
  <2>1. IsWellFoundedOn(R, F)
    BY FS_StrictSubsetOrderingWellFounded
  <2> HIDE DEF bad, R, F
  <2>2. \E T \in bad : \A U \in bad : ~(<<U, T>> \in R)
    BY <1>2, <1>3, <2>1, WFMin DEF F
  <2> QED BY <2>2 DEF R
<1>5. \A U \in SUBSET T : U # T => U \in A
  BY <1>4 DEF StrictSubsetOrdering
<1> QED BY <1>4, <1>5

\* A set that holds 0 and, with every number, the next one holds them all.
LEMMA NatInductionOn ==
    ASSUME NEW A, 0 \in A, \A n \in Nat : n \in A => n + 1 \in A
    PROVE  \A n \in Nat : n \in A
<1> SUFFICES ASSUME NEW n \in Nat PROVE n \in A
  OBVIOUS
<1> DEFINE B == {T \in SUBSET (1..n) : \A m \in 0..n : T = 1..m => m \in A}
<1>1. IsFiniteSet(1..n)
  BY FS_Interval
<1>2. ASSUME NEW T \in SUBSET (1..n), \A U \in SUBSET T : U # T => U \in B,
             NEW m \in 0..n, T = 1..m
      PROVE  m \in A
  <2>1. CASE m = 0
    BY <2>1
  <2>2. CASE m # 0
    <3>1. m - 1 \in 0..n /\ m - 1 \in Nat /\ (m - 1) + 1 = m
      BY <2>2
    <3>2. 1..(m - 1) \in SUBSET T /\ 1..(m - 1) # T
      <4>1. m \in T /\ m \notin 1..(m - 1)
        BY <1>2, <2>2
      <4>2. 1..(m - 1) \subseteq T
        BY <1>2
      <4> QED BY <4>1, <4>2
    <3>3. m - 1 \in A
      BY <1>2, <3>1, <3>2
    <3> QED BY <3>1, <3>3
  <2> QED BY <2>1, <2>2
<1>3. \A T \in SUBSET (1..n) : (\A U \in SUBSET T : U # T => U \in B) => T \in B
  BY <1>2
<1>4. 1..n \in B
  <2> DEFINE N == 1..n
  <2>1. IsFiniteSet(N) /\ \A T \in SUBSET N : (\A U \in SUBSET T : U # T => U \in B) => T \in B
    BY <1>1, <1>3
  <2> HIDE DEF B, N
  <2>2. N \in B
    BY <2>1, SubsetInduction, Zenon
  <2> QED BY <2>2 DEF N
<1> QED BY <1>4

\* Every set of numbers that is not empty has a least one.
LEMMA LeastOf ==
    ASSUME NEW S \in SUBSET Nat, S # {}
    PROVE  \E m \in S : \A n \in S : m <= n
<1>1. SUFFICES ASSUME \A m \in S : \E n \in S : n < m PROVE FALSE
  OBVIOUS
<1> DEFINE A == {n \in Nat : \A m \in 0..n : m \notin S}
<1>2. 0 \in A
  BY <1>1
<1>3. ASSUME NEW n \in Nat, n \in A PROVE n + 1 \in A
  <2>1. n + 1 \notin S
    <3> SUFFICES ASSUME n + 1 \in S PROVE FALSE
      OBVIOUS
    <3>1. PICK k \in S : k < n + 1
      BY <1>1
    <3> QED BY <1>3, <3>1
  <2>2. \A m \in 0..(n + 1) : m \in 0..n \/ m = n + 1
    OBVIOUS
  <2> QED BY <1>3, <2>1, <2>2
<1> HIDE DEF A
<1>4. \A n \in Nat : n \in A
  BY <1>2, <1>3, NatInductionOn
<1>5. PICK n \in S : TRUE
  OBVIOUS
<1>6. n \in A /\ n \in 0..n
  BY <1>4
<1> QED BY <1>5, <1>6 DEF A

-----------------------------------------------------------------------------
(* Listings of a strict total order.                                       *)

StrictTotal(S, R) ==
    /\ \A x \in S : <<x, x>> \notin R
    /\ \A x, y \in S : x # y => <<x, y>> \in R \/ <<y, x>> \in R
    /\ \A x, y, z \in S : <<x, y>> \in R /\ <<y, z>> \in R => <<x, z>> \in R

\* A finite set that is not empty has a last member.
LEMMA LastMember ==
    ASSUME NEW S, IsFiniteSet(S), NEW R, StrictTotal(S, R), S # {}
    PROVE  \E m \in S : \A x \in S : x # m => <<x, m>> \in R
<1> DEFINE HasLast(T) == \E m \in T : \A x \in T : x # m => <<x, m>> \in R
           A == {T \in SUBSET S : T # {} => HasLast(T)}
<1>1. ASSUME NEW T \in SUBSET S, \A U \in SUBSET T : U # T => U \in A
      PROVE  T \in A
  <2> SUFFICES ASSUME T # {} PROVE HasLast(T)
    OBVIOUS
  <2>1. PICK x \in T : TRUE
    OBVIOUS
  <2> DEFINE U == T \ {x}
  <2>2. U \in SUBSET T /\ U # T
    BY <2>1
  <2>3. U # {} => HasLast(U)
    BY <1>1, <2>2
  <2>4. CASE U = {}
    BY <2>1, <2>4
  <2>5. CASE U # {}
    <3>1. PICK m \in U : \A y \in U : y # m => <<y, m>> \in R
      BY <2>3, <2>5
    <3>2. CASE <<x, m>> \in R
      BY <3>1, <3>2
    <3>3. CASE <<m, x>> \in R
      <4>1. \A y \in T : y # x => <<y, x>> \in R
        BY <3>1, <3>3 DEF StrictTotal
      <4> QED BY <2>1, <4>1
    <3> QED BY <2>1, <3>1, <3>2, <3>3 DEF StrictTotal
  <2> QED BY <2>4, <2>5
<1>2. \A T \in SUBSET S : (\A U \in SUBSET T : U # T => U \in A) => T \in A
  BY <1>1
<1>3. S \in A
  <2> HIDE DEF A
  <2> QED BY <1>2, SubsetInduction, Zenon
<1> QED BY <1>3

\* A finite set in a strict total order can be listed.
LEMMA ListingExists ==
    ASSUME NEW S, IsFiniteSet(S), NEW R, StrictTotal(S, R)
    PROVE  \E s \in [1..Cardinality(S) -> S] : Lists(s, S, R)
<1> DEFINE A == {T \in SUBSET S : \E s \in [1..Cardinality(T) -> T] : Lists(s, T, R)}
<1>1. ASSUME NEW T \in SUBSET S, \A U \in SUBSET T : U # T => U \in A
      PROVE  \E s \in [1..Cardinality(T) -> T] : Lists(s, T, R)
  <2>1. IsFiniteSet(T) /\ StrictTotal(T, R)
    BY FS_Subset DEF StrictTotal
  <2>2. CASE T = {}
    <3>1. Cardinality(T) = 0 /\ 1..0 = {}
      BY <2>2, FS_EmptySet
    <3> DEFINE s == [i \in 1..0 |-> 0]
    <3>2. s \in [1..0 -> {}] /\ {s[i] : i \in 1..0} = {}
      OBVIOUS
    <3>3. \A i, j \in 1..0 : FALSE
      OBVIOUS
    <3> HIDE DEF s
    <3> QED BY <2>2, <3>1, <3>2, <3>3 DEF Lists
  <2>3. CASE T # {}
    <3>1. PICK m \in T : \A x \in T : x # m => <<x, m>> \in R
      BY <2>1, <2>3, LastMember
    <3> DEFINE U == T \ {m}
               n == Cardinality(U)
    <3>2. /\ IsFiniteSet(U) /\ n \in Nat /\ Cardinality(T) \in Nat
          /\ n = Cardinality(T) - 1
      BY <2>1, <3>1, FS_RemoveElement, FS_CardinalityType
    <3>3. Cardinality(T) = n + 1
      BY <3>2
    <3>4. U \in SUBSET T /\ U # T
      BY <3>1
    <3>5. PICK s \in [1..n -> U] : Lists(s, U, R)
      BY <1>1, <3>4
    <3>6. /\ {s[i] : i \in 1..n} = U
          /\ \A i, j \in 1..n : i < j => <<s[i], s[j]>> \in R
      BY <3>5 DEF Lists
    <3> HIDE DEF n
    <3> DEFINE t == [i \in 1..(n + 1) |-> IF i <= n THEN s[i] ELSE m]
    <3>7. t \in [1..(n + 1) -> T]
      BY <3>1, <3>2, <3>5
    <3>8. t[n + 1] = m /\ \A i \in 1..n : t[i] = s[i] /\ i \in 1..(n + 1) /\ t[i] \in U
      BY <3>2, <3>5
    <3>9. \A i \in 1..(n + 1) : i \in 1..n \/ i = n + 1
      BY <3>2
    <3> HIDE DEF t
    <3>10. {t[i] : i \in 1..(n + 1)} = T
      <4>1. n + 1 \in 1..(n + 1)
        BY <3>2
      <4>2. T \subseteq {t[i] : i \in 1..(n + 1)}
        <5> SUFFICES ASSUME NEW x \in T PROVE \E i \in 1..(n + 1) : t[i] = x
          OBVIOUS
        <5>1. CASE x = m
          BY <3>8, <4>1, <5>1
        <5>2. CASE x # m
          BY <3>6, <3>8, <5>2
        <5> QED BY <5>1, <5>2
      <4> QED BY <3>7, <4>2
    <3>11. ASSUME NEW i \in 1..(n + 1), NEW j \in 1..(n + 1), i < j
           PROVE  <<t[i], t[j]>> \in R
      <4>1. i \in 1..n
        BY <3>2, <3>11
      <4>2. CASE j \in 1..n
        BY <3>6, <3>8, <3>11, <4>1, <4>2
      <4>3. CASE j = n + 1
        BY <3>1, <3>8, <4>1, <4>3
      <4> QED BY <3>9, <4>2, <4>3
    <3>12. Lists(t, T, R)
      BY <3>3, <3>10, <3>11 DEF Lists
    <3> QED BY <3>3, <3>7, <3>12
  <2> QED BY <2>2, <2>3
<1>2. \A T \in SUBSET S : (\A U \in SUBSET T : U # T => U \in A) => T \in A
  BY <1>1
<1>3. S \in A
  <2> HIDE DEF A
  <2> QED BY <1>2, SubsetInduction, Zenon
<1> QED BY <1>3

\* So Listed lists it.
LEMMA ListedLists ==
    ASSUME NEW S, IsFiniteSet(S), NEW R, StrictTotal(S, R)
    PROVE  /\ Listed(S, R) \in [1..Cardinality(S) -> S]
           /\ Lists(Listed(S, R), S, R)
BY ListingExists DEF Listed

\* No member is listed twice.
LEMMA ListedOnce ==
    ASSUME NEW S, IsFiniteSet(S), NEW R, StrictTotal(S, R),
           NEW s \in [1..Cardinality(S) -> S], Lists(s, S, R),
           NEW i \in 1..Cardinality(S), NEW j \in 1..Cardinality(S), s[i] = s[j]
    PROVE  i = j
<1>1. i \in Int /\ j \in Int
  BY FS_CardinalityType
<1>2. i < j => <<s[i], s[j]>> \in R
  BY DEF Lists
<1>3. j < i => <<s[j], s[i]>> \in R
  BY DEF Lists
<1>4. <<s[i], s[i]>> \notin R
  BY DEF StrictTotal
<1> QED BY <1>1, <1>2, <1>3, <1>4

\* There is one listing only.
LEMMA ListingUnique ==
    ASSUME NEW S, IsFiniteSet(S), NEW R, StrictTotal(S, R),
           NEW s \in [1..Cardinality(S) -> S], Lists(s, S, R),
           NEW t \in [1..Cardinality(S) -> S], Lists(t, S, R)
    PROVE  s = t
<1> DEFINE n == Cardinality(S)
           D == {i \in 1..n : s[i] # t[i]}
<1>1. n \in Nat
  BY FS_CardinalityType
<1> SUFFICES ASSUME s # t PROVE FALSE
  OBVIOUS
<1>2. D # {}
  <2>1. D = {} => \A i \in 1..n : s[i] = t[i]
    OBVIOUS
  <2>2. (\A i \in 1..n : s[i] = t[i]) => s = t
    <3>1. s = [i \in 1..n |-> s[i]] /\ t = [i \in 1..n |-> t[i]]
      OBVIOUS
    <3> HIDE DEF n, D
    <3> SUFFICES ASSUME \A i \in 1..n : s[i] = t[i] PROVE s = t
      OBVIOUS
    <3>2. [i \in 1..n |-> s[i]] = [i \in 1..n |-> t[i]]
      OBVIOUS
    <3> QED BY <3>1, <3>2, Zenon
  <2> QED BY <2>1, <2>2
<1>3. D \in SUBSET Nat
  BY <1>1
<1>4. PICK i \in D : \A j \in D : i <= j
  <2> HIDE DEF D
  <2> QED BY <1>2, <1>3, LeastOf
<1>5. i \in 1..n /\ s[i] # t[i] /\ s[i] \in S /\ t[i] \in S
  BY <1>4
<1>6. \A j \in 1..n : j < i => s[j] = t[j]
  BY <1>1, <1>3, <1>4
<1>7. PICK j \in 1..n : t[j] = s[i]
  BY <1>5 DEF Lists
<1>8. PICK k \in 1..n : s[k] = t[i]
  BY <1>5 DEF Lists
<1> HIDE DEF D
<1>9. ~(j < i)
  <2> SUFFICES ASSUME j < i PROVE FALSE
    OBVIOUS
  <2>1. s[j] = s[i]
    BY <1>6, <1>7
  <2>2. j = i
    BY <1>5, <1>7, <2>1, ListedOnce
  <2> QED BY <1>1, <2>2
<1>10. ~(k < i)
  <2> SUFFICES ASSUME k < i PROVE FALSE
    OBVIOUS
  <2>1. t[k] = t[i]
    BY <1>6, <1>8
  <2>2. k = i
    BY <1>5, <1>8, <2>1, ListedOnce
  <2> QED BY <1>1, <2>2
<1>11. j # i /\ k # i
  BY <1>5, <1>7, <1>8
<1>12. i < j /\ i < k
  BY <1>1, <1>5, <1>7, <1>8, <1>9, <1>10, <1>11
<1>13. <<t[i], t[j]>> \in R /\ <<s[i], s[k]>> \in R
  BY <1>5, <1>12 DEF Lists
<1> QED BY <1>5, <1>7, <1>8, <1>13 DEF StrictTotal

-----------------------------------------------------------------------------
(* The numbers of a finite set, in order.                                  *)

\* s is the increasing list of S.
Increasing(s, S) ==
    /\ s \in [1..Cardinality(S) -> S]
    /\ {s[i] : i \in 1..Cardinality(S)} = S
    /\ \A i, j \in 1..Cardinality(S) : i < j => s[i] < s[j]

\* Numbers are in a strict total order.
LEMMA UpwardsIsTotal ==
    ASSUME NEW S \in SUBSET Nat
    PROVE  StrictTotal(S, Upwards(S))
<1>1. \A x, y \in S : <<x, y>> \in Upwards(S) <=> x < y
  BY DEF Upwards
<1>2. \A x \in S : x \in Nat
  OBVIOUS
<1> HIDE DEF Upwards
<1> QED BY <1>1, <1>2 DEF StrictTotal

\* InOrder is the increasing list.
LEMMA InOrderIncreases ==
    ASSUME NEW S \in SUBSET Nat, IsFiniteSet(S)
    PROVE  Increasing(InOrder(S), S)
<1>1. StrictTotal(S, Upwards(S))
  BY UpwardsIsTotal
<1>2. /\ InOrder(S) \in [1..Cardinality(S) -> S]
      /\ Lists(InOrder(S), S, Upwards(S))
  BY <1>1, ListedLists DEF InOrder
<1>3. \A x, y : <<x, y>> \in Upwards(S) => x < y
  BY DEF Upwards
<1> QED BY <1>2, <1>3 DEF Lists, Increasing

\* There is no other.
LEMMA IncreasingUnique ==
    ASSUME NEW S \in SUBSET Nat, IsFiniteSet(S), NEW s, Increasing(s, S)
    PROVE  s = InOrder(S)
<1>1. StrictTotal(S, Upwards(S))
  BY UpwardsIsTotal
<1>2. /\ InOrder(S) \in [1..Cardinality(S) -> S]
      /\ Lists(InOrder(S), S, Upwards(S))
  BY <1>1, ListedLists DEF InOrder
<1>3. \A x, y \in S : x < y => <<x, y>> \in Upwards(S)
  BY DEF Upwards
<1>4. \A i \in 1..Cardinality(S) : s[i] \in S
  BY DEF Increasing
<1>5. s \in [1..Cardinality(S) -> S] /\ Lists(s, S, Upwards(S))
  BY <1>3, <1>4 DEF Lists, Increasing
<1> QED BY <1>1, <1>2, <1>5, ListingUnique

\* A place is listed once.
LEMMA InOrderOnce ==
    ASSUME NEW S \in SUBSET Nat, IsFiniteSet(S),
           NEW i \in 1..Cardinality(S), NEW j \in 1..Cardinality(S),
           InOrder(S)[i] = InOrder(S)[j]
    PROVE  i = j
<1>1. Increasing(InOrder(S), S)
  BY InOrderIncreases
<1>2. i \in Int /\ j \in Int
  BY FS_CardinalityType
<1>3. InOrder(S)[i] \in Nat
  BY <1>1 DEF Increasing
<1> QED BY <1>1, <1>2, <1>3 DEF Increasing

\* The numbers up to n are in order as they are.
LEMMA InOrderInterval ==
    ASSUME NEW n \in Nat
    PROVE  InOrder(1..n) = [i \in 1..n |-> i] /\ Cardinality(1..n) = n
<1>1. IsFiniteSet(1..n) /\ Cardinality(1..n) = n /\ 1..n \in SUBSET Nat
  BY FS_Interval
<1> DEFINE s == [i \in 1..n |-> i]
<1>2. s \in [1..n -> 1..n] /\ {s[i] : i \in 1..n} = 1..n
  OBVIOUS
<1>3. \A i, j \in 1..n : i < j => s[i] < s[j]
  OBVIOUS
<1> HIDE DEF s
<1>4. Increasing(s, 1..n)
  BY <1>1, <1>2, <1>3 DEF Increasing
<1>5. s = InOrder(1..n)
  BY <1>1, <1>4, IncreasingUnique
<1> QED BY <1>1, <1>5 DEF s

\* A number above the others comes last.
LEMMA InOrderAppend ==
    ASSUME NEW S \in SUBSET Nat, IsFiniteSet(S), NEW n \in Nat,
           \A x \in S : x < n
    PROVE  /\ Cardinality(S \cup {n}) = Cardinality(S) + 1
           /\ InOrder(S \cup {n}) =
                 [i \in 1..(Cardinality(S) + 1) |->
                    IF i <= Cardinality(S) THEN InOrder(S)[i] ELSE n]
<1> DEFINE T == S \cup {n}
           c == Cardinality(S)
           s == InOrder(S)
           t == [i \in 1..(c + 1) |-> IF i <= c THEN s[i] ELSE n]
<1>1. n \notin S
  OBVIOUS
<1>2. IsFiniteSet(T) /\ Cardinality(T) = c + 1 /\ c \in Nat
  BY <1>1, FS_AddElement, FS_CardinalityType
<1>3. Increasing(s, S)
  BY InOrderIncreases
<1>4. s \in [1..c -> S] /\ {s[i] : i \in 1..c} = S
      /\ \A i, j \in 1..c : i < j => s[i] < s[j]
  BY <1>3 DEF Increasing
<1>5. T \in SUBSET Nat
  OBVIOUS
<1> HIDE DEF c, s
<1>6. t \in [1..(c + 1) -> T]
  BY <1>2, <1>4
<1>7. t[c + 1] = n /\ \A i \in 1..c : t[i] = s[i] /\ i \in 1..(c + 1) /\ s[i] \in S
  BY <1>2, <1>4
<1>8. c + 1 \in 1..(c + 1) /\ \A i \in 1..(c + 1) : i \in 1..c \/ i = c + 1
  BY <1>2
<1> HIDE DEF t
<1>9. {t[i] : i \in 1..(c + 1)} = T
  <2>1. T \subseteq {t[i] : i \in 1..(c + 1)}
    <3> SUFFICES ASSUME NEW x \in T PROVE \E i \in 1..(c + 1) : t[i] = x
      OBVIOUS
    <3>1. CASE x = n
      BY <1>7, <1>8, <3>1
    <3>2. CASE x \in S
      BY <1>4, <1>7, <3>2
    <3> QED BY <3>1, <3>2
  <2> QED BY <1>6, <2>1
<1>10. ASSUME NEW i \in 1..(c + 1), NEW j \in 1..(c + 1), i < j
       PROVE  t[i] < t[j]
  <2>1. i \in 1..c
    BY <1>2, <1>10
  <2>2. CASE j \in 1..c
    BY <1>4, <1>7, <1>10, <2>1, <2>2
  <2>3. CASE j = c + 1
    BY <1>7, <2>1, <2>3
  <2> QED BY <1>8, <2>2, <2>3
<1>11. Increasing(t, T)
  <2> HIDE DEF T
  <2> QED BY <1>2, <1>6, <1>9, <1>10 DEF Increasing
<1>12. t = InOrder(T)
  <2> HIDE DEF T
  <2> QED BY <1>2, <1>5, <1>11, IncreasingUnique
<1> QED BY <1>2, <1>12 DEF t, c, s

-----------------------------------------------------------------------------
(* What a sort and a filtering loop return.                                *)

\* Places of a sequence are finitely many.
LEMMA PlacesAreFinite ==
    ASSUME NEW X, NEW s \in Seq(X), NEW P \in SUBSET DOMAIN s
    PROVE  IsFiniteSet(P) /\ P \in SUBSET Nat
<1>1. DOMAIN s = 1..Len(s) /\ Len(s) \in Nat
  OBVIOUS
<1>2. IsFiniteSet(1..Len(s))
  BY <1>1, FS_Interval
<1> QED BY <1>1, <1>2, FS_Subset

\* The k-th entry sorted is the one at the k-th place listed.
LEMMA SortedType ==
    ASSUME NEW X, NEW s \in Seq(X), NEW P \in SUBSET DOMAIN s, NEW R, StrictTotal(P, R)
    PROVE  /\ SortedBy(s, P, R) \in Seq(X)
           /\ Len(SortedBy(s, P, R)) = Cardinality(P)
           /\ Cardinality(P) \in Nat
           /\ DOMAIN SortedBy(s, P, R) = 1..Cardinality(P)
           /\ \A k \in 1..Cardinality(P) :
                 /\ Listed(P, R)[k] \in P
                 /\ SortedBy(s, P, R)[k] = s[Listed(P, R)[k]]
<1> DEFINE c == Cardinality(P)
           o == Listed(P, R)
           p == [k \in 1..c |-> s[o[k]]]
<1>1. c \in Nat
  BY PlacesAreFinite, FS_CardinalityType
<1>2. o \in [1..c -> P]
  BY PlacesAreFinite, ListedLists
<1> HIDE DEF c, o
<1>3. p \in [1..c -> X]
  <2>1. \A k \in 1..c : o[k] \in DOMAIN s
    BY <1>2
  <2>2. \A k \in DOMAIN s : s[k] \in X
    OBVIOUS
  <2> QED BY <2>1, <2>2
<1>4. p \in Seq(X) /\ Len(p) = c
  BY <1>1, <1>3, SeqDef
<1>5. \A k \in 1..c : o[k] \in P /\ p[k] = s[o[k]]
  BY <1>2
<1>6. SortedBy(s, P, R) = p
  BY DEF SortedBy, c, o
<1> HIDE DEF p
<1>7. DOMAIN p = 1..c
  BY <1>3
<1> QED BY <1>1, <1>4, <1>5, <1>6, <1>7 DEF c, o

\* Distinct entries stay distinct.
LEMMA SortedOnce ==
    ASSUME NEW X, NEW s \in Seq(X), NEW P \in SUBSET DOMAIN s, NEW R, StrictTotal(P, R),
           \A i, j \in P : s[i] = s[j] => i = j,
           NEW k \in 1..Cardinality(P), NEW m \in 1..Cardinality(P),
           SortedBy(s, P, R)[k] = SortedBy(s, P, R)[m]
    PROVE  k = m
<1> DEFINE c == Cardinality(P)
           o == Listed(P, R)
<1>1. o \in [1..c -> P] /\ Lists(o, P, R)
  BY PlacesAreFinite, ListedLists
<1>2. SortedBy(s, P, R)[k] = s[o[k]] /\ SortedBy(s, P, R)[m] = s[o[m]]
  BY DEF SortedBy
<1> HIDE DEF o
<1>3. o[k] = o[m]
  BY <1>1, <1>2
<1> QED BY <1>1, <1>3, ListedOnce, PlacesAreFinite

\* The k-th entry kept is the one at the k-th place.
LEMMA PickedType ==
    ASSUME NEW X, NEW s \in Seq(X), NEW P \in SUBSET DOMAIN s
    PROVE  /\ Picked(s, P) \in Seq(X)
           /\ Len(Picked(s, P)) = Cardinality(P)
           /\ Cardinality(P) \in Nat
           /\ DOMAIN Picked(s, P) = 1..Cardinality(P)
           /\ \A k \in 1..Cardinality(P) :
                 /\ InOrder(P)[k] \in P
                 /\ Picked(s, P)[k] = s[InOrder(P)[k]]
<1> DEFINE c == Cardinality(P)
           o == InOrder(P)
           p == [k \in 1..c |-> s[o[k]]]
<1>1. c \in Nat
  BY PlacesAreFinite, FS_CardinalityType
<1>2. o \in [1..c -> P]
  BY PlacesAreFinite, InOrderIncreases DEF Increasing
<1>3. Picked(s, P) = p
  BY DEF Picked, SortedBy, InOrder
<1> HIDE DEF c, o
<1>4. p \in [1..c -> X]
  <2>1. \A k \in 1..c : o[k] \in DOMAIN s
    BY <1>2
  <2>2. \A k \in DOMAIN s : s[k] \in X
    OBVIOUS
  <2> QED BY <2>1, <2>2
<1>5. p \in Seq(X) /\ Len(p) = c
  BY <1>1, <1>4, SeqDef
<1>6. \A k \in 1..c : o[k] \in P /\ p[k] = s[o[k]]
  BY <1>2
<1> HIDE DEF p
<1>7. DOMAIN p = 1..c
  BY <1>4
<1> QED BY <1>1, <1>3, <1>5, <1>6, <1>7 DEF c, o

\* No entry at a place kept is lost.
LEMMA PickedHas ==
    ASSUME NEW X, NEW s \in Seq(X), NEW P \in SUBSET DOMAIN s, NEW i \in P
    PROVE  \E k \in 1..Cardinality(P) : Picked(s, P)[k] = s[i]
<1>1. \A k \in 1..Cardinality(P) : Picked(s, P)[k] = s[InOrder(P)[k]]
  BY DEF Picked, SortedBy, InOrder
<1>2. PICK k \in 1..Cardinality(P) : InOrder(P)[k] = i
  BY PlacesAreFinite, InOrderIncreases DEF Increasing
<1> QED BY <1>1, <1>2

\* Distinct entries stay distinct.
LEMMA PickedOnce ==
    ASSUME NEW X, NEW s \in Seq(X), NEW P \in SUBSET DOMAIN s,
           \A i, j \in P : s[i] = s[j] => i = j,
           NEW k \in 1..Cardinality(P), NEW m \in 1..Cardinality(P),
           Picked(s, P)[k] = Picked(s, P)[m]
    PROVE  k = m
<1>1. StrictTotal(P, Upwards(P))
  BY PlacesAreFinite, UpwardsIsTotal
<1> QED BY <1>1, SortedOnce DEF Picked

\* A loop that keeps everything returns what it was given.
LEMMA PickedAll ==
    ASSUME NEW X, NEW s \in Seq(X)
    PROVE  Picked(s, DOMAIN s) = s
<1> DEFINE n == Len(s)
<1>1. DOMAIN s = 1..n /\ n \in Nat /\ s = [i \in 1..n |-> s[i]]
  BY LenProperties
<1> HIDE DEF n
<1>2. InOrder(1..n) = [i \in 1..n |-> i] /\ Cardinality(1..n) = n
  BY <1>1, InOrderInterval
<1>3. Picked(s, 1..n) = [k \in 1..n |-> s[k]]
  BY <1>2 DEF Picked, SortedBy, InOrder
<1> QED BY <1>1, <1>3

-----------------------------------------------------------------------------
(* What a loop over a sequence has not seen.                               *)

\* No value occurs twice.
Once(s) == \A i, j \in DOMAIN s : s[i] = s[j] => i = j

\* The first places of the values of a sequence are finitely many, and no
\* value has two.
LEMMA FirstPlaces ==
    ASSUME NEW X, NEW s \in Seq(X)
    PROVE  /\ Firsts(s) \in SUBSET (1..Len(s))
           /\ Firsts(s) \in SUBSET Nat
           /\ IsFiniteSet(Firsts(s))
           /\ \A i, j \in Firsts(s) : s[i] = s[j] => i = j
<1>1. DOMAIN s = 1..Len(s) /\ Len(s) \in Nat
  OBVIOUS
<1>2. Firsts(s) \in SUBSET (1..Len(s))
  BY <1>1 DEF Firsts
<1>3. IsFiniteSet(Firsts(s))
  BY <1>1, <1>2, PlacesAreFinite
<1>4. ASSUME NEW i \in Firsts(s), NEW j \in Firsts(s), s[i] = s[j] PROVE i = j
  <2>1. i \in 1..Len(s) /\ j \in 1..Len(s)
    BY <1>2
  <2>2. ~(i < j)
    <3> SUFFICES ASSUME i < j PROVE FALSE
      OBVIOUS
    <3>1. i \in 1..(j - 1)
      BY <1>1, <2>1
    <3> QED BY <1>4, <3>1 DEF Firsts
  <2>3. ~(j < i)
    <3> SUFFICES ASSUME j < i PROVE FALSE
      OBVIOUS
    <3>1. j \in 1..(i - 1)
      BY <1>1, <2>1
    <3> QED BY <1>4, <3>1 DEF Firsts
  <2> QED BY <1>1, <2>1, <2>2, <2>3
<1> QED BY <1>1, <1>2, <1>3, <1>4

\* Where no value occurs twice, every place is a first one.
LEMMA AllFirst ==
    ASSUME NEW X, NEW s \in Seq(X), Once(s)
    PROVE  Firsts(s) = DOMAIN s
<1>1. DOMAIN s = 1..Len(s) /\ Len(s) \in Nat
  OBVIOUS
<1>2. ASSUME NEW i \in DOMAIN s, NEW j \in 1..(i - 1) PROVE s[j] # s[i]
  <2>1. j \in DOMAIN s /\ j # i
    BY <1>1
  <2> QED BY <2>1 DEF Once
<1> QED BY <1>2 DEF Firsts

-----------------------------------------------------------------------------
(* A filtering loop over a list that grows at its end.                     *)

\* What was at a place is still there.
LEMMA AppendPlaces ==
    ASSUME NEW X, NEW s \in Seq(X), NEW x \in X
    PROVE  /\ Append(s, x) \in Seq(X)
           /\ DOMAIN Append(s, x) = DOMAIN s \cup {Len(s) + 1}
           /\ Len(s) + 1 \notin DOMAIN s
           /\ \A i \in DOMAIN s : Append(s, x)[i] = s[i]
           /\ Append(s, x)[Len(s) + 1] = x
<1>1. DOMAIN s = 1..Len(s) /\ Len(s) \in Nat
  OBVIOUS
<1>2. /\ Append(s, x) \in Seq(X)
      /\ Len(Append(s, x)) = Len(s) + 1
      /\ \A i \in 1..Len(s) : Append(s, x)[i] = s[i]
      /\ Append(s, x)[Len(s) + 1] = x
  BY AppendProperties
<1>3. DOMAIN Append(s, x) = 1..(Len(s) + 1)
  BY <1>2
<1>4. 1..(Len(s) + 1) = 1..Len(s) \cup {Len(s) + 1}
  BY <1>1
<1> QED BY <1>1, <1>2, <1>3, <1>4

\* What is not kept changes nothing.
LEMMA PickedSkip ==
    ASSUME NEW X, NEW s \in Seq(X), NEW x \in X, NEW P \in SUBSET DOMAIN s
    PROVE  Picked(Append(s, x), P) = Picked(s, P)
<1> DEFINE c == Cardinality(P)
           o == InOrder(P)
<1>1. \A k \in 1..c : o[k] \in P
  BY PickedType
<1>2. \A k \in 1..c : Append(s, x)[o[k]] = s[o[k]]
  BY <1>1, AppendPlaces
<1>3. /\ Picked(Append(s, x), P) = [k \in 1..c |-> Append(s, x)[o[k]]]
      /\ Picked(s, P) = [k \in 1..c |-> s[o[k]]]
  BY DEF Picked, SortedBy, InOrder
<1> HIDE DEF c, o
<1> QED BY <1>2, <1>3

\* What is kept comes last.
LEMMA PickedAppend ==
    ASSUME NEW X, NEW s \in Seq(X), NEW x \in X, NEW P \in SUBSET DOMAIN s
    PROVE  Picked(Append(s, x), P \cup {Len(s) + 1}) = Append(Picked(s, P), x)
<1> DEFINE c == Cardinality(P)
           n == Len(s) + 1
           o == InOrder(P)
           w == InOrder(P \cup {n})
           t == Append(s, x)
           q == Picked(s, P)
<1>1. n \in Nat /\ \A i \in P : i < n
  <2>1. DOMAIN s = 1..Len(s) /\ Len(s) \in Nat
    OBVIOUS
  <2> QED BY <2>1
<1>2. IsFiniteSet(P) /\ P \in SUBSET Nat
  BY PlacesAreFinite
<1>3. /\ Cardinality(P \cup {n}) = c + 1
      /\ w = [i \in 1..(c + 1) |-> IF i <= c THEN o[i] ELSE n]
  <2> HIDE DEF n
  <2> QED BY <1>1, <1>2, InOrderAppend
<1>4. /\ q \in Seq(X) /\ Len(q) = c /\ c \in Nat
      /\ \A k \in 1..c : o[k] \in P /\ q[k] = s[o[k]]
  BY PickedType
<1>5. t[n] = x /\ \A i \in P : t[i] = s[i]
  BY AppendPlaces
<1>6. Picked(t, P \cup {n}) = [k \in 1..Cardinality(P \cup {n}) |-> t[w[k]]]
  BY DEF Picked, SortedBy, InOrder
<1>7. /\ Append(q, x) \in Seq(X) /\ Len(Append(q, x)) = c + 1
      /\ \A k \in 1..c : Append(q, x)[k] = q[k]
      /\ Append(q, x)[c + 1] = x
  BY <1>4, AppendProperties
<1> HIDE DEF c, n, o, w, t, q
<1>8. Append(q, x) = [k \in 1..(c + 1) |-> Append(q, x)[k]]
  BY <1>7, LenProperties
<1>9. \A k \in 1..(c + 1) : t[w[k]] = Append(q, x)[k]
  <2> SUFFICES ASSUME NEW k \in 1..(c + 1) PROVE t[w[k]] = Append(q, x)[k]
    OBVIOUS
  <2>1. CASE k <= c
    <3>1. k \in 1..c /\ w[k] = o[k]
      BY <1>3, <1>4, <2>1
    <3> QED BY <1>4, <1>5, <1>7, <3>1
  <2>2. CASE ~(k <= c)
    <3>1. k = c + 1 /\ w[k] = n
      BY <1>3, <1>4, <2>2
    <3> QED BY <1>5, <1>7, <3>1
  <2> QED BY <2>1, <2>2
<1> QED BY <1>3, <1>6, <1>8, <1>9 DEF t, n, q

-----------------------------------------------------------------------------
(* A loop that keeps what does not clash with anything it has kept.        *)

\* What such a loop decides about the first n values, as a function of what
\* it decided before.
Decides(f, n, wanted, clash) ==
    f = [i \in 1..n |-> i \in wanted
                        /\ \A j \in 1..(i - 1) : f[j] => <<i, j>> \notin clash]

\* There is such a function.
LEMMA DecisionExists ==
    ASSUME NEW n \in Nat, NEW wanted, NEW clash
    PROVE  \E f : Decides(f, n, wanted, clash)
<1> DEFINE A == {m \in Nat : \E f : Decides(f, m, wanted, clash)}
<1>1. 0 \in A
  <2> DEFINE f == [i \in 1..0 |-> FALSE]
  <2>1. Decides(f, 0, wanted, clash)
    BY DEF Decides
  <2> QED BY <2>1
<1>2. ASSUME NEW m \in Nat, m \in A PROVE m + 1 \in A
  <2>1. PICK f : Decides(f, m, wanted, clash)
    BY <1>2
  <2> DEFINE kept(i) == i \in wanted /\ \A j \in 1..(i - 1) : f[j] => <<i, j>> \notin clash
             g == [i \in 1..(m + 1) |-> kept(i)]
  <2>2. \A i \in 1..m : f[i] = kept(i)
    BY <2>1 DEF Decides
  <2>3. \A i \in 1..m : g[i] = f[i]
    BY <2>2
  <2>4. \A i \in 1..(m + 1) : \A j \in 1..(i - 1) : g[j] = f[j]
    <3>1. \A i \in 1..(m + 1) : \A j \in 1..(i - 1) : j \in 1..m
      OBVIOUS
    <3> HIDE DEF g
    <3> QED BY <2>3, <3>1
  <2>5. \A i \in 1..(m + 1) :
            kept(i) = (i \in wanted /\ \A j \in 1..(i - 1) : g[j] => <<i, j>> \notin clash)
    BY <2>4
  <2> HIDE DEF kept
  <2>6. g = [i \in 1..(m + 1) |-> i \in wanted
                /\ \A j \in 1..(i - 1) : g[j] => <<i, j>> \notin clash]
    BY <2>5
  <2> HIDE DEF g
  <2>7. Decides(g, m + 1, wanted, clash)
    BY <2>6 DEF Decides
  <2> QED BY <2>7
<1> HIDE DEF A
<1>3. n \in A
  BY <1>1, <1>2, NatInductionOn
<1> QED BY <1>3 DEF A
=============================================================================
