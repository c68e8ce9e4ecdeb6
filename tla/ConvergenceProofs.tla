-------------------------- MODULE ConvergenceProofs ---------------------------
(***************************************************************************)
(* Theorems of Convergence: what no measured round can reach, how the      *)
(* history of a meeting constrains the rounds that follow, and the ranges  *)
(* of its signals.                                                         *)
(***************************************************************************)
EXTENDS Convergence, ListingProofs

-----------------------------------------------------------------------------
(* Arithmetic of the signals.                                              *)

\* The smaller and the larger of two integers.
LEMMA MinOfTwo ==
    ASSUME NEW a \in Int, NEW b \in Int
    PROVE  Min({a, b}) \in Int /\ Min({a, b}) <= a /\ Min({a, b}) <= b
           /\ (Min({a, b}) = a \/ Min({a, b}) = b)
<1>1. \E x \in {a, b} : \A y \in {a, b} : x <= y
    OBVIOUS
<1>2. Min({a, b}) \in {a, b} /\ \A y \in {a, b} : Min({a, b}) <= y
    BY <1>1, Zenon DEF Min
<1> QED BY <1>2

\* The larger, likewise.
LEMMA MaxOfTwo ==
    ASSUME NEW a \in Int, NEW b \in Int
    PROVE  Max({a, b}) \in Int /\ Max({a, b}) >= a /\ Max({a, b}) >= b
           /\ (Max({a, b}) = a \/ Max({a, b}) = b)
<1>1. \E x \in {a, b} : \A y \in {a, b} : x >= y
    OBVIOUS
<1>2. Max({a, b}) \in {a, b} /\ \A y \in {a, b} : Max({a, b}) >= y
    BY <1>1, Zenon DEF Max
<1> QED BY <1>2

\* One part in two or more of a thousand is at most half of it.
LEMMA HalfOrLess ==
    ASSUME NEW k \in Nat, k >= 2
    PROVE  1000 \div k \in Int /\ 1000 \div k <= 500
<1>1. 1000 \div k \in Int
    BY SMT
<1>2. 1000 = k * (1000 \div k) + (1000 % k) /\ 1000 % k >= 0
    BY SMT
<1>3. SUFFICES ASSUME 1000 \div k >= 501 PROVE FALSE
    BY <1>1
<1>4. k * (1000 \div k) >= 2 * (1000 \div k)
    BY <1>1, <1>3, SMT
<1> QED BY <1>1, <1>2, <1>3, <1>4, SMT

-----------------------------------------------------------------------------
(* The mean and the lead of a round.                                       *)

\* Which claims found a cluster: those with words that resemble no founder
\* before them.
LEMMA FoundersAre ==
    ASSUME NEW n \in Nat, NEW claims, DOMAIN claims = 1..n
    PROVE  /\ Founders(claims) \subseteq 1..n
           /\ \A i \in 1..n :
                i \in Founders(claims) <=>
                    /\ claims[i] # {}
                    /\ \A j \in 1..(i - 1) :
                           j \in Founders(claims) => ~Similar(claims[i], claims[j])
<1> DEFINE starts == CHOOSE f : f = [i \in DOMAIN claims |->
                /\ claims[i] # {}
                /\ \A j \in 1..(i - 1) : f[j] => ~Similar(claims[i], claims[j])]
           wanted == {i \in 1..n : claims[i] # {}}
           clash == {p \in (1..n) \X (1..n) : Similar(claims[p[1]], claims[p[2]])}
<1>1. Founders(claims) = {i \in 1..n : starts[i]}
    BY DEF Founders
<1>2. PICK f : Decides(f, n, wanted, clash)
    BY DecisionExists
<1>3. f = [i \in 1..n |->
                /\ claims[i] # {}
                /\ \A j \in 1..(i - 1) : f[j] => ~Similar(claims[i], claims[j])]
    <2>1. ASSUME NEW i \in 1..n
          PROVE  (i \in wanted /\ \A j \in 1..(i - 1) : f[j] => <<i, j>> \notin clash)
                   = (/\ claims[i] # {}
                      /\ \A j \in 1..(i - 1) : f[j] => ~Similar(claims[i], claims[j]))
        <3>1. \A j \in 1..(i - 1) : <<i, j>> \in clash <=> Similar(claims[i], claims[j])
            OBVIOUS
        <3>2. i \in wanted <=> claims[i] # {}
            OBVIOUS
        <3> HIDE DEF wanted, clash
        <3> QED BY <3>1, <3>2
    <2> HIDE DEF wanted, clash
    <2> QED BY <1>2, <2>1 DEF Decides
<1>4. starts = [i \in 1..n |->
                /\ claims[i] # {}
                /\ \A j \in 1..(i - 1) : starts[j] => ~Similar(claims[i], claims[j])]
    BY <1>3, Zenon
<1> HIDE DEF starts
<1>5. \A i \in 1..n : \A j \in 1..(i - 1) : j \in Founders(claims) <=> starts[j]
    BY <1>1
<1>6. \A i \in 1..n : starts[i] <=>
                    /\ claims[i] # {}
                    /\ \A j \in 1..(i - 1) : starts[j] => ~Similar(claims[i], claims[j])
    BY <1>4
<1> QED BY <1>1, <1>5, <1>6

\* The sum that a fold computes over the subsets of S, from that of the
\* smaller ones.
Sums(f, D, c) ==
    f = [s \in D |-> IF s = {} THEN 0
                     ELSE LET x == CHOOSE x \in s : TRUE IN c[x] + f[s \ {x}]]

\* There is such a sum over every finite set.
LEMMA SumExists ==
    ASSUME NEW S, IsFiniteSet(S), NEW c
    PROVE  \E f : Sums(f, SUBSET S, c)
<1> DEFINE D(k) == {s \in SUBSET S : Cardinality(s) <= k}
           A == {k \in Nat : \E f : Sums(f, D(k), c)}
           pick(s) == CHOOSE x \in s : TRUE
<1>1. \A s \in SUBSET S : IsFiniteSet(s) /\ Cardinality(s) \in Nat
    BY FS_Subset, FS_CardinalityType
<1>2. 0 \in A
    <2> DEFINE f == [s \in D(0) |-> 0]
    <2>1. \A s \in D(0) : s = {}
        BY <1>1, FS_EmptySet
    <2>2. f = [s \in D(0) |-> IF s = {} THEN 0
                     ELSE LET x == CHOOSE x \in s : TRUE IN c[x] + f[s \ {x}]]
        BY <2>1
    <2> HIDE DEF f, D
    <2>3. Sums(f, D(0), c)
        BY <2>2 DEF Sums
    <2> QED BY <2>3
<1>3. ASSUME NEW k \in Nat, k \in A PROVE k + 1 \in A
    <2>1. PICK f : Sums(f, D(k), c)
        BY <1>3
    <2> DEFINE sum(s, h) == IF s = {} THEN 0
                            ELSE LET x == CHOOSE x \in s : TRUE IN c[x] + h[s \ {x}]
               g == [s \in D(k + 1) |-> sum(s, f)]
    <2>2. \A s \in D(k) : f[s] = sum(s, f) /\ s \in D(k + 1)
        <3>1. f = [s \in D(k) |-> sum(s, f)]
            BY <2>1 DEF Sums
        <3>2. \A s \in D(k) : s \in D(k + 1)
            BY <1>1
        <3> HIDE DEF sum, D
        <3> QED BY <3>1, <3>2
    <2>3. \A s \in D(k) : g[s] = f[s]
        <3> HIDE DEF sum, D
        <3> QED BY <2>2
    <2>4. \A s \in D(k + 1) : s # {} => s \ {pick(s)} \in D(k)
        <3> SUFFICES ASSUME NEW s \in D(k + 1), s # {} PROVE s \ {pick(s)} \in D(k)
            OBVIOUS
        <3>1. pick(s) \in s
            OBVIOUS
        <3> HIDE DEF pick
        <3>2. Cardinality(s \ {pick(s)}) = Cardinality(s) - 1
            BY <1>1, <3>1, FS_RemoveElement
        <3> QED BY <1>1, <3>2
    <2>5. \A s \in D(k + 1) : sum(s, f) = sum(s, g)
        <3> SUFFICES ASSUME NEW s \in D(k + 1) PROVE sum(s, f) = sum(s, g)
            OBVIOUS
        <3>1. CASE s = {}
            BY <3>1
        <3>2. CASE s # {}
            <4>1. f[s \ {pick(s)}] = g[s \ {pick(s)}]
                <5> HIDE DEF g, D, pick
                <5> QED BY <2>3, <2>4, <3>2
            <4> HIDE DEF g, D
            <4> QED BY <3>2, <4>1
        <3> QED BY <3>1, <3>2
    <2>6. g = [s \in D(k + 1) |-> sum(s, g)]
        <3> HIDE DEF sum, D
        <3> QED BY <2>5
    <2> HIDE DEF g, D
    <2>7. Sums(g, D(k + 1), c)
        BY <2>6 DEF Sums
    <2> QED BY <2>7
<1> HIDE DEF A, D
<1>4. \A k \in Nat : k \in A
    BY <1>2, <1>3, NatInductionOn
<1>5. D(Cardinality(S)) = SUBSET S
    <2>1. \A s \in SUBSET S : Cardinality(s) <= Cardinality(S)
        BY FS_Subset
    <2> QED BY <2>1 DEF D
<1> QED BY <1>1, <1>4, <1>5 DEF A

Total(c, S) == MapThenSumSet(LAMBDA i : c[i], S)

\* A sum of natural numbers is one.
LEMMA SumIsNatural ==
    ASSUME NEW S, IsFiniteSet(S), NEW c, \A x \in S : c[x] \in Nat
    PROVE  Total(c, S) \in Nat
<1> DEFINE sum == CHOOSE f : f = [s \in SUBSET S |-> IF s = {} THEN 0
                     ELSE LET x == CHOOSE x \in s : TRUE IN c[x] + f[s \ {x}]]
           A == {s \in SUBSET S : sum[s] \in Nat}
<1>1. Total(c, S) = sum[S]
    BY DEF Total, MapThenSumSet, MapThenFoldSet
<1>2. sum = [s \in SUBSET S |-> IF s = {} THEN 0
                     ELSE LET x == CHOOSE x \in s : TRUE IN c[x] + sum[s \ {x}]]
    <2>1. \E f : f = [s \in SUBSET S |-> IF s = {} THEN 0
                     ELSE LET x == CHOOSE x \in s : TRUE IN c[x] + f[s \ {x}]]
        <3>1. PICK f : Sums(f, SUBSET S, c)
            BY SumExists
        <3> QED BY <3>1 DEF Sums
    <2> QED BY <2>1, Zenon
<1> HIDE DEF sum
<1>3. ASSUME NEW s \in SUBSET S, \A u \in SUBSET s : u # s => u \in A PROVE s \in A
    <2>1. CASE s = {}
        BY <1>2, <2>1
    <2>2. CASE s # {}
        <3> DEFINE x == CHOOSE x \in s : TRUE
        <3>1. x \in s
            BY <2>2
        <3>2. sum[s] = c[x] + sum[s \ {x}]
            BY <1>2, <2>2
        <3> HIDE DEF x
        <3>3. sum[s \ {x}] \in Nat /\ c[x] \in Nat
            BY <1>3, <3>1
        <3> QED BY <3>2, <3>3
    <2> QED BY <2>1, <2>2
<1> HIDE DEF A
<1>4. S \in A
    BY <1>3, SubsetInduction, Zenon
<1> QED BY <1>1, <1>4 DEF A

\* The mean of at least one confidence is a natural number.
LEMMA MeanIsNatural ==
    ASSUME NEW S, IsFiniteSet(S), S # {}, NEW c, \A x \in S : c[x] \in Nat
    PROVE  Mean(c, S) \in Nat
<1> DEFINE sum == Total(c, S)
           n == Cardinality(S)
<1>1. sum \in Nat
    BY SumIsNatural
<1>2. n \in Nat /\ n # 0
    BY FS_CardinalityType, FS_EmptySet
<1>3. Mean(c, S) = sum \div n
    BY DEF Mean, Total
<1> HIDE DEF sum, n
<1>4. sum \div n \in Nat
    BY <1>1, <1>2, SMT
<1> QED BY <1>3, <1>4

\* Among finitely many means one is the highest.
LEMMA HighestMean ==
    ASSUME NEW S \in SUBSET Nat, IsFiniteSet(S), S # {},
           NEW means, \A k \in S : means[k] \in Nat
    PROVE  \E j \in S : \A k \in S : means[j] >= means[k]
<1> DEFINE R == {p \in S \X S : \/ means[p[1]] < means[p[2]]
                                \/ (means[p[1]] = means[p[2]] /\ p[1] < p[2])}
<1>1. \A j, k \in S :
          <<j, k>> \in R <=> (means[j] < means[k] \/ (means[j] = means[k] /\ j < k))
    OBVIOUS
<1>2. \A k \in S : k \in Nat /\ means[k] \in Nat
    OBVIOUS
<1> HIDE DEF R
<1>3. StrictTotal(S, R)
    BY <1>1, <1>2 DEF StrictTotal
<1>4. PICK j \in S : \A k \in S : k # j => <<k, j>> \in R
    BY <1>3, LastMember
<1>5. ASSUME NEW k \in S PROVE means[j] >= means[k]
    <2>1. means[j] \in Nat /\ means[k] \in Nat
        BY <1>2
    <2>2. CASE k = j
        BY <2>1, <2>2
    <2>3. CASE k # j
        <3>1. means[k] < means[j] \/ means[k] = means[j]
            BY <1>1, <1>4, <2>3
        <3> QED BY <2>1, <3>1
    <2> QED BY <2>2, <2>3
<1> QED BY <1>5

\* The least member of a set of numbers that has one.
LEMMA MinIsLeast ==
    ASSUME NEW S \in SUBSET Nat, NEW m \in S, \A x \in S : m <= x
    PROVE  Min(S) = m
<1>1. \E x \in S : \A y \in S : x <= y
    OBVIOUS
<1>2. Min(S) \in S /\ \A y \in S : Min(S) <= y
    BY <1>1, Zenon DEF Min
<1>3. Min(S) \in Nat /\ m \in Nat /\ Min(S) <= m /\ m <= Min(S)
    BY <1>2
<1> QED BY <1>3

\* A founder is a member of its own cluster.
LEMMA FounderJoinsItself ==
    ASSUME NEW n \in Nat, NEW claims \in [1..n -> SUBSET Words],
           NEW j \in Founders(claims)
    PROVE  j \in Members(claims, j)
<1> DEFINE similar == {k \in Founders(claims) : Similar(claims[j], claims[k])}
<1>1. /\ Founders(claims) \subseteq 1..n
      /\ claims[j] # {}
      /\ \A k \in 1..(j - 1) : k \in Founders(claims) => ~Similar(claims[j], claims[k])
    BY FoundersAre
<1>2. Similar(claims[j], claims[j])
    <2>1. IsFiniteSet(claims[j])
        BY <1>1, InputAssumption, FS_Subset
    <2>2. Cardinality(claims[j]) \in Nat
        BY <2>1, FS_CardinalityType
    <2>3. claims[j] \cap claims[j] = claims[j] /\ claims[j] \cup claims[j] = claims[j]
        OBVIOUS
    <2>4. 2 * Cardinality(claims[j]) >= Cardinality(claims[j])
        BY <2>2
    <2> QED BY <1>1, <2>3, <2>4 DEF Similar
<1>3. j \in similar /\ similar \in SUBSET Nat
    BY <1>1, <1>2
<1>4. \A k \in similar : j <= k
    BY <1>1
<1> HIDE DEF similar
<1>5. Min(similar) = j
    BY <1>3, <1>4, MinIsLeast
<1> QED BY <1>1, <1>5 DEF similar, Members, FounderOf

\* The lead of the best cluster over the next is a natural number.
LEMMA LeadIsNatural ==
    ASSUME NEW founders \in SUBSET Nat, IsFiniteSet(founders), founders # {},
           Cardinality(founders) # 1,
           NEW means \in [founders -> Nat]
    PROVE  LeadOf(means, founders) \in Nat
<1> DEFINE top == CHOOSE j \in founders : \A k \in founders : means[j] >= means[k]
           rest == {means[k] : k \in founders \ {top}}
<1>0. \A k \in founders : means[k] \in Nat
    OBVIOUS
<1>1. \E j \in founders : \A k \in founders : means[j] >= means[k]
    BY <1>0, HighestMean
<1>2. top \in founders /\ \A k \in founders : means[top] >= means[k]
    BY <1>1, Zenon
<1>3. LeadOf(means, founders) = means[top] - Max(rest)
    BY DEF LeadOf
<1> HIDE DEF top
<1>4. \E j \in founders \ {top} : \A k \in founders \ {top} : means[j] >= means[k]
    <2> DEFINE others == founders \ {top}
    <2>1. IsFiniteSet(others)
        BY FS_Subset
    <2>2. others # {}
        <3>1. SUFFICES ASSUME founders = {top} PROVE FALSE
            BY <1>2
        <3> QED BY <3>1, FS_Singleton
    <2>3. others \in SUBSET Nat /\ \A k \in others : means[k] \in Nat
        BY <1>0
    <2> HIDE DEF others
    <2>4. \E j \in others : \A k \in others : means[j] >= means[k]
        BY <2>1, <2>2, <2>3, HighestMean
    <2> QED BY <2>4 DEF others
<1>5. \E x \in rest : \A y \in rest : x >= y
    BY <1>4
<1>6. Max(rest) \in rest
    <2> HIDE DEF rest
    <2> QED BY <1>5, Zenon DEF Max
<1>7. PICK k \in founders : Max(rest) = means[k]
    BY <1>6
<1>8. means[k] \in Nat /\ means[top] \in Nat /\ means[top] >= means[k]
    BY <1>0, <1>2
<1> HIDE DEF rest
<1> QED BY <1>3, <1>7, <1>8

\* Whatever is said, a round measures natural numbers, and disagreement at
\* most in full.
LEMMA MeasureTyped ==
    ASSUME NEW m \in Measurements
    PROVE  m.speakers \in Nat /\ m.mean \in Nat /\ m.margin \in Nat
           /\ m.disagreement \in Int
<1>0. PICK n \in 1..MaxTurns : \E t \in [1..n -> Turn] : m = Measure(t)
    BY DEF Measurements
<1>1. PICK turns \in [1..n -> Turn] : m = Measure(turns)
    BY <1>0
<1>2. n \in Nat /\ n # 0 /\ 1 \in 1..n
    BY SignalAssumption
<1> DEFINE claims == [i \in DOMAIN turns |-> turns[i].claim]
           confidences == [i \in DOMAIN turns |-> turns[i].confidence]
           founders == Founders(claims)
           means == [j \in founders |-> Mean(confidences, Members(claims, j))]
<1>3. /\ m.speakers = Len(turns)
      /\ m.mean = Mean(confidences, 1..n)
      /\ m.disagreement = DisagreementOf(Cardinality(founders))
      /\ m.margin = Margin(means, founders)
    BY <1>1 DEF Measure
<1>4. claims \in [1..n -> SUBSET Words]
    BY DEF Turn
<1>5. \A i \in 1..n : confidences[i] \in Nat
    <2>1. \A i \in 1..n : confidences[i] \in Confidences
        BY DEF Turn
    <2>2. \A x \in Confidences : x \in Nat
        BY SignalAssumption
    <2> QED BY <2>1, <2>2
<1> HIDE DEF claims, confidences
<1>6. Len(turns) \in Nat
    BY <1>2
<1>7. IsFiniteSet(1..n)
    BY <1>2, FS_Interval
<1>8. m.mean \in Nat
    <2> DEFINE all == 1..n
    <2>1. IsFiniteSet(all) /\ all # {} /\ \A x \in all : confidences[x] \in Nat
        BY <1>2, <1>5, <1>7
    <2> HIDE DEF all
    <2>2. Mean(confidences, all) \in Nat
        BY <2>1, MeanIsNatural
    <2> QED BY <1>3, <2>2 DEF all
<1>9. founders \subseteq 1..n /\ founders \in SUBSET Nat
    BY <1>2, <1>4, FoundersAre
<1>10. \A j \in founders : Mean(confidences, Members(claims, j)) \in Nat
    <2> SUFFICES ASSUME NEW j \in founders
                 PROVE  Mean(confidences, Members(claims, j)) \in Nat
        OBVIOUS
    <2>1. j \in Members(claims, j)
        BY <1>2, <1>4, FounderJoinsItself
    <2>2. Members(claims, j) \subseteq 1..n
        BY <1>4 DEF Members
    <2>3. IsFiniteSet(Members(claims, j))
        BY <1>7, <2>2, FS_Subset
    <2> QED BY <1>5, <2>1, <2>2, <2>3, MeanIsNatural
<1>11. means \in [founders -> Nat]
    BY <1>10
<1>12. IsFiniteSet(founders) /\ Cardinality(founders) \in Nat
    BY <1>7, <1>9, FS_Subset, FS_CardinalityType
<1> HIDE DEF founders, means
<1>13. m.margin \in Nat
    <2>1. CASE founders = {}
        BY <1>3, <2>1 DEF Margin
    <2>2. CASE founders # {} /\ Cardinality(founders) = 1
        BY <1>3, <2>2 DEF Margin
    <2>3. CASE founders # {} /\ Cardinality(founders) # 1
        <3>1. LeadOf(means, founders) \in Nat
            BY <1>9, <1>11, <1>12, <2>3, LeadIsNatural
        <3>2. Margin(means, founders) = LeadOf(means, founders)
            BY <2>3 DEF Margin
        <3> QED BY <1>3, <3>1, <3>2
    <2> QED BY <2>1, <2>2, <2>3
<1>14. m.disagreement \in Int
    <2> DEFINE k == Cardinality(founders)
    <2>1. k \in Nat /\ m.disagreement = DisagreementOf(k)
        BY <1>3, <1>12
    <2> HIDE DEF k
    <2>2. CASE k \in {0, 1}
        BY <2>1, <2>2 DEF DisagreementOf
    <2>3. CASE k >= 2
        <3>1. 1000 \div k \in Int
            BY <2>1, <2>3, HalfOrLess
        <3>2. DisagreementOf(k) = 1000 - 1000 \div k
            BY <2>1, <2>3 DEF DisagreementOf
        <3> QED BY <2>1, <3>1, <3>2
    <2> QED BY <2>1, <2>2, <2>3
<1> QED BY <1>3, <1>6, <1>8, <1>13, <1>14

-----------------------------------------------------------------------------
(* What a round can measure.                                               *)

\* Claims fall in no cluster or one, and then nothing leads by much, or in
\* several, and then at least half of the round disagrees.
LEMMA MeasuredSplit ==
    ASSUME NEW m \in Measurements
    PROVE  \/ m.margin \in {0, 50}
           \/ m.disagreement \in Int /\ m.disagreement >= 500
<1>0. PICK n \in 1..MaxTurns : \E t \in [1..n -> Turn] : m = Measure(t)
    BY DEF Measurements
<1>1. PICK turns \in [1..n -> Turn] : m = Measure(turns)
    BY <1>0
<1> DEFINE claims == [i \in DOMAIN turns |-> turns[i].claim]
           founders == Founders(claims)
<1>2. founders \subseteq 1..n
    BY DEF Founders
<1>3. IsFiniteSet(founders) /\ Cardinality(founders) \in Nat
    <2>1. IsFiniteSet(1..n)
        BY FS_Interval
    <2> QED BY <2>1, <1>2, FS_Subset, FS_CardinalityType
<1>4. Cardinality(founders) = 0 <=> founders = {}
    BY <1>3, FS_EmptySet
<1>5. m.disagreement = DisagreementOf(Cardinality(founders))
    BY <1>1 DEF Measure
<1>6. \E means : m.margin = Margin(means, founders)
    BY <1>1 DEF Measure
<1> HIDE DEF founders
<1>7. CASE Cardinality(founders) \in {0, 1}
    BY <1>4, <1>6, <1>7 DEF Margin
<1>8. CASE Cardinality(founders) >= 2
    <2>1. m.disagreement = 1000 - 1000 \div Cardinality(founders)
        BY <1>3, <1>5, <1>8 DEF DisagreementOf
    <2> QED BY <1>3, <1>8, <2>1, HalfOrLess
<1> QED BY <1>3, <1>7, <1>8

\* No measurement and no synthesis together reach the threshold.
LEMMA NoRoundReaches ==
    ASSUME NEW m \in Measurements, NEW out \in SynthesisOutput, NEW open
    PROVE  ~ThresholdReached(SignalsAfterRound(m, out, open))
<1> DEFINE s == SignalsAfterRound(m, out, open)
           points == 30 * out.agreement
           disputes == 40 * out.disagreement
           boost == Min({120, points})
           adjustment == Min({160, disputes})
<1> SUFFICES ~(s.margin >= 120) \/ ~(s.disagreement <= 350)
    BY DEF ThresholdReached
<1>1. points \in Int /\ points >= 0 /\ disputes \in Int /\ disputes >= 0
    <2>1. out.agreement \in Counts /\ out.disagreement \in Counts
        BY DEF SynthesisOutput
    <2>2. Counts \subseteq 0..6
        BY SignalAssumption
    <2>3. out.agreement \in 0..6 /\ out.disagreement \in 0..6
        BY <2>1, <2>2
    <2> QED BY <2>3
<1> HIDE DEF points, disputes
<1>2. boost \in 0..120
    <2>1. /\ boost \in Int /\ boost <= 120
          /\ boost = 120 \/ boost = points
        <3> DEFINE hi == 120
        <3>1. hi \in Int /\ points \in Int /\ boost = Min({hi, points})
            BY <1>1
        <3> HIDE DEF hi, boost
        <3>2. /\ boost \in Int /\ boost <= hi
              /\ boost = hi \/ boost = points
            BY <3>1, MinOfTwo, Zenon
        <3> QED BY <3>2 DEF hi
    <2> QED BY <1>1, <2>1
<1>3. adjustment \in 0..160
    <2>1. /\ adjustment \in Int /\ adjustment <= 160
          /\ adjustment = 160 \/ adjustment = disputes
        <3> DEFINE hi == 160
        <3>1. hi \in Int /\ disputes \in Int /\ adjustment = Min({hi, disputes})
            BY <1>1
        <3> HIDE DEF hi, adjustment
        <3>2. /\ adjustment \in Int /\ adjustment <= hi
              /\ adjustment = hi \/ adjustment = disputes
            BY <3>1, MinOfTwo, Zenon
        <3> QED BY <3>2 DEF hi
    <2> QED BY <1>1, <2>1
<1>4. /\ s.margin = Min({240, m.margin + boost \div 2})
      /\ s.disagreement = Max({150, Min({950, m.disagreement + adjustment - boost})})
    BY DEF SignalsAfterRound, points, disputes
<1> HIDE DEF s, boost, adjustment
<1>5. CASE m.margin \in {0, 50}
    <2> DEFINE lead == m.margin + boost \div 2
    <2>1. boost \div 2 \in 0..60
        BY <1>2, SMT
    <2>2. lead \in Int /\ lead <= 110
        BY <1>5, <2>1
    <2>3. s.margin = Min({240, lead})
        BY <1>4
    <2> HIDE DEF lead
    <2>4. Min({240, lead}) \in Int /\ Min({240, lead}) <= lead
        <3> DEFINE hi == 240
        <3>1. hi \in Int
            OBVIOUS
        <3> HIDE DEF hi
        <3>2. Min({hi, lead}) \in Int /\ Min({hi, lead}) <= lead
            BY <2>2, <3>1, MinOfTwo, Zenon
        <3> QED BY <3>2 DEF hi
    <2> QED BY <2>2, <2>3, <2>4
<1>6. CASE m.disagreement \in Int /\ m.disagreement >= 500
    <2> DEFINE d == m.disagreement + adjustment - boost
    <2>1. d \in Int /\ d >= 380
        BY <1>2, <1>3, <1>6
    <2>2. s.disagreement = Max({150, Min({950, d})})
        BY <1>4
    <2> HIDE DEF d
    <2>3. Min({950, d}) \in Int /\ Min({950, d}) >= 380
        BY <2>1, MinOfTwo
    <2>4. s.disagreement \in Int /\ s.disagreement >= 380
        BY <2>2, <2>3, MaxOfTwo
    <2> QED BY <2>4
<1> QED BY <1>5, <1>6, MeasuredSplit

\* The consensus threshold of hybrid.py is out of reach of every meeting
\* whose specialists speak: no round ends by consensus, whatever the claims,
\* the confidences, the synthesis and the length of the meeting.
THEOREM ThresholdNeverReached == Spec => []ThresholdIsOutOfReach
<1>1. Init => ThresholdIsOutOfReach
    <2> SUFFICES ASSUME Init PROVE ThresholdIsOutOfReach
        OBVIOUS
    <2>1. last.signals.disagreement = 1000
        BY DEF Init, NoRound
    <2>2. ~ThresholdReached(last.signals)
        BY <2>1 DEF ThresholdReached
    <2> QED BY <2>2 DEF Init, ThresholdIsOutOfReach
<1>2. ThresholdIsOutOfReach /\ [Next]_vars => ThresholdIsOutOfReach'
    <2> SUFFICES ASSUME ThresholdIsOutOfReach, [Next]_vars
                 PROVE  ThresholdIsOutOfReach'
        OBVIOUS
    <2>1. CASE HumanMessage \/ UNCHANGED vars
        <3>1. last' = last /\ ended' = ended
            BY <2>1 DEF HumanMessage, vars
        <3> QED BY <3>1 DEF ThresholdIsOutOfReach
    <2>2. ASSUME NEW m \in Measurements, NEW out \in SynthesisOutput, NEW open,
                 NEW challenges, Round(m, out, open, challenges)
          PROVE  ThresholdIsOutOfReach'
        <3> DEFINE signals == SignalsAfterRound(m, out, open)
        <3>1. ~ThresholdReached(signals)
            BY NoRoundReaches
        <3>2. last'.signals = signals /\ ended' = EndOf(out, signals)
            BY <2>2 DEF Round
        <3>3. EndOf(out, signals) # "consensus"
            BY <3>1 DEF EndOf
        <3> QED BY <3>1, <3>2, <3>3 DEF ThresholdIsOutOfReach
    <2> QED BY <2>1, <2>2 DEF Next
<1> QED BY <1>1, <1>2, PTL DEF Spec

-----------------------------------------------------------------------------
(* The history of a meeting.                                               *)

Entry ==
    [phase : Phases, advised : BOOLEAN, advises : BOOLEAN, open : SUBSET Questions,
     candidate : Candidates, conclusion : ConclusionTypes]

HistoryTyped ==
    /\ history \in Seq(Entry)
    /\ questions \subseteq Questions
    /\ advice.phase \in Phases \cup {""}

\* What the next round starts from is what the last one left.
Linked ==
    LET h == history[Len(history)] IN
    /\ ended = "" => round = Len(history) + 1
    /\ history = <<>> => candidate = "" /\ conclusion = "" /\ advice.phase = ""
    /\ history # <<>> =>
        /\ candidate = h.candidate
        /\ conclusion = h.conclusion
        /\ advice.phase # "" <=> h.advises

\* The list of open questions is within its limit, and nothing a round has
\* left open is closed.
WithinLimit == Cardinality(questions) <= QuestionLimit
QuestionsKept == \A i \in DOMAIN history : history[i].open \ Answered \subseteq questions

HInv ==
    /\ HistoryTyped
    /\ Linked
    /\ WithinLimit
    /\ QuestionsKept
    /\ RaisedQuestionBlocksDecide
    /\ ProposalSettlesThePhase
    /\ AdviceLastsOneRound
    /\ RepeatedFollowUpEnds

\* The entry a round adds.
NewEntry(out, open) ==
    [phase |-> Phase, advised |-> advice.phase # "", advises |-> out.phase # "",
     open |-> open,
     candidate |-> out.candidate, conclusion |-> out.conclusion]

\* Advised or ruled, the phase of a round is one of the four.
LEMMA PhaseIsAPhase ==
    ASSUME advice.phase \in Phases \cup {""}
    PROVE  Phase \in Phases
<1>1. PhaseByRule \in Phases
    BY DEF PhaseByRule, Phases
<1> QED BY <1>1 DEF Phase

\* Without advice, a meeting that has a candidate converges on it, and one
\* with a visible question is not decided.
LEMMA PhaseWithoutAdvice ==
    ASSUME advice.phase = ""
    PROVE  /\ candidate # "" /\ round # 1 => Phase \in {"synthesize", "decide"}
           /\ Visible # {} => Phase # "decide"
<1>1. Phase = PhaseByRule
    BY DEF Phase
<1> QED BY <1>1 DEF PhaseByRule, Undecided

\* A synthesis is well formed.
LEMMA SynthesisTyped ==
    ASSUME NEW out \in SynthesisOutput
    PROVE  /\ out.open \subseteq Questions
           /\ out.candidate \in Candidates /\ out.candidate # ""
           /\ out.conclusion \in ConclusionTypes
           /\ out.phase \in Phases \cup {""}
<1>1. /\ out.open \in SUBSET Questions /\ out.candidate \in Candidates
      /\ out.conclusion \in Conclusions /\ out.phase \in AdvisedPhases
    BY DEF SynthesisOutput
<1> QED BY <1>1, InputAssumption

\* A list that goes on until the limit keeps what it had and stays within it.
LEMMA FilledKeeps ==
    ASSUME NEW listed \in SUBSET Questions, Cardinality(listed) <= QuestionLimit,
           NEW more \in SUBSET Questions, NEW open \in Filled(listed, more)
    PROVE  /\ listed \subseteq open /\ open \in SUBSET Questions
           /\ Cardinality(open) <= QuestionLimit
<1> DEFINE new == more \ listed
           free == QuestionLimit - Cardinality(listed)
<1>1. PICK some \in SUBSET new : /\ open = listed \cup some
                                 /\ Cardinality(some) = Min({free, Cardinality(new)})
    BY DEF Filled
<1>2. IsFiniteSet(listed) /\ IsFiniteSet(new) /\ IsFiniteSet(some)
    <2>1. IsFiniteSet(Questions)
        BY InputAssumption
    <2> QED BY <1>1, <2>1, FS_Subset
<1>3. /\ Cardinality(listed) \in Nat /\ Cardinality(new) \in Nat
      /\ Cardinality(some) \in Nat
    BY <1>2, FS_CardinalityType
<1>4. QuestionLimit \in Nat
    BY InputAssumption
<1>5. Cardinality(open) = Cardinality(listed) + Cardinality(some)
    <2>1. listed \cap some = {}
        BY <1>1
    <2>2. Cardinality(listed \cup some)
            = Cardinality(listed) + Cardinality(some) - Cardinality(listed \cap some)
        BY <1>2, FS_Union
    <2>3. Cardinality(listed \cap some) = 0
        BY <2>1, FS_EmptySet
    <2> QED BY <1>1, <1>3, <2>2, <2>3
<1>6. Cardinality(some) <= free
    <2>1. free \in Int /\ Cardinality(new) \in Int
        BY <1>3, <1>4
    <2> HIDE DEF free, new
    <2> QED BY <1>1, <2>1, MinOfTwo
<1>7. Cardinality(open) <= QuestionLimit
    BY <1>3, <1>4, <1>5, <1>6
<1> QED BY <1>1, <1>7

\* A list within the limit is not cut.
LEMMA NothingIsCut ==
    ASSUME NEW listed \in SUBSET Questions, Cardinality(listed) <= QuestionLimit,
           NEW open \in Filled({}, listed)
    PROVE  open = listed
<1>1. Cardinality({}) = 0
    BY FS_EmptySet
<1>2. QuestionLimit \in Nat /\ IsFiniteSet(listed)
    BY InputAssumption, FS_Subset
<1>3. Cardinality(listed) \in Nat
    BY <1>2, FS_CardinalityType
<1>4. QuestionLimit - 0 = QuestionLimit /\ listed \ {} = listed
    BY <1>2
<1>5. open \in SUBSET listed /\ Cardinality(open) = Min({QuestionLimit, Cardinality(listed)})
    BY <1>1, <1>4 DEF Filled
<1>6. Min({QuestionLimit, Cardinality(listed)}) = Cardinality(listed)
    <2>1. QuestionLimit \in Int /\ Cardinality(listed) \in Int
        BY <1>2, <1>3
    <2> DEFINE least == Min({QuestionLimit, Cardinality(listed)})
    <2>2. least \in Int /\ (least = QuestionLimit \/ least = Cardinality(listed))
          /\ least <= Cardinality(listed)
        BY <2>1, MinOfTwo, Zenon
    <2> HIDE DEF least
    <2>3. least = Cardinality(listed)
        BY <2>1, <2>2
    <2> QED BY <2>3 DEF least
<1> QED BY <1>2, <1>5, <1>6, FS_Subset

\* The questions of a brief are within the limit of a round.
LEMMA BriefWithinLimit == Init => WithinLimit
<1> SUFFICES ASSUME Init PROVE WithinLimit
    OBVIOUS
<1>1. questions \in SUBSET Questions /\ Cardinality(questions) <= BriefLimit
    BY DEF Init
<1>2. IsFiniteSet(questions)
    BY <1>1, InputAssumption, FS_Subset
<1>3. Cardinality(questions) \in Nat
    BY <1>2, FS_CardinalityType
<1>4. QuestionLimit \in Nat /\ BriefLimit \in 0..QuestionLimit
    BY InputAssumption, Zenon
<1> QED BY <1>1, <1>3, <1>4 DEF WithinLimit

\* What a round leaves open is within the limit and has all that was visible
\* before it.
LEMMA VisibleStays ==
    ASSUME questions \subseteq Questions, WithinLimit,
           NEW out \in SynthesisOutput, NEW open \in LeftOpen(out)
    PROVE  /\ Visible \subseteq open /\ open \in SUBSET Questions
           /\ Cardinality(open) <= QuestionLimit
<1>1. Visible \in SUBSET Questions /\ Cardinality(Visible) <= QuestionLimit
    <2>1. Visible \subseteq questions /\ IsFiniteSet(questions)
        BY InputAssumption, FS_Subset DEF Visible
    <2>2. /\ Cardinality(Visible) <= Cardinality(questions)
          /\ Cardinality(questions) \in Nat /\ Cardinality(Visible) \in Nat
        BY <2>1, FS_Subset, FS_CardinalityType
    <2>3. QuestionLimit \in Nat /\ Cardinality(questions) <= QuestionLimit
        BY InputAssumption, Zenon DEF WithinLimit
    <2>4. Visible \in SUBSET Questions
        BY <2>1
    <2> QED BY <2>2, <2>3, <2>4
<1>2. PICK agenda \in AgendaQuestions : open \in OpenQuestions(agenda, out)
    BY DEF LeftOpen
<1>3. agenda \in SUBSET Questions /\ out.open \ Answered \in SUBSET Questions
    BY <1>2, SynthesisTyped DEF AgendaQuestions
<1>4. PICK first \in UNION {Filled(visible, agenda) : visible \in Filled({}, Visible)} :
         open \in Filled(first, out.open \ Answered)
    BY <1>2 DEF OpenQuestions
<1>5. first \in Filled(Visible, agenda)
    <2>1. PICK visible \in Filled({}, Visible) : first \in Filled(visible, agenda)
        BY <1>4
    <2> QED BY <1>1, <2>1, NothingIsCut
<1>6. /\ Visible \subseteq first /\ first \in SUBSET Questions
      /\ Cardinality(first) <= QuestionLimit
    BY <1>1, <1>3, <1>5, FilledKeeps
<1>7. /\ first \subseteq open /\ open \in SUBSET Questions
      /\ Cardinality(open) <= QuestionLimit
    BY <1>3, <1>4, <1>6, FilledKeeps
<1> QED BY <1>6, <1>7

\* A round leaves a well-formed entry in the history.
LEMMA EntryTyped ==
    ASSUME HistoryTyped, WithinLimit, NEW out \in SynthesisOutput,
           NEW open \in LeftOpen(out)
    PROVE  NewEntry(out, open) \in Entry
<1>1. open \in SUBSET Questions
    BY VisibleStays DEF HistoryTyped
<1>2. Phase \in Phases
    BY PhaseIsAPhase DEF HistoryTyped
<1> QED BY <1>1, <1>2, SynthesisTyped DEF NewEntry, Entry

\* What a round does to the history and to what the next one starts from.
LEMMA RoundExtends ==
    ASSUME HInv, NEW m, NEW out \in SynthesisOutput, NEW open \in LeftOpen(out),
           NEW challenges, Round(m, out, open, challenges)
    PROVE  /\ Len(history) \in Nat /\ round = Len(history) + 1 /\ ended = ""
           /\ history' \in Seq(Entry) /\ Len(history') = Len(history) + 1
           /\ DOMAIN history = 1..Len(history)
           /\ DOMAIN history' = 1..(Len(history) + 1)
           /\ \A i \in 1..Len(history) : history'[i] = history[i]
           /\ history'[Len(history) + 1] = NewEntry(out, open)
<1> DEFINE e == NewEntry(out, open)
<1>1. history' = Append(history, e) /\ ended = ""
    BY DEF Round, NewEntry
<1>2. history \in Seq(Entry) /\ e \in Entry
    BY EntryTyped DEF HInv, HistoryTyped
<1>3. round = Len(history) + 1
    BY <1>1 DEF HInv, Linked
<1> HIDE DEF e
<1>4. /\ Append(history, e) \in Seq(Entry)
      /\ Len(Append(history, e)) = Len(history) + 1
      /\ \A i \in 1..Len(history) : Append(history, e)[i] = history[i]
      /\ Append(history, e)[Len(history) + 1] = e
    BY <1>2, AppendProperties
<1>5. Len(history) \in Nat /\ DOMAIN history = 1..Len(history)
    BY <1>2
<1>6. DOMAIN Append(history, e) = 1..(Len(history) + 1)
    BY <1>4
<1> QED BY <1>1, <1>3, <1>4, <1>5, <1>6 DEF e

\* What the history, the open questions and the advice say of one another
\* holds throughout a meeting.
THEOREM HistoryInvariant == Spec => []HInv
<1>1. Init => HInv
    <2> SUFFICES ASSUME Init PROVE HInv
        OBVIOUS
    <2>0. history = <<>>
        BY DEF Init
    <2>1. history = <<>> /\ Len(history) = 0 /\ DOMAIN history = {}
        BY <2>0
    <2>2. HistoryTyped
        <3>1. history \in Seq(Entry)
            BY <2>0
        <3>2. questions \subseteq Questions /\ advice.phase = ""
            BY DEF Init
        <3> QED BY <3>1, <3>2 DEF HistoryTyped
    <2>l. Linked
        <3>1. /\ round = 1 /\ candidate = "" /\ conclusion = "" /\ advice.phase = ""
            BY DEF Init
        <3>2. round = Len(history) + 1
            <4>1. round = 1 /\ Len(history) = 0
                BY <2>1, <3>1
            <4> QED BY <4>1
        <3> QED BY <2>0, <3>1, <3>2, Zenon DEF Linked
    <2>3. QuestionsKept /\ RaisedQuestionBlocksDecide /\ AdviceLastsOneRound
        BY <2>1 DEF QuestionsKept, RaisedQuestionBlocksDecide, AdviceLastsOneRound
    <2>4. ProposalSettlesThePhase /\ RepeatedFollowUpEnds
        BY <2>1 DEF ProposalSettlesThePhase, RepeatedFollowUpEnds
    <2>5. WithinLimit
        BY BriefWithinLimit
    <2> QED BY <2>2, <2>l, <2>3, <2>4, <2>5 DEF HInv
<1>2. HInv /\ [Next]_vars => HInv'
    <2> SUFFICES ASSUME HInv, [Next]_vars PROVE HInv'
        OBVIOUS
    <2>1. CASE HumanMessage \/ UNCHANGED vars
        <3>1. /\ history' = history /\ questions' = questions /\ advice' = advice
              /\ ended' = ended /\ round' = round /\ candidate' = candidate
              /\ conclusion' = conclusion
            BY <2>1 DEF HumanMessage, vars
        <3> QED BY <3>1 DEF HInv, HistoryTyped, Linked, WithinLimit, QuestionsKept,
                RaisedQuestionBlocksDecide, ProposalSettlesThePhase,
                AdviceLastsOneRound, RepeatedFollowUpEnds
    <2>2. ASSUME NEW m \in Measurements, NEW out \in SynthesisOutput,
                 NEW open \in LeftOpen(out), NEW challenges,
                 Round(m, out, open, challenges)
          PROVE  HInv'
        <3> DEFINE e == NewEntry(out, open)
                   n == Len(history)
        <3>n. n \in Nat
            BY <2>2, RoundExtends
        <3>1. round = n + 1 /\ ended = ""
            BY <2>2, RoundExtends
        <3>h. history' \in Seq(Entry) /\ Len(history') = n + 1
            BY <2>2, RoundExtends
        <3>k. \A i \in 1..n : history'[i] = history[i]
            BY <2>2, RoundExtends
        <3>e. history'[n + 1] = e
            BY <2>2, RoundExtends
        <3>2. e \in Entry /\ history \in Seq(Entry)
            BY EntryTyped DEF HInv, HistoryTyped
        <3>3. DOMAIN history = 1..n /\ DOMAIN history' = 1..(n + 1)
            BY <2>2, RoundExtends
        <3>4. /\ e.phase = Phase /\ (e.advised <=> advice.phase # "")
              /\ (e.advises <=> out.phase # "") /\ e.open = open
              /\ e.candidate = out.candidate /\ e.conclusion = out.conclusion
            BY DEF NewEntry
        <3>5. /\ questions' = e.open /\ candidate' = e.candidate
              /\ conclusion' = e.conclusion /\ advice'.phase = out.phase
              /\ ended' = EndOf(out, SignalsAfterRound(m, out, e.open))
              /\ ended' = "" => round' = round + 1
            BY <2>2, <3>4 DEF Round, AdviceOf
        <3>v. /\ Visible \subseteq open
              /\ Cardinality(open) <= QuestionLimit
            BY VisibleStays DEF HInv, HistoryTyped
        <3> HIDE DEF e, n
        <3>w. WithinLimit'
            BY <3>4, <3>5, <3>v DEF WithinLimit
        <3>6. HistoryTyped'
            <4>1. questions' \subseteq Questions
                BY <3>2, <3>5 DEF Entry
            <4> QED BY <3>h, <3>5, <4>1, SynthesisTyped DEF HistoryTyped
        <3>7. Linked'
            <4>1. ended' = "" => round' = Len(history') + 1
                BY <3>1, <3>h, <3>5
            <4>2. history' # <<>>
                BY <3>n, <3>h
            <4>3. history'[Len(history')] = e
                BY <3>h, <3>e
            <4>4. advice'.phase # "" <=> e.advises
                BY <3>4, <3>5
            <4> QED BY <3>5, <4>1, <4>2, <4>3, <4>4 DEF Linked
        <3>8. QuestionsKept'
            <4>1. Visible \subseteq e.open /\ e.open = questions'
                BY <3>4, <3>5, <3>v
            <4>2. \A i \in 1..n : history[i].open \ Answered \subseteq Visible
                BY <3>3 DEF HInv, QuestionsKept, Visible
            <4>3. ASSUME NEW i \in 1..(n + 1)
                  PROVE  history'[i].open \ Answered \subseteq questions'
                <5>1. i \in 1..n \/ i = n + 1
                    BY <3>n
                <5> QED BY <3>k, <3>e, <4>1, <4>2, <5>1
            <4> QED BY <3>3, <4>3 DEF QuestionsKept
        <3>9. RaisedQuestionBlocksDecide'
            <4>1. ASSUME NEW i \in 1..(n + 1), NEW j \in 1..(n + 1), i < j,
                         history'[i].open \ Answered # {}, ~history'[j].advised
                  PROVE  history'[j].phase # "decide"
                <5>1. i \in 1..n /\ (j \in 1..n \/ j = n + 1)
                    BY <3>n, <4>1
                <5>2. history[i].open \ Answered # {}
                    BY <3>k, <4>1, <5>1
                <5>3. CASE j = n + 1
                    <6>1. Visible # {}
                        BY <3>3, <5>1, <5>2 DEF HInv, QuestionsKept, Visible
                    <6>2. advice.phase = ""
                        BY <3>e, <3>4, <4>1, <5>3
                    <6>3. Phase # "decide"
                        BY <6>1, <6>2, PhaseWithoutAdvice
                    <6> QED BY <3>e, <3>4, <5>3, <6>3
                <5>4. CASE j \in 1..n
                    <6>1. history'[j] = history[j]
                        BY <3>k, <5>4
                    <6> QED BY <3>3, <4>1, <5>1, <5>2, <5>4, <6>1
                        DEF HInv, RaisedQuestionBlocksDecide
                <5> QED BY <5>1, <5>3, <5>4
            <4> QED BY <3>3, <4>1 DEF RaisedQuestionBlocksDecide
        <3>10. ProposalSettlesThePhase'
            <4>1. ASSUME NEW j \in 2..(n + 1), ~history'[j].advised
                  PROVE  history'[j].phase \in {"synthesize", "decide"}
                <5>1. j \in 2..n \/ (j = n + 1 /\ n \in 1..n)
                    BY <3>n
                <5>2. CASE j = n + 1 /\ n \in 1..n
                    <6>1. advice.phase = ""
                        BY <3>e, <3>4, <4>1, <5>2
                    <6>2. candidate # ""
                        <7>1. history # <<>>
                            BY <3>3, <5>2
                        <7>2. candidate = history[n].candidate
                            BY <7>1 DEF HInv, Linked, n
                        <7>3. history[n] \in Entry
                            BY <3>2, <3>3, <5>2
                        <7> QED BY <7>2, <7>3, InputAssumption DEF Entry
                    <6>3. n + 1 # 1
                        BY <3>n, <5>2
                    <6>4. Phase \in {"synthesize", "decide"}
                        BY <3>1, <6>1, <6>2, <6>3, PhaseWithoutAdvice
                    <6> QED BY <3>e, <3>4, <5>2, <6>4
                <5>3. CASE j \in 2..n
                    <6>0. j \in 1..n
                        BY <3>n, <5>3
                    <6>1. j \in 1..n /\ history'[j] = history[j]
                        BY <3>k, <6>0
                    <6>2. ~history[j].advised
                        BY <4>1, <6>1
                    <6> QED BY <5>3, <6>1, <6>2 DEF HInv, ProposalSettlesThePhase, n
                <5> QED BY <5>1, <5>2, <5>3
            <4> QED BY <3>h, <4>1 DEF ProposalSettlesThePhase
        <3>11. AdviceLastsOneRound'
            <4>1. ASSUME NEW j \in 1..(n + 1)
                  PROVE  history'[j].advised <=> j > 1 /\ history'[j - 1].advises
                <5>1. \/ j \in 1..n
                      \/ j = n + 1 /\ n = 0
                      \/ j = n + 1 /\ j > 1 /\ j - 1 = n /\ n \in 1..n
                    BY <3>n
                <5>2. CASE j = n + 1 /\ n = 0
                    <6>1. history = <<>>
                        BY <3>2, <5>2 DEF n
                    <6>2. advice.phase = ""
                        BY <6>1 DEF HInv, Linked
                    <6>3. ~(j > 1)
                        BY <5>2
                    <6> QED BY <3>e, <3>4, <5>2, <6>2, <6>3
                <5>3. CASE j = n + 1 /\ j > 1 /\ j - 1 = n /\ n \in 1..n
                    <6>1. history # <<>>
                        BY <3>3, <5>3
                    <6>2. advice.phase # "" <=> history[n].advises
                        BY <6>1 DEF HInv, Linked, n
                    <6>3. history'[n] = history[n]
                        BY <3>k, <5>3
                    <6> QED BY <3>e, <3>4, <5>3, <6>2, <6>3
                <5>4. CASE j \in 1..n
                    <6>1. history'[j] = history[j]
                        BY <3>k, <5>4
                    <6>2. j > 1 => history'[j - 1] = history[j - 1]
                        <7>1. j > 1 => j - 1 \in 1..n
                            BY <3>n, <5>4
                        <7> QED BY <3>k, <7>1
                    <6>3. history[j].advised <=> j > 1 /\ history[j - 1].advises
                        BY <3>3, <5>4 DEF HInv, AdviceLastsOneRound
                    <6> QED BY <6>1, <6>2, <6>3
                <5> QED BY <5>1, <5>2, <5>3, <5>4
            <4> QED BY <3>3, <4>1 DEF AdviceLastsOneRound
        <3>12. RepeatedFollowUpEnds'
            <4>1. ASSUME NEW i \in 1..n,
                         history'[i].conclusion = "follow_up_required",
                         history'[i + 1].conclusion = "follow_up_required",
                         history'[i].candidate = history'[i + 1].candidate
                  PROVE  i + 1 = n + 1 /\ ended' # ""
                <5>0. history'[i] = history[i]
                    BY <3>k
                <5>1. CASE i = n
                    <6>1. history # <<>>
                        BY <3>3, <5>1
                    <6>2. /\ candidate = history[n].candidate
                          /\ conclusion = history[n].conclusion
                        BY <6>1 DEF HInv, Linked, n
                    <6>3. n + 1 > 1 /\ round = n + 1
                        <7>1. n + 1 > 1
                            BY <3>n, <5>1
                        <7> QED BY <3>1, <7>1
                    <6>4. /\ e.conclusion = "follow_up_required"
                          /\ conclusion = "follow_up_required"
                          /\ candidate = e.candidate
                        BY <3>e, <4>1, <5>0, <5>1, <6>2
                    <6>5. StableFollowUp(out)
                        BY <3>4, <6>3, <6>4 DEF StableFollowUp
                    <6> QED BY <3>5, <5>1, <6>5 DEF EndOf
                <5>2. CASE i # n
                    <6>1. i \in 1..(n - 1) /\ i + 1 \in 1..n
                        BY <3>n, <5>2
                    <6>2. history'[i + 1] = history[i + 1]
                        BY <3>k, <6>1
                    <6>3. /\ history[i].conclusion = "follow_up_required"
                          /\ history[i + 1].conclusion = "follow_up_required"
                          /\ history[i].candidate = history[i + 1].candidate
                        BY <4>1, <5>0, <6>2
                    <6>4. ended # ""
                        BY <6>1, <6>3 DEF HInv, RepeatedFollowUpEnds, n
                    <6> QED BY <3>1, <6>4
                <5> QED BY <5>1, <5>2
            <4>2. Len(history') - 1 = n /\ Len(history') = n + 1
                BY <3>n, <3>h
            <4> QED BY <4>1, <4>2 DEF RepeatedFollowUpEnds
        <3> QED BY <3>6, <3>7, <3>w, <3>8, <3>9, <3>10, <3>11, <3>12 DEF HInv
    <2> QED BY <2>1, <2>2 DEF Next
<1> QED BY <1>1, <1>2, PTL DEF Spec

\* A question a round has left open and the context does not answer keeps
\* every later round that follows the rules from deciding.
THEOREM QuestionsBlockDecide == Spec => []RaisedQuestionBlocksDecide
BY HistoryInvariant, PTL DEF HInv

\* A question that is not answered is never pushed out of the list by newer
\* ones, however many a round raises (_dedupe_strings with its limit).
THEOREM QuestionsKeepTheirPlace == Spec => NoQuestionIsDisplaced
<1>1. HInv /\ [Next]_vars => [Visible \subseteq questions']_vars
    <2> SUFFICES ASSUME HInv, [Next]_vars PROVE Visible \subseteq questions'
        OBVIOUS
    <2>1. CASE HumanMessage \/ UNCHANGED vars
        BY <2>1 DEF HumanMessage, vars, Visible
    <2>2. ASSUME NEW m \in Measurements, NEW out \in SynthesisOutput,
                 NEW open \in LeftOpen(out), NEW challenges,
                 Round(m, out, open, challenges)
          PROVE  Visible \subseteq questions'
        <3>1. Visible \subseteq open
            BY VisibleStays DEF HInv, HistoryTyped
        <3> QED BY <2>2, <3>1 DEF Round
    <2> QED BY <2>1, <2>2 DEF Next
<1> QED BY <1>1, HistoryInvariant, PTL DEF Spec, NoQuestionIsDisplaced

\* From its first proposal on a meeting converges unless the synthesis advises
\* otherwise, whatever the operator writes.
THEOREM ProposalSettles == Spec => []ProposalSettlesThePhase
BY HistoryInvariant, PTL DEF HInv

\* The projector's advice is that of the last summary alone.
THEOREM AdviceIsFresh == Spec => []AdviceLastsOneRound
BY HistoryInvariant, PTL DEF HInv

\* A follow-up concluded twice in a row ends the meeting.
THEOREM FollowUpEnds == Spec => []RepeatedFollowUpEnds
BY HistoryInvariant, PTL DEF HInv

-----------------------------------------------------------------------------
(* Types.                                                                  *)

Between(lo, hi, x) == Max({lo, Min({hi, x})})

\* A number kept below another.
LEMMA Capped ==
    ASSUME NEW hi \in Nat, NEW x \in Nat
    PROVE  Min({hi, x}) \in 0..hi
BY MinOfTwo

\* A number kept between two.
LEMMA Clamped ==
    ASSUME NEW lo \in Nat, NEW hi \in Nat, NEW x \in Int, lo <= hi
    PROVE  Between(lo, hi, x) \in lo..hi
<1> DEFINE y == Min({hi, x})
<1>1. hi \in Int /\ lo \in Int
    OBVIOUS
<1>2. y \in Int /\ y <= hi
    BY <1>1, MinOfTwo, Zenon
<1> HIDE DEF y
<1>3. Max({lo, y}) \in Int /\ Max({lo, y}) >= lo
      /\ (Max({lo, y}) = lo \/ Max({lo, y}) = y)
    BY <1>1, <1>2, MaxOfTwo, Zenon
<1> DEFINE z == Max({lo, y})
<1>4. z \in Int /\ z >= lo /\ (z = lo \/ z = y)
    BY <1>3
<1> HIDE DEF z
<1>5. z \in lo..hi
    BY <1>2, <1>4
<1> QED BY <1>5 DEF y, z, Between

\* The clamps of signals_after_round hold for every measurement, synthesis
\* and list of open questions.
LEMMA SignalsTyped ==
    ASSUME questions \subseteq Questions,
           NEW m \in Measurements, NEW out \in SynthesisOutput,
           NEW open \in SUBSET Questions
    PROVE  /\ SignalsAfterRound(m, out, open) \in Signals
           /\ SignalsAfterRound(m, out, open).support \in 0..970
           /\ SignalsAfterRound(m, out, open).disagreement \in 150..1000
<1> DEFINE asked == Cardinality(open)
           penalty == Min({120, 30 * asked})
           boost == Min({120, 30 * out.agreement})
           adjustment == Min({160, 40 * out.disagreement})
           support == Min({970, m.mean + boost + 40})
           confidence == Max({300, Min({970, m.mean - penalty + 20})})
           risk == Min({350, RoutingRisk + penalty \div 2})
           margin == Min({240, m.margin + boost \div 2})
           disagreement == Max({150, Min({950, m.disagreement + adjustment - boost})})
<1>1. out.agreement \in Nat /\ out.disagreement \in Nat
    <2>1. out.agreement \in Counts /\ out.disagreement \in Counts
        BY DEF SynthesisOutput
    <2>2. \A x \in Counts : x \in Nat
        BY SignalAssumption
    <2> QED BY <2>1, <2>2
<1>2. asked \in Nat /\ Cardinality(Visible) \in Nat
    <2>1. Visible \subseteq Questions
        BY DEF Visible
    <2> QED BY <2>1, InputAssumption, FS_Subset, FS_CardinalityType
<1>3. /\ m.mean \in Nat /\ m.margin \in Nat /\ m.disagreement \in Int
    BY MeasureTyped
<1>4. penalty \in 0..120 /\ boost \in 0..120 /\ adjustment \in 0..160
    <2>1. 30 * asked \in Nat /\ 30 * out.agreement \in Nat /\ 40 * out.disagreement \in Nat
        BY <1>1, <1>2
    <2>2. \A x \in Nat : Min({120, x}) \in 0..120
        <3> DEFINE hi == 120
        <3>1. hi \in Nat
            OBVIOUS
        <3> HIDE DEF hi
        <3>2. \A x \in Nat : Min({hi, x}) \in 0..hi
            BY <3>1, Capped, Zenon
        <3> QED BY <3>2 DEF hi
    <2>3. \A x \in Nat : Min({160, x}) \in 0..160
        <3> DEFINE hi == 160
        <3>1. hi \in Nat
            OBVIOUS
        <3> HIDE DEF hi
        <3>2. \A x \in Nat : Min({hi, x}) \in 0..hi
            BY <3>1, Capped, Zenon
        <3> QED BY <3>2 DEF hi
    <2> HIDE DEF asked
    <2> QED BY <2>1, <2>2, <2>3
<1>5. RoutingRisk \in Nat
    <2>1. 80 + 30 * Cardinality(Visible) \in Nat
        BY <1>2
    <2>2. \A x \in Nat : Min({320, x}) \in 0..320
        <3> DEFINE hi == 320
        <3>1. hi \in Nat
            OBVIOUS
        <3> HIDE DEF hi
        <3>2. \A x \in Nat : Min({hi, x}) \in 0..hi
            BY <3>1, Capped, Zenon
        <3> QED BY <3>2 DEF hi
    <2>3. RoutingRisk \in 0..320
        BY <2>1, <2>2 DEF RoutingRisk
    <2> QED BY <2>3
<1>6. SignalsAfterRound(m, out, open) =
        [support |-> support, confidence |-> confidence, risk |-> risk,
         margin |-> margin, disagreement |-> disagreement]
    BY DEF SignalsAfterRound
<1> HIDE DEF asked, penalty, boost, adjustment
<1>7. penalty \div 2 \in Nat /\ boost \div 2 \in Nat
    BY <1>4, SMT
<1>8. support \in 0..970
    <2>1. m.mean + boost + 40 \in Nat
        BY <1>3, <1>4
    <2>2. \A x \in Nat : Min({970, x}) \in 0..970
        <3> DEFINE hi == 970
        <3>1. hi \in Nat
            OBVIOUS
        <3> HIDE DEF hi
        <3>2. \A x \in Nat : Min({hi, x}) \in 0..hi
            BY <3>1, Capped, Zenon
        <3> QED BY <3>2 DEF hi
    <2> QED BY <2>1, <2>2
<1>9. confidence \in 300..970
    <2>1. m.mean - penalty + 20 \in Int
        BY <1>3, <1>4
    <2> DEFINE y == m.mean - penalty + 20
               lo == 300
               hi == 970
    <2>2. y \in Int /\ lo \in Nat /\ hi \in Nat /\ lo <= hi
        BY <2>1
    <2> HIDE DEF y, lo, hi
    <2>3. Between(lo, hi, y) \in lo..hi
        BY <2>2, Clamped
    <2> QED BY <2>3 DEF y, lo, hi, Between
<1>10. risk \in 0..350
    <2>1. RoutingRisk + penalty \div 2 \in Nat
        BY <1>5, <1>7
    <2>2. \A x \in Nat : Min({350, x}) \in 0..350
        <3> DEFINE hi == 350
        <3>1. hi \in Nat
            OBVIOUS
        <3> HIDE DEF hi
        <3>2. \A x \in Nat : Min({hi, x}) \in 0..hi
            BY <3>1, Capped, Zenon
        <3> QED BY <3>2 DEF hi
    <2> QED BY <2>1, <2>2
<1>11. margin \in 0..240
    <2>1. m.margin + boost \div 2 \in Nat
        BY <1>3, <1>7
    <2>2. \A x \in Nat : Min({240, x}) \in 0..240
        <3> DEFINE hi == 240
        <3>1. hi \in Nat
            OBVIOUS
        <3> HIDE DEF hi
        <3>2. \A x \in Nat : Min({hi, x}) \in 0..hi
            BY <3>1, Capped, Zenon
        <3> QED BY <3>2 DEF hi
    <2> QED BY <2>1, <2>2
<1>12. disagreement \in 150..950
    <2>1. m.disagreement + adjustment - boost \in Int
        BY <1>3, <1>4
    <2> DEFINE y == m.disagreement + adjustment - boost
               lo == 150
               hi == 950
    <2>2. y \in Int /\ lo \in Nat /\ hi \in Nat /\ lo <= hi
        BY <2>1
    <2> HIDE DEF y, lo, hi
    <2>3. Between(lo, hi, y) \in lo..hi
        BY <2>2, Clamped
    <2> QED BY <2>3 DEF y, lo, hi, Between
<1>13. disagreement \in 150..1000 /\ confidence \in {0} \cup 300..970
    BY <1>9, <1>12
<1> HIDE DEF support, confidence, risk, margin, disagreement
<1> QED BY <1>6, <1>8, <1>10, <1>11, <1>13 DEF Signals

\* A transcript has room for what is said, up to the length no rule looks
\* past.
LEMMA DepthTyped ==
    ASSUME depth \in 0..DepthCap, NEW entries \in Nat
    PROVE  Grown(entries) \in 0..DepthCap
<1>1. depth + entries \in Nat /\ DepthCap \in Nat
    BY DEF DepthCap
<1>2. \A x \in Nat : Min({DepthCap, x}) \in 0..DepthCap
    BY <1>1, Capped
<1> QED BY <1>1, <1>2 DEF Grown

\* A step keeps every variable of a meeting in its range.
LEMMA TypesKept ==
    ASSUME HInv, TypeOK, [Next]_vars
    PROVE  TypeOK'
<1>1. CASE HumanMessage
    <2>1. depth' \in 0..DepthCap
        BY <1>1, DepthTyped DEF HumanMessage, TypeOK
    <2> QED BY <1>1, <2>1 DEF HumanMessage, TypeOK, DepthCap
<1>2. ASSUME NEW m \in Measurements, NEW out \in SynthesisOutput,
             NEW open \in LeftOpen(out), NEW challenges \in 0..(m.speakers - 1),
             Round(m, out, open, challenges)
      PROVE  TypeOK'
    <2> DEFINE signals == SignalsAfterRound(m, out, open)
               handoff == IF Coordination(Phase) = "handoff" THEN 1 ELSE 0
    <2>1. /\ ended = ""
          /\ ended' = EndOf(out, signals)
          /\ last' = [signals |-> signals, stall |-> Stall(out)]
          /\ questions' = open
          /\ consensus' = [support |-> signals.support,
                           disagreement |-> signals.disagreement]
          /\ depth' = Grown(1 + m.speakers + handoff + challenges)
          /\ round' = IF ended' = "" THEN round + 1 ELSE round
          /\ candidate' = out.candidate
          /\ conclusion' = out.conclusion
          /\ advice' = AdviceOf(out)
          /\ heard' = heard
        BY <1>2 DEF Round
    <2>2. /\ Len(history) \in Nat /\ round = Len(history) + 1
          /\ Len(history') = Len(history) + 1
        BY <1>2, RoundExtends
    <2>3. /\ questions \subseteq Questions /\ open \in SUBSET Questions
          /\ Cardinality(open) <= QuestionLimit
        BY VisibleStays DEF HInv, TypeOK
    <2>4. signals \in Signals /\ signals.support \in 0..970
          /\ signals.disagreement \in 150..1000
        BY <2>3, SignalsTyped
    <2>5. /\ out.candidate \in Candidates /\ out.conclusion \in Conclusions
          /\ out.phase \in AdvisedPhases /\ out.action \in AdvisedActions
        BY DEF SynthesisOutput
    <2>6. Stall(out) \in {0, 1}
        BY DEF Stall
    <2>7. EndOf(out, signals) \in Ends
        BY DEF EndOf, Ends
    <2>8. EndOf(out, signals) = "" => round # MaxRounds
        BY DEF EndOf
    <2> HIDE DEF signals
    <2>9. depth' \in 0..DepthCap
        <3>1. m.speakers \in Nat /\ challenges \in Nat /\ handoff \in Nat
            BY MeasureTyped
        <3> HIDE DEF handoff
        <3>2. 1 + m.speakers + handoff + challenges \in Nat
            BY <3>1
        <3> QED BY <2>1, <3>2, DepthTyped DEF TypeOK, DepthCap
    <2>10. round' \in 1..MaxRounds /\ Len(history') \in 0..MaxRounds
        <3>1. round \in 1..MaxRounds
            BY Zenon DEF TypeOK
        <3>2. MaxRounds \in Nat
            BY SignalAssumption
        <3>3. round' = IF ended' = "" THEN round + 1 ELSE round
            BY <2>1, Zenon
        <3>4. ended' = "" => round # MaxRounds
            BY <2>1, <2>8, Zenon
        <3>5. round' = round \/ (round' = round + 1 /\ round # MaxRounds)
            BY <3>3, <3>4, Zenon
        <3> QED BY <2>2, <3>1, <3>2, <3>5
    <2>11. consensus' \in Consensuses
        BY <2>1, <2>4 DEF Consensuses
    <2>12. advice' \in Advices
        BY <2>1, <2>5 DEF AdviceOf, Advices
    <2>13. last'.signals \in Signals /\ last'.stall \in {0, 1}
        BY <2>1, <2>4, <2>6
    <2>14. heard' \in BOOLEAN /\ candidate' \in Candidates \cup {""}
           /\ conclusion' \in Conclusions \cup {""}
           /\ questions' \subseteq Questions /\ Cardinality(questions') <= QuestionLimit
        BY <2>1, <2>3, <2>5 DEF TypeOK
    <2> QED BY <2>1, <2>7, <2>9, <2>10, <2>11, <2>12, <2>13, <2>14 DEF TypeOK
<1>3. CASE UNCHANGED vars
    BY <1>3 DEF vars, TypeOK
<1> QED BY <1>1, <1>2, <1>3 DEF Next

\* Every signal of a meeting is clamped to its range, every variable to its
\* kind, and the rounds to their budget, whatever is said.
THEOREM MeetingTyped == Spec => []TypeOK
<1>1. Init => TypeOK
    <2> SUFFICES ASSUME Init PROVE TypeOK
        OBVIOUS
    <2>0. round = 1 /\ history = <<>> /\ depth = 0 /\ last = NoRound
          /\ consensus = [support |-> 0, disagreement |-> 1000]
        BY Zenon DEF Init
    <2>1. round \in 1..MaxRounds /\ Len(history) \in 0..MaxRounds
        BY <2>0, SignalAssumption
    <2>2. consensus \in Consensuses
        BY <2>0 DEF Consensuses
    <2>3. last.signals \in Signals /\ last.stall \in {0, 1}
        BY <2>0 DEF NoRound, Signals
    <2>4. depth \in 0..DepthCap
        BY <2>0 DEF DepthCap
    <2>5. advice \in Advices /\ ended \in Ends
        BY Zenon DEF Init, Advices, Ends
    <2>6. heard \in BOOLEAN /\ candidate \in Candidates \cup {""}
          /\ conclusion \in Conclusions \cup {""} /\ questions \subseteq Questions
        BY Zenon DEF Init
    <2>7. Cardinality(questions) <= QuestionLimit
        BY BriefWithinLimit DEF WithinLimit
    <2> QED BY <2>1, <2>2, <2>3, <2>4, <2>5, <2>6, <2>7, Zenon DEF TypeOK
<1> QED BY <1>1, HistoryInvariant, TypesKept, PTL DEF Spec

=============================================================================
