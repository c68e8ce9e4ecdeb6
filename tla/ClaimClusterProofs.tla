-------------------------- MODULE ClaimClusterProofs --------------------------
(***************************************************************************)
(* The clustering loop of ClaimClusters computes what Claims defines, for  *)
(* any claims over any words: one pass that compares a claim with the      *)
(* representatives it has finds the founders and their members.            *)
(***************************************************************************)
EXTENDS ClaimClusters, ListingProofs

-----------------------------------------------------------------------------
(* Founders.                                                               *)

\* Which claims found a cluster: those with words that resemble no founder
\* before them.
LEMMA FoundersAre ==
    ASSUME NEW n \in Nat, NEW texts, DOMAIN texts = 1..n
    PROVE  /\ Founders(texts) \subseteq 1..n
           /\ \A i \in 1..n :
                i \in Founders(texts) <=>
                    /\ texts[i] # {}
                    /\ \A j \in 1..(i - 1) :
                           j \in Founders(texts) => ~Similar(texts[i], texts[j])
<1> DEFINE starts == CHOOSE f : f = [i \in DOMAIN texts |->
                /\ texts[i] # {}
                /\ \A j \in 1..(i - 1) : f[j] => ~Similar(texts[i], texts[j])]
           wanted == {i \in 1..n : texts[i] # {}}
           clash == {p \in (1..n) \X (1..n) : Similar(texts[p[1]], texts[p[2]])}
<1>1. Founders(texts) = {i \in 1..n : starts[i]}
    BY DEF Founders
<1>2. PICK f : Decides(f, n, wanted, clash)
    BY DecisionExists
<1>3. f = [i \in 1..n |->
                /\ texts[i] # {}
                /\ \A j \in 1..(i - 1) : f[j] => ~Similar(texts[i], texts[j])]
    <2>1. ASSUME NEW i \in 1..n
          PROVE  (i \in wanted /\ \A j \in 1..(i - 1) : f[j] => <<i, j>> \notin clash)
                   = (/\ texts[i] # {}
                      /\ \A j \in 1..(i - 1) : f[j] => ~Similar(texts[i], texts[j]))
        <3>1. \A j \in 1..(i - 1) : <<i, j>> \in clash <=> Similar(texts[i], texts[j])
            OBVIOUS
        <3>2. i \in wanted <=> texts[i] # {}
            OBVIOUS
        <3> HIDE DEF wanted, clash
        <3> QED BY <3>1, <3>2
    <2> HIDE DEF wanted, clash
    <2> QED BY <1>2, <2>1 DEF Decides
<1>4. starts = [i \in 1..n |->
                /\ texts[i] # {}
                /\ \A j \in 1..(i - 1) : starts[j] => ~Similar(texts[i], texts[j])]
    BY <1>3, Zenon
<1> HIDE DEF starts
<1>5. \A i \in 1..n : \A j \in 1..(i - 1) : j \in Founders(texts) <=> starts[j]
    BY <1>1
<1>6. \A i \in 1..n : starts[i] <=>
                    /\ texts[i] # {}
                    /\ \A j \in 1..(i - 1) : starts[j] => ~Similar(texts[i], texts[j])
    BY <1>4
<1> QED BY <1>1, <1>5, <1>6

\* The least member of a set of numbers that has one.
LEMMA MinIsLeast ==
    ASSUME NEW S \in SUBSET Nat, NEW m \in S, \A x \in S : m <= x
    PROVE  Min(S) = m
<1>1. \E x \in S : \A y \in S : x <= y
    OBVIOUS
<1>2. Min(S) \in S /\ \A y \in S : Min(S) <= y
    BY <1>1, Zenon DEF Min
<1>3. Min(S) \in Nat /\ m \in Nat /\ Min(S) <= m /\ m <= Min(S)
    BY <1>2
<1> QED BY <1>3

Texts == SUBSET Words

\* A claim with words resembles itself.
LEMMA SimilarToItself ==
    ASSUME NEW a \in Texts, a # {}
    PROVE  Similar(a, a)
<1>1. Cardinality(a) \in Nat
    BY WordsAssumption, FS_Subset, FS_CardinalityType DEF Texts
<1>2. a \cap a = a /\ a \cup a = a
    OBVIOUS
<1>3. 2 * Cardinality(a) >= Cardinality(a)
    BY <1>1
<1> QED BY <1>2, <1>3 DEF Similar

\* Resemblance has no direction.
LEMMA SimilarBothWays ==
    ASSUME NEW a, NEW b, Similar(a, b)
    PROVE  Similar(b, a)
<1>1. a \cap b = b \cap a /\ a \cup b = b \cup a
    OBVIOUS
<1> QED BY <1>1 DEF Similar

\* A claim with words resembles a founder that does not come after it, and
\* belongs to the first.
LEMMA FounderOfClaim ==
    ASSUME NEW n \in Nat, NEW texts \in [1..n -> Texts],
           NEW i \in 1..n, texts[i] # {}
    PROVE  /\ FounderOf(texts, i) \in Founders(texts)
           /\ FounderOf(texts, i) \in 1..i
           /\ Similar(texts[i], texts[FounderOf(texts, i)])
           /\ \A j \in Founders(texts) :
                  Similar(texts[i], texts[j]) => FounderOf(texts, i) <= j
<1> DEFINE F == Founders(texts)
           similar == {j \in F : Similar(texts[i], texts[j])}
<1>1. /\ F \subseteq 1..n
      /\ i \in F \/ \E j \in 1..(i - 1) : j \in F /\ Similar(texts[i], texts[j])
    BY FoundersAre
<1>2. Similar(texts[i], texts[i])
    BY SimilarToItself
<1>3. PICK k \in similar : k \in 1..i
    BY <1>1, <1>2
<1>4. similar \in SUBSET Nat
    BY <1>1
<1> HIDE DEF similar
<1>5. PICK m \in similar : \A j \in similar : m <= j
    BY <1>3, <1>4, LeastOf
<1>6. Min(similar) = m
    BY <1>4, <1>5, MinIsLeast
<1>7. FounderOf(texts, i) = m
    BY <1>6 DEF FounderOf, similar
<1>8. m \in Nat /\ k \in Nat /\ m <= k
    BY <1>3, <1>4, <1>5
<1>9. m \in F /\ Similar(texts[i], texts[m]) /\ m \in 1..n
    BY <1>1, <1>5 DEF similar
<1>10. m \in 1..i
    BY <1>3, <1>8, <1>9
<1> QED BY <1>5, <1>7, <1>9, <1>10 DEF similar

\* What the founders of a list are does not depend on what follows it.
LEMMA FoundersOfMore ==
    ASSUME NEW n \in Nat, NEW old \in [1..n -> Texts], NEW new \in [1..(n + 1) -> Texts],
           \A k \in 1..n : new[k] = old[k]
    PROVE  \A k \in 1..n : k \in Founders(new) <=> k \in Founders(old)
<1> DEFINE differ == {k \in 1..n : ~(k \in Founders(new) <=> k \in Founders(old))}
<1>1. SUFFICES ASSUME differ # {} PROVE FALSE
    OBVIOUS
<1>2. PICK m \in differ : \A k \in differ : m <= k
    <2>1. differ \in SUBSET Nat
        OBVIOUS
    <2> HIDE DEF differ
    <2> QED BY <1>1, <2>1, LeastOf
<1>3. m \in 1..n /\ m \in 1..(n + 1)
    OBVIOUS
<1>4. \A j \in 1..(m - 1) : j \in Founders(new) <=> j \in Founders(old)
    <2>1. \A j \in 1..(m - 1) : j \in 1..n /\ ~(m <= j)
        BY <1>3
    <2> QED BY <1>2, <2>1
<1>5. \A j \in 1..(m - 1) : new[j] = old[j] /\ new[m] = old[m]
    BY <1>3
<1>6. m \in Founders(old) <=>
          /\ old[m] # {}
          /\ \A j \in 1..(m - 1) : j \in Founders(old) => ~Similar(old[m], old[j])
    BY <1>3, FoundersAre
<1>7. m \in Founders(new) <=>
          /\ new[m] # {}
          /\ \A j \in 1..(m - 1) : j \in Founders(new) => ~Similar(new[m], new[j])
    <2>1. n + 1 \in Nat
        OBVIOUS
    <2> QED BY <1>3, <2>1, FoundersAre
<1>8. new[m] = old[m]
    BY <1>3
<1> QED BY <1>2, <1>4, <1>5, <1>6, <1>7, <1>8

\* Nor does the founder of a claim.
LEMMA FounderOfMore ==
    ASSUME NEW n \in Nat, NEW old \in [1..n -> Texts], NEW new \in [1..(n + 1) -> Texts],
           \A k \in 1..n : new[k] = old[k],
           NEW i \in 1..n, old[i] # {}
    PROVE  FounderOf(new, i) = FounderOf(old, i)
<1> DEFINE f == FounderOf(old, i)
           g == FounderOf(new, i)
<1>1. /\ f \in Founders(old) /\ f \in 1..i /\ Similar(old[i], old[f])
      /\ \A j \in Founders(old) : Similar(old[i], old[j]) => f <= j
    BY FounderOfClaim
<1>2. /\ g \in Founders(new) /\ g \in 1..i /\ Similar(new[i], new[g])
      /\ \A j \in Founders(new) : Similar(new[i], new[j]) => g <= j
    <2>1. n + 1 \in Nat /\ i \in 1..(n + 1) /\ new[i] # {}
        OBVIOUS
    <2> QED BY <2>1, FounderOfClaim
<1> HIDE DEF f, g
<1>3. f \in 1..n /\ g \in 1..n
    BY <1>1, <1>2
<1>4. f \in Founders(new) /\ g \in Founders(old)
    BY <1>1, <1>2, <1>3, FoundersOfMore
<1>5. new[f] = old[f] /\ new[g] = old[g] /\ new[i] = old[i]
    BY <1>3
<1>6. f <= g /\ g <= f
    BY <1>1, <1>2, <1>4, <1>5
<1>7. f = g
    BY <1>3, <1>6
<1> QED BY <1>7 DEF f, g

-----------------------------------------------------------------------------
(* The loop.                                                               *)

Typed ==
    /\ claims \in Seq(Texts)
    /\ clusters \in Seq(Seq(Nat))
    /\ \A c \in DOMAIN clusters : clusters[c] # <<>>

LoopInv == Typed /\ LoopFindsTheFounders

\* The members of a cluster, as a set.
Held(c) == {c[k] : k \in DOMAIN c}

\* An iteration adds a claim, and what was said of the earlier ones stands.
LEMMA EarlierClaimsStand ==
    ASSUME Typed, NEW claim \in Texts, claims' = Append(claims, claim), NEW n, n = Len(claims)
    PROVE  /\ n \in Nat /\ claims \in [1..n -> Texts] /\ claims' \in [1..(n + 1) -> Texts]
           /\ claims'[n + 1] = claim
           /\ \A k \in 1..n : claims'[k] = claims[k]
           /\ \A k \in 1..n : k \in Founders(claims') <=> k \in Founders(claims)
           /\ \A k \in 1..n : claims[k] # {} => FounderOf(claims', k) = FounderOf(claims, k)
<1>1. n \in Nat /\ claims \in [1..n -> Texts]
    BY DEF Typed
<1>2. /\ Append(claims, claim) \in Seq(Texts)
      /\ Len(Append(claims, claim)) = n + 1
      /\ \A k \in 1..n : Append(claims, claim)[k] = claims[k]
      /\ Append(claims, claim)[n + 1] = claim
    BY AppendProperties DEF Typed
<1>3. PICK new : new = claims'
    OBVIOUS
<1>4. new \in [1..(n + 1) -> Texts] /\ new[n + 1] = claim /\ \A k \in 1..n : new[k] = claims[k]
    <2>1. new \in Seq(Texts) /\ Len(new) = n + 1
        BY <1>2, <1>3
    <2>2. new \in [1..(n + 1) -> Texts]
        BY <2>1
    <2> QED BY <1>2, <1>3, <2>2
<1>5. PICK old : old = claims
    OBVIOUS
<1>6. /\ \A k \in 1..n : k \in Founders(new) <=> k \in Founders(old)
      /\ \A k \in 1..n : old[k] # {} => FounderOf(new, k) = FounderOf(old, k)
    BY <1>1, <1>4, <1>5, FoundersOfMore, FounderOfMore
<1> QED BY <1>1, <1>3, <1>4, <1>5, <1>6

\* A list of claims, and the list with one more.
OneMore(n, i, old, new) ==
    /\ n \in Nat /\ i = n + 1
    /\ old \in [1..n -> Texts] /\ new \in [1..i -> Texts]
    /\ \A k \in 1..n : new[k] = old[k]

\* The founders of the list that the last claim resembles.
Near(i, old, new) == {j \in Founders(old) : Similar(new[i], old[j])}

\* What one claim more does: it founds a cluster if it has words and
\* resembles no founder, and else joins the first it resembles.
FoundersFollow(n, i, old, new) ==
    LET near == Near(i, old, new) IN
    /\ Founders(old) \subseteq 1..n
    /\ Founders(new) = IF new[i] # {} /\ near = {}
                       THEN Founders(old) \cup {i} ELSE Founders(old)
    /\ \A j \in Founders(old) :
          Members(new, j) =
              IF new[i] # {} /\ j \in near /\ (\A k \in near : j <= k)
              THEN Members(old, j) \cup {i} ELSE Members(old, j)
    /\ new[i] # {} /\ near = {} => Members(new, i) = {i}

\* One claim more does that.
LEMMA OneClaimMore ==
    ASSUME NEW n, NEW i, NEW old, NEW new, OneMore(n, i, old, new)
    PROVE  FoundersFollow(n, i, old, new)
<1> DEFINE near == Near(i, old, new)
<1>near. near = {j \in Founders(old) : Similar(new[i], old[j])}
    BY DEF Near
<1> HIDE DEF near
<1> USE <1>near
<1>0. /\ n \in Nat /\ i = n + 1
      /\ old \in [1..n -> Texts] /\ new \in [1..i -> Texts] /\ new \in [1..(n + 1) -> Texts]
      /\ \A k \in 1..n : new[k] = old[k]
    BY DEF OneMore
<1> USE <1>0
<1>1. \A k \in 1..n : k \in Founders(new) <=> k \in Founders(old)
    BY FoundersOfMore
<1>2. i \in Nat /\ i \in 1..i /\ Founders(new) \subseteq 1..i /\ Founders(old) \subseteq 1..n
    BY FoundersAre
<1>3. i \in Founders(new) <=>
          new[i] # {} /\ \A j \in 1..n : j \in Founders(new) => ~Similar(new[i], new[j])
    <2>1. i - 1 = n
        OBVIOUS
    <2>2. i \in Founders(new) <=>
             /\ new[i] # {}
             /\ \A j \in 1..(i - 1) : j \in Founders(new) => ~Similar(new[i], new[j])
        BY <1>2, FoundersAre
    <2> QED BY <2>1, <2>2
<1>4. i \in Founders(new) <=> new[i] # {} /\ near = {}
    <2>1. \A j \in 1..n : new[j] = old[j]
        OBVIOUS
    <2> QED BY <1>1, <1>2, <1>3, <2>1
<1>5. Founders(new) = IF new[i] # {} /\ near = {} THEN Founders(old) \cup {i}
                      ELSE Founders(old)
    <2>1. \A k \in 1..i : k \in 1..n \/ k = i
        BY <1>2
    <2>2. i \notin 1..n
        OBVIOUS
    <2>3. ASSUME NEW k
          PROVE  k \in Founders(new) <=>
                     k \in Founders(old) \/ (k = i /\ new[i] # {} /\ near = {})
        BY <1>1, <1>2, <1>4, <2>1, <2>2
    <2> QED BY <2>3
<1>6. \A k \in 1..n : old[k] # {} => FounderOf(new, k) = FounderOf(old, k)
    BY FounderOfMore
<1>7. \A j : Members(new, j) =
          Members(old, j) \cup {k \in {i} : new[i] # {} /\ FounderOf(new, i) = j}
    <2>1. DOMAIN new = (1..n) \cup {i} /\ DOMAIN old = 1..n
        BY <1>2
    <2>2. ASSUME NEW j, NEW k
          PROVE  k \in Members(new, j) <=>
                     \/ k \in Members(old, j)
                     \/ k = i /\ new[i] # {} /\ FounderOf(new, i) = j
        <3>1. k \in 1..n => new[k] = old[k] /\ k # i
            OBVIOUS
        <3> QED BY <1>6, <2>1, <3>1 DEF Members
    <2> QED BY <2>2
<1>8. new[i] # {} => /\ FounderOf(new, i) \in Founders(new)
                     /\ Similar(new[i], new[FounderOf(new, i)])
                     /\ \A j \in Founders(new) :
                            Similar(new[i], new[j]) => FounderOf(new, i) <= j
    BY <1>2, FounderOfClaim
<1> SUFFICES
          /\ Founders(old) \subseteq 1..n
          /\ Founders(new) = IF new[i] # {} /\ near = {}
                             THEN Founders(old) \cup {i} ELSE Founders(old)
          /\ \A j \in Founders(old) :
                Members(new, j) =
                    IF new[i] # {} /\ j \in near /\ (\A k \in near : j <= k)
                    THEN Members(old, j) \cup {i} ELSE Members(old, j)
          /\ new[i] # {} /\ near = {} => Members(new, i) = {i}
    BY DEF FoundersFollow, near
<1>9. CASE new[i] = {}
    BY <1>2, <1>5, <1>7, <1>9
<1>10. CASE new[i] # {} /\ near = {}
    <2>1. Founders(new) = Founders(old) \cup {i}
        BY <1>5, <1>10
    <2>2. \A j \in Founders(old) : ~Similar(new[i], new[j]) /\ j # i
        <3>1. \A j \in Founders(old) : new[j] = old[j] /\ j # i
            BY <1>2
        <3> QED BY <1>10, <3>1
    <2>3. FounderOf(new, i) = i
        <3> QED BY <1>8, <1>10, <2>1, <2>2
    <2>4. Members(old, i) = {}
        <3> SUFFICES ASSUME NEW k \in Members(old, i) PROVE FALSE
            OBVIOUS
        <3>1. k \in 1..n /\ old[k] # {} /\ FounderOf(old, k) = i
            BY DEF Members
        <3>2. FounderOf(old, k) \in Founders(old)
            BY <3>1, FounderOfClaim
        <3>3. i \notin Founders(old)
            BY <2>2
        <3> QED BY <3>1, <3>2, <3>3
    <2>5. \A j \in Founders(old) : j # i
        BY <2>2
    <2> QED BY <1>2, <1>7, <1>10, <2>1, <2>3, <2>4, <2>5
<1>11. CASE new[i] # {} /\ near # {}
    <2>1. Founders(new) = Founders(old)
        BY <1>5, <1>11
    <2>2. \A j \in Founders(old) : new[j] = old[j] /\ j \in Nat
        BY <1>2
    <2> DEFINE f == FounderOf(new, i)
    <2>3. f \in near /\ \A k \in near : f <= k
        <3> QED BY <1>8, <1>11, <2>1, <2>2
    <2> HIDE DEF f
    <2>4. \A j \in near : j \in Nat
        BY <2>2
    <2>5. ASSUME NEW j \in Founders(old)
          PROVE  f = j <=> j \in near /\ \A k \in near : j <= k
        BY <2>3, <2>4
    <2>6. \A j \in Founders(old) : Members(new, j) =
              IF j \in near /\ (\A k \in near : j <= k)
              THEN Members(old, j) \cup {i} ELSE Members(old, j)
        <3>1. \A j : Members(new, j) = Members(old, j) \cup {k \in {i} : f = j}
            <4> QED BY <1>7, <1>11 DEF f
        <3> QED BY <2>5, <3>1
    <2> QED BY <1>2, <1>11, <2>1, <2>6
<1> QED BY <1>9, <1>10, <1>11

\* Adding to a cluster leaves its representative.
LEMMA HeldAppend ==
    ASSUME NEW c \in Seq(Nat), c # <<>>, NEW x \in Nat
    PROVE  /\ Append(c, x) \in Seq(Nat) /\ Append(c, x) # <<>>
           /\ Append(c, x)[1] = c[1]
           /\ Held(Append(c, x)) = Held(c) \cup {x}
<1> DEFINE d == Append(c, x)
           n == Len(c)
<1>1. /\ d \in Seq(Nat) /\ Len(d) = n + 1
      /\ \A k \in 1..n : d[k] = c[k]
      /\ d[n + 1] = x
    BY AppendProperties
<1>2. n \in Nat /\ n # 0 /\ DOMAIN c = 1..n
    BY EmptySeq
<1>3. DOMAIN d = 1..(n + 1) /\ d # <<>>
    BY <1>1, <1>2
<1> HIDE DEF d, n
<1>4. d[1] = c[1]
    BY <1>1, <1>2
<1>5. Held(d) = Held(c) \cup {x}
    <2>1. 1..(n + 1) = (1..n) \cup {n + 1}
        BY <1>2
    <2>2. \A y : y \in Held(d) <=> (\E k \in 1..n : y = c[k]) \/ y = x
        BY <1>1, <1>3, <2>1 DEF Held
    <2> QED BY <1>2, <2>2 DEF Held
<1> QED BY <1>1, <1>3, <1>4, <1>5 DEF d

\* What LoopFindsTheFounders says of any claims and clusters.
Finds(texts, found) ==
    /\ {found[c][1] : c \in DOMAIN found} = Founders(texts)
    /\ \A c \in DOMAIN found : Held(found[c]) = Members(texts, found[c][1])
    /\ \A c, d \in DOMAIN found : c < d => found[c][1] < found[d][1]

\* A new cluster is of a founder, and stands behind those there are.
LEMMA NewClusterFinds ==
    ASSUME NEW n, NEW i, NEW old, NEW new, OneMore(n, i, old, new), new[i] # {},
           NEW found \in Seq(Seq(Nat)), Finds(old, found),
           \A c \in DOMAIN found : ~Similar(new[i], old[found[c][1]])
    PROVE  Finds(new, Append(found, <<i>>))
<1> DEFINE near == Near(i, old, new)
           one == <<i>>
           more == Append(found, one)
           size == Len(found)
<1> n \in Nat /\ i = n + 1
    BY DEF OneMore
<1>0. near = {}
    BY DEF Finds, Near
<1>1. /\ Founders(old) \subseteq 1..n
      /\ Founders(new) = Founders(old) \cup {i}
      /\ \A j \in Founders(old) : Members(new, j) = Members(old, j)
      /\ Members(new, i) = {i}
    <2>1. FoundersFollow(n, i, old, new)
        BY OneClaimMore
    <2> HIDE DEF near
    <2> QED BY <1>0, <2>1 DEF FoundersFollow, near
<1>2. one \in Seq(Nat) /\ one[1] = i /\ Held(one) = {i} /\ i \in Nat
    BY DEF Held
<1>3. /\ Len(more) = size + 1 /\ more \in Seq(Seq(Nat))
      /\ \A c \in 1..size : more[c] = found[c]
      /\ more[size + 1] = one
    BY <1>2, AppendProperties
<1>4. DOMAIN more = 1..(size + 1) /\ DOMAIN found = 1..size /\ size \in Nat
    BY <1>3
<1>5. \A c \in 1..size : found[c][1] \in Founders(old)
    BY <1>4 DEF Finds
<1>6. i \notin 1..n /\ \A j \in 1..n : j < i
    OBVIOUS
<1> HIDE DEF near, one, more, size
<1>7. \A c \in 1..(size + 1) : c \in 1..size \/ c = size + 1
    BY <1>4
<1>8. {more[c][1] : c \in DOMAIN more} = Founders(new)
    <2>1. {found[c][1] : c \in 1..size} = Founders(old)
        BY <1>4 DEF Finds
    <2>2. \A x : (\E c \in 1..(size + 1) : x = more[c][1])
                    <=> (\E c \in 1..size : x = found[c][1]) \/ x = i
        <3>1. size + 1 \in 1..(size + 1) /\ \A c \in 1..size : c \in 1..(size + 1)
            BY <1>4
        <3> QED BY <1>2, <1>3, <1>7, <3>1
    <2>3. ASSUME NEW x
          PROVE  x \in {more[c][1] : c \in DOMAIN more} <=> x \in Founders(new)
        <3>1. x \in {more[c][1] : c \in DOMAIN more}
                  <=> \E c \in 1..(size + 1) : x = more[c][1]
            BY <1>4
        <3>2. x \in Founders(old) <=> \E c \in 1..size : x = found[c][1]
            BY <2>1
        <3>3. x \in Founders(new) <=> x \in Founders(old) \/ x = i
            BY <1>1
        <3> QED BY <2>2, <3>1, <3>2, <3>3, Zenon
    <2> QED BY <2>3
<1>9. ASSUME NEW c \in DOMAIN more PROVE Held(more[c]) = Members(new, more[c][1])
    <2>1. CASE c \in 1..size
        <3>1. more[c] = found[c] /\ Held(found[c]) = Members(old, found[c][1])
            BY <1>3, <1>4, <2>1 DEF Finds
        <3> QED BY <1>1, <1>5, <2>1, <3>1
    <2>2. CASE c = size + 1
        BY <1>1, <1>2, <1>3, <2>2
    <2> QED BY <1>4, <1>7, <2>1, <2>2
<1>10. ASSUME NEW c \in DOMAIN more, NEW d \in DOMAIN more, c < d
       PROVE  more[c][1] < more[d][1]
    <2>1. c \in 1..size
        BY <1>4, <1>10
    <2>2. CASE d \in 1..size
        BY <1>3, <1>4, <1>10, <2>1, <2>2 DEF Finds
    <2>3. CASE d = size + 1
        <3>1. more[c][1] \in 1..n
            BY <1>1, <1>3, <1>5, <2>1
        <3>2. more[d][1] = i
            BY <1>2, <1>3, <2>3
        <3> QED BY <1>6, <3>1, <3>2
    <2> QED BY <1>4, <1>7, <2>2, <2>3
<1> QED BY <1>8, <1>9, <1>10 DEF Finds, more, one

\* The first cluster that a claim resembles is that of its founder.
LEMMA JoinedClusterFinds ==
    ASSUME NEW n, NEW i, NEW old, NEW new, OneMore(n, i, old, new), new[i] # {},
           NEW found \in Seq(Seq(Nat)), Finds(old, found),
           \A c \in DOMAIN found : found[c] # <<>>,
           NEW m \in DOMAIN found, Similar(new[i], old[found[m][1]]),
           \A c \in DOMAIN found : Similar(new[i], old[found[c][1]]) => m <= c
    PROVE  Finds(new, [found EXCEPT ![m] = Append(@, i)])
<1> DEFINE near == Near(i, old, new)
           joined == [found EXCEPT ![m] = Append(@, i)]
<1> n \in Nat /\ i = n + 1
    BY DEF OneMore
<1>1. DOMAIN found = 1..Len(found) /\ Len(found) \in Nat
    OBVIOUS
<1>2. \A c \in DOMAIN found : found[c] \in Seq(Nat) /\ found[c][1] \in Founders(old)
    BY <1>1 DEF Finds
<1>3. /\ Founders(old) \subseteq 1..n
      /\ Founders(new) = IF new[i] # {} /\ near = {}
                         THEN Founders(old) \cup {i} ELSE Founders(old)
      /\ \A j \in Founders(old) :
            Members(new, j) =
                IF new[i] # {} /\ j \in near /\ (\A k \in near : j <= k)
                THEN Members(old, j) \cup {i} ELSE Members(old, j)
    <2>1. FoundersFollow(n, i, old, new)
        BY OneClaimMore
    <2> QED BY <2>1 DEF FoundersFollow
<1>nat. \A c \in DOMAIN found : found[c][1] \in Nat
    BY <1>2, <1>3
<1>4. found[m][1] \in near
    BY <1>2 DEF Near
<1>5. \A j \in near : \E c \in DOMAIN found : found[c][1] = j /\ m <= c
    BY DEF Finds, Near
<1>6. \A c \in DOMAIN found : m < c => found[m][1] < found[c][1]
    BY DEF Finds
<1>7. \A j \in near : found[m][1] <= j
    <2> SUFFICES ASSUME NEW j \in near PROVE found[m][1] <= j
        OBVIOUS
    <2>1. PICK c \in DOMAIN found : found[c][1] = j /\ m <= c
        BY <1>5
    <2>2. m = c \/ m < c
        BY <1>1, <2>1
    <2>3. j \in Nat /\ found[m][1] \in Nat
        BY <1>nat, <2>1
    <2> QED BY <1>6, <2>1, <2>2, <2>3
<1>8. \A c \in DOMAIN found : c # m => ~(\A k \in near : found[c][1] <= k)
                                        \/ found[c][1] \notin near
    <2> SUFFICES ASSUME NEW c \in DOMAIN found, c # m,
                        \A k \in near : found[c][1] <= k, found[c][1] \in near
                 PROVE  FALSE
        OBVIOUS
    <2>1. m <= c
        BY DEF Near
    <2>2. m < c
        BY <1>1, <2>1
    <2>3. found[m][1] < found[c][1] /\ found[c][1] <= found[m][1]
        BY <1>4, <1>6, <2>2
    <2>4. found[m][1] \in Nat /\ found[c][1] \in Nat
        BY <1>nat
    <2> QED BY <2>3, <2>4
<1>9. i \in Nat
    OBVIOUS
<1>10. /\ DOMAIN joined = DOMAIN found
       /\ \A c \in DOMAIN found : c # m => joined[c] = found[c]
       /\ joined[m] = Append(found[m], i)
    OBVIOUS
<1> HIDE DEF near, joined
<1>11. joined[m][1] = found[m][1] /\ Held(joined[m]) = Held(found[m]) \cup {i}
    BY <1>2, <1>9, <1>10, HeldAppend
<1>12. \A c \in DOMAIN found : joined[c][1] = found[c][1]
    BY <1>10, <1>11
<1>13. {joined[c][1] : c \in DOMAIN joined} = Founders(new)
    <2>1. Founders(new) = Founders(old)
        BY <1>3, <1>4
    <2>2. {found[c][1] : c \in DOMAIN found} = Founders(old)
        BY DEF Finds
    <2>3. ASSUME NEW x
          PROVE  x \in {joined[c][1] : c \in DOMAIN joined}
                     <=> x \in {found[c][1] : c \in DOMAIN found}
        <3>1. DOMAIN joined = DOMAIN found
            BY <1>10
        <3> HIDE DEF joined
        <3> QED BY <1>12, <3>1
    <2> QED BY <2>1, <2>2, <2>3
<1>14. ASSUME NEW c \in DOMAIN joined PROVE Held(joined[c]) = Members(new, joined[c][1])
    <2>0. /\ c \in DOMAIN found /\ joined[c][1] = found[c][1]
          /\ Held(found[c]) = Members(old, found[c][1])
          /\ new[i] # {} /\ found[c][1] \in Founders(old)
        BY <1>2, <1>10, <1>12, <1>14 DEF Finds
    <2>1. CASE c = m
        <3>1. Members(new, found[m][1]) = Members(old, found[m][1]) \cup {i}
            BY <1>3, <1>4, <1>7, <2>0, <2>1
        <3> QED BY <1>11, <2>0, <2>1, <3>1
    <2>2. CASE c # m
        <3>1. Members(new, found[c][1]) = Members(old, found[c][1])
            BY <1>3, <1>8, <2>0, <2>2
        <3> QED BY <1>10, <2>0, <2>2, <3>1
    <2> QED BY <2>1, <2>2
<1>15. \A c, d \in DOMAIN joined : c < d => joined[c][1] < joined[d][1]
    BY <1>10, <1>12 DEF Finds
<1> QED BY <1>13, <1>14, <1>15 DEF Finds, joined

\* A claim without words changes nothing.
LEMMA WordlessClaimFinds ==
    ASSUME NEW n, NEW i, NEW old, NEW new, OneMore(n, i, old, new), new[i] = {},
           NEW found, Finds(old, found)
    PROVE  Finds(new, found)
<1>1. FoundersFollow(n, i, old, new)
    BY OneClaimMore
<1>2. Founders(new) = Founders(old) /\ \A j \in Founders(old) : Members(new, j) = Members(old, j)
    BY <1>1, Zenon DEF FoundersFollow
<1>3. \A c \in DOMAIN found : found[c][1] \in Founders(old)
    BY DEF Finds
<1> QED BY <1>2, <1>3 DEF Finds

\* Every branch of an iteration keeps the loop at that.
LEMMA LoopStep ==
    ASSUME LoopInv, NEW claim \in Texts, AddClaim(claim)
    PROVE  LoopInv'
<1>1. PICK n, i, old, new, found, next :
          /\ n = Len(claims) /\ i = n + 1 /\ old = claims /\ new = claims'
          /\ found = clusters /\ next = clusters'
    OBVIOUS
<1>2. OneMore(n, i, old, new) /\ new[i] = claim /\ n \in Nat
    <2>1. claims' = Append(claims, claim)
        BY DEF AddClaim
    <2> QED BY <1>1, <2>1, EarlierClaimsStand DEF LoopInv, OneMore
<1>3. Finds(old, found)
    BY <1>1 DEF LoopInv, LoopFindsTheFounders, Finds, Held
<1>4. found \in Seq(Seq(Nat)) /\ \A c \in DOMAIN found : found[c] # <<>>
    BY <1>1 DEF LoopInv, Typed
<1>5. Matches(claim) = {c \in DOMAIN found : Similar(new[i], old[found[c][1]])}
    BY <1>1, <1>2 DEF Matches, Representative
<1>6. next = CASE claim = {} -> found
               [] claim # {} /\ Matches(claim) = {} -> Append(found, <<i>>)
               [] OTHER -> [found EXCEPT ![FirstMatch(claim)] = Append(@, i)]
    BY <1>1 DEF AddClaim
<1>7. /\ Finds(new, next)
      /\ next \in Seq(Seq(Nat))
      /\ \A c \in DOMAIN next : next[c] # <<>>
    <2>1. CASE claim = {}
        <3>1. next = found
            BY <1>6, <2>1
        <3> QED BY <1>2, <1>3, <1>4, <2>1, <3>1, WordlessClaimFinds
    <2>2. CASE claim # {} /\ Matches(claim) = {}
        <3>1. next = Append(found, <<i>>)
            BY <1>6, <2>2
        <3>2. Finds(new, Append(found, <<i>>))
            <4>1. \A c \in DOMAIN found : ~Similar(new[i], old[found[c][1]])
                BY <1>5, <2>2
            <4>2. new[i] # {}
                BY <1>2, <2>2
            <4> QED BY <1>2, <1>3, <1>4, <4>1, <4>2, NewClusterFinds
        <3>3. <<i>> \in Seq(Nat) /\ <<i>> # <<>>
            BY <1>1, <1>2
        <3>4. Append(found, <<i>>) \in Seq(Seq(Nat))
              /\ \A c \in DOMAIN Append(found, <<i>>) : Append(found, <<i>>)[c] # <<>>
            <4> DEFINE more == Append(found, <<i>>)
            <4>1. /\ more \in Seq(Seq(Nat))
                  /\ DOMAIN more = DOMAIN found \cup {Len(found) + 1}
                  /\ \A c \in DOMAIN found : more[c] = found[c]
                  /\ more[Len(found) + 1] = <<i>>
                BY <1>4, <3>3, AppendPlaces
            <4> HIDE DEF more
            <4>2. \A c \in DOMAIN more : more[c] # <<>>
                BY <1>4, <3>3, <4>1
            <4> QED BY <4>1, <4>2 DEF more
        <3> QED BY <3>1, <3>2, <3>4
    <2>3. CASE claim # {} /\ Matches(claim) # {}
        <3>1. PICK m \in Matches(claim) : \A c \in Matches(claim) : m <= c
            <4>1. Matches(claim) \in SUBSET Nat
                BY <1>4, <1>5
            <4> QED BY <2>3, <4>1, LeastOf
        <3>2. FirstMatch(claim) = m
            <4>1. Matches(claim) \in SUBSET Nat
                BY <1>4, <1>5
            <4> QED BY <3>1, <4>1, MinIsLeast DEF FirstMatch
        <3>3. /\ m \in DOMAIN found /\ Similar(new[i], old[found[m][1]])
              /\ \A c \in DOMAIN found : Similar(new[i], old[found[c][1]]) => m <= c
            BY <1>5, <3>1
        <3>4. next = [found EXCEPT ![m] = Append(@, i)]
            BY <1>6, <2>3, <3>2
        <3>5. Finds(new, [found EXCEPT ![m] = Append(@, i)])
            <4>1. new[i] # {}
                BY <1>2, <2>3
            <4> QED BY <1>2, <1>3, <1>4, <3>3, <4>1, JoinedClusterFinds
        <3>6. Append(found[m], i) \in Seq(Nat) /\ Append(found[m], i) # <<>>
            <4>1. found[m] \in Seq(Nat) /\ found[m] # <<>> /\ i \in Nat
                BY <1>1, <1>2, <1>4, <3>3
            <4> QED BY <4>1, HeldAppend
        <3>7. next \in Seq(Seq(Nat)) /\ \A c \in DOMAIN next : next[c] # <<>>
            BY <1>4, <3>3, <3>4, <3>6
        <3> QED BY <3>4, <3>5, <3>7
    <2> QED BY <2>1, <2>2, <2>3
<1>8. claims' \in Seq(Texts)
    <2>1. claims' = Append(claims, claim) /\ claims \in Seq(Texts)
        BY DEF AddClaim, LoopInv, Typed
    <2> QED BY <2>1, AppendProperties
<1>9. Typed'
    BY <1>1, <1>7, <1>8 DEF Typed
<1>10. LoopFindsTheFounders'
    BY <1>1, <1>7 DEF LoopFindsTheFounders, Finds, Held
<1> QED BY <1>9, <1>10 DEF LoopInv

\* Before the first claim there is nothing to find.
LEMMA LoopInitially == ASSUME Init PROVE LoopInv
<1>1. claims = <<>> /\ clusters = <<>>
    BY DEF Init
<1>2. Typed
    BY <1>1 DEF Typed
<1>3. Founders(claims) = {}
    <2>1. DOMAIN claims = 1..0 /\ 1..0 = {}
        BY <1>1
    <2> QED BY <2>1, FoundersAre
<1>4. LoopFindsTheFounders
    <2>1. DOMAIN clusters = {}
        BY <1>1
    <2> QED BY <1>3, <2>1 DEF LoopFindsTheFounders
<1> QED BY <1>2, <1>4 DEF LoopInv

\* So they are found after every claim.
LEMMA LoopHolds == Spec => []LoopInv
<1>1. Init => LoopInv
    BY LoopInitially
<1>2. LoopInv /\ [Next]_vars => LoopInv'
    <2> SUFFICES ASSUME LoopInv, [Next]_vars PROVE LoopInv'
        OBVIOUS
    <2>1. CASE Next
        BY <2>1, LoopStep DEF Next, Texts
    <2>2. CASE UNCHANGED vars
        BY <2>2 DEF vars, LoopInv, Typed, LoopFindsTheFounders
    <2> QED BY <2>1, <2>2
<1> QED BY <1>1, <1>2, PTL DEF Spec

\* The single pass of _cluster_claims_by_jaccard finds, for any claims of any
\* words, the clusters that Claims defines: one for each founder, in order,
\* with its members.
THEOREM LoopFinds == Spec => []LoopFindsTheFounders
<1>1. LoopInv => LoopFindsTheFounders
    BY DEF LoopInv
<1> QED BY <1>1, LoopHolds, PTL

\* No two of its clusters stand for the same position.
THEOREM ClustersDiffering == Spec => []ClustersDiffer
<1>1. LoopInv => ClustersDiffer
    <2> SUFFICES ASSUME LoopInv PROVE ClustersDiffer
        OBVIOUS
    <2> DEFINE n == Len(claims)
    <2>1. n \in Nat /\ DOMAIN claims = 1..n
        BY DEF LoopInv, Typed
    <2>2. \A c \in DOMAIN clusters : clusters[c][1] \in Founders(claims)
        BY DEF LoopInv, LoopFindsTheFounders
    <2>3. \A c \in DOMAIN clusters : c \in Nat
        BY DEF LoopInv, Typed
    <2> HIDE DEF n
    <2>4. ASSUME NEW a \in Founders(claims), NEW b \in Founders(claims), a < b
          PROVE  ~Similar(claims[a], claims[b]) /\ ~Similar(claims[b], claims[a])
        <3>1. a \in 1..n /\ b \in 1..n
            BY <2>1, FoundersAre
        <3>2. a \in 1..(b - 1)
            BY <2>4, <3>1, <2>1
        <3>3. ~Similar(claims[b], claims[a])
            BY <2>1, <3>1, <3>2, FoundersAre
        <3> QED BY <3>3, SimilarBothWays
    <2>5. ASSUME NEW c \in DOMAIN clusters, NEW d \in DOMAIN clusters, c # d
          PROVE  ~Similar(Representative(c), Representative(d))
        <3>1. c < d \/ d < c
            BY <2>3, <2>5
        <3>2. clusters[c][1] < clusters[d][1] \/ clusters[d][1] < clusters[c][1]
            BY <3>1 DEF LoopInv, LoopFindsTheFounders
        <3> QED BY <2>2, <2>4, <3>2 DEF Representative
    <2> QED BY <2>5 DEF ClustersDiffer
<1> QED BY <1>1, LoopHolds, PTL

=============================================================================
