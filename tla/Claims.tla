-------------------------------- MODULE Claims --------------------------------
(***************************************************************************)
(* What a round of specialist turns measures (room_executor.py,            *)
(* _measure_signals_from_turns): claims grouped by the words they share,   *)
(* and the confidence behind each group.  Confidences, shares and gaps are *)
(* in thousandths; quotients round down, and the disagreement, one minus a *)
(* quotient, up.                                                           *)
(***************************************************************************)
EXTENDS Integers, Sequences, FiniteSets, FiniteSetsExt

\* A claim is the set of its words, stop words removed.  A claim with no
\* Latin letter or digit has none.
Similar(a, b) ==
    a # {} /\ b # {} /\ 2 * Cardinality(a \cap b) >= Cardinality(a \cup b)

\* The claims that start a cluster: those that have words and resemble no
\* earlier one that does.
Founders(claims) ==
    LET starts[i \in DOMAIN claims] ==
            /\ claims[i] # {}
            /\ \A j \in 1..(i - 1) : starts[j] => ~Similar(claims[i], claims[j])
    IN {i \in DOMAIN claims : starts[i]}

\* A claim belongs to the first founder it resembles.
FounderOf(claims, i) == Min({j \in Founders(claims) : Similar(claims[i], claims[j])})
Members(claims, j) ==
    {i \in DOMAIN claims : claims[i] # {} /\ FounderOf(claims, i) = j}

Mean(confidences, indices) ==
    MapThenSumSet(LAMBDA i : confidences[i], indices) \div Cardinality(indices)

\* The disagreement of a number of clusters.
DisagreementOf(clusters) ==
    CASE clusters = 0 -> 580
      [] clusters = 1 -> 150
      [] OTHER -> 1000 - 1000 \div clusters

\* The lead of the cluster with the highest mean over the next one, and the
\* mutant that takes agreement for a full lead.
LeadOf(means, founders) ==
    LET top == CHOOSE j \in founders : \A k \in founders : means[j] >= means[k]
    IN means[top] - Max({means[k] : k \in founders \ {top}})
SoleClusterLeads(means, founders) ==
    CASE founders = {} -> 50
      [] Cardinality(founders) = 1 -> 1000
      [] OTHER -> LeadOf(means, founders)
Margin(means, founders) ==
    CASE founders = {} -> 50
      [] Cardinality(founders) = 1 -> 0
      [] OTHER -> LeadOf(means, founders)

\* turns: the claim and the confidence of each speaker, in speaking order.
Measure(turns) ==
    LET claims == [i \in DOMAIN turns |-> turns[i].claim]
        confidences == [i \in DOMAIN turns |-> turns[i].confidence]
        founders == Founders(claims)
        means == [j \in founders |-> Mean(confidences, Members(claims, j))]
    IN [speakers |-> Len(turns),
        mean |-> Mean(confidences, DOMAIN turns),
        clusters |-> Cardinality(founders),
        disagreement |-> DisagreementOf(Cardinality(founders)),
        margin |-> Margin(means, founders)]
=============================================================================
