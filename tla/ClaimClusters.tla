---------------------------- MODULE ClaimClusters -----------------------------
(***************************************************************************)
(* _cluster_claims_by_jaccard (room_executor.py), one iteration of its     *)
(* loop per step: a single pass over the claims of a round that puts each  *)
(* in the first cluster whose representative it resembles.                 *)
(***************************************************************************)
EXTENDS Claims

CONSTANTS Words, MaxClaims

ASSUME WordsAssumption == IsFiniteSet(Words)

VARIABLES
    claims,     \* claim_token_sets up to the current one
    clusters    \* the clusters, each a sequence of indices of claims

vars == <<claims, clusters>>

Init == claims = <<>> /\ clusters = <<>>

\* The representative of a cluster.
Representative(c) == claims[clusters[c][1]]

\* The clusters a claim may join.
Matches(claim) == {c \in DOMAIN clusters : Similar(claim, Representative(c))}

\* The cluster it joins; the mutant has no break, so that the last one wins.
LastMatch(claim) == Max(Matches(claim))
FirstMatch(claim) == Min(Matches(claim))

\* One iteration of the loop.
AddClaim(claim) ==
    /\ Len(claims) < MaxClaims
    /\ claims' = Append(claims, claim)
    /\ LET i == Len(claims) + 1 IN
        clusters' =
            CASE claim = {} -> clusters
              [] claim # {} /\ Matches(claim) = {} -> Append(clusters, <<i>>)
              [] OTHER -> [clusters EXCEPT ![FirstMatch(claim)] = Append(@, i)]

Next == \E claim \in SUBSET Words : AddClaim(claim)

Spec == Init /\ [][Next]_vars

-----------------------------------------------------------------------------
(* Properties.                                                             *)

\* Two clusters never stand for the same position: their representatives,
\* the claims that opened them, do not resemble each other.  It follows from
\* the invariant below, as ClaimClusterProofs shows.
ClustersDiffer ==
    \A c, d \in DOMAIN clusters :
        c # d => ~Similar(Representative(c), Representative(d))

\* The loop computes what Claims defines: its clusters are opened by the
\* founders, in order, and hold their members.
LoopFindsTheFounders ==
    /\ {clusters[c][1] : c \in DOMAIN clusters} = Founders(claims)
    /\ \A c \in DOMAIN clusters :
          {clusters[c][k] : k \in DOMAIN clusters[c]}
              = Members(claims, clusters[c][1])
    /\ \A c, d \in DOMAIN clusters : c < d => clusters[c][1] < clusters[d][1]
=============================================================================
