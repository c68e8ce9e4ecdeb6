------------------------------- MODULE Listing -------------------------------
(***************************************************************************)
(* Lists made from sets: what sorted(...) and the filtering loops of the   *)
(* orchestration build.  An order is a set of pairs, so that the           *)
(* definitions can be reasoned about as well as evaluated.                 *)
(***************************************************************************)
EXTENDS Naturals, FiniteSets

\* s lists the members of S, each once, in the order of before.
Lists(s, S, before) ==
    /\ {s[i] : i \in 1..Cardinality(S)} = S
    /\ \A i, j \in 1..Cardinality(S) : i < j => <<s[i], s[j]>> \in before

\* sorted(S): the members of a finite set, in a strict total order of it.
Listed(S, before) == CHOOSE s \in [1..Cardinality(S) -> S] : Lists(s, S, before)

\* The members of a finite set of numbers, from the least to the greatest.
Upwards(S) == {p \in S \X S : p[1] < p[2]}
InOrder(S) == Listed(S, Upwards(S))

\* The entries of s at some of its places, sorted by an order of the places.
SortedBy(s, places, before) ==
    [k \in 1..Cardinality(places) |-> s[Listed(places, before)[k]]]

\* [x for x in s if ...]: what a filtering loop over s keeps.
Picked(s, places) == SortedBy(s, places, Upwards(places))

\* The first place of each value of s, where a loop meets what it has not
\* seen.
Firsts(s) == {i \in DOMAIN s : \A j \in 1..(i - 1) : s[j] # s[i]}
=============================================================================
