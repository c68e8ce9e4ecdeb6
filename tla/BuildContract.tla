---------------------------- MODULE BuildContract ----------------------------
(***************************************************************************)
(* What the drive task of a room relies on when it awaits build_round: a   *)
(* build journals memory writes while it runs, and then either returns a   *)
(* round with at least one specialist, each of them once, or raises, or is *)
(* cancelled; a build that is over journals nothing.                       *)
(***************************************************************************)
EXTENDS Naturals, Sequences

CONSTANT Specialists

VARIABLES phase,    \* "building", "returned", "failed" or "cancelled"
          lineup,   \* the specialists of the round returned
          writes    \* events the build has journaled

Distinct(s) == \A i, j \in DOMAIN s : s[i] = s[j] => i = j

Init ==
    /\ phase = "building"
    /\ lineup = <<>>
    /\ writes = 0

\* The last write may come with the end of the build.
Journal == writes' \in Nat /\ writes' >= writes

Work ==
    /\ phase = "building"
    /\ Journal
    /\ UNCHANGED <<phase, lineup>>

Return ==
    /\ phase = "building"
    /\ Journal
    /\ phase' = "returned"
    /\ lineup' \in Seq(Specialists) \ {<<>>}
    /\ Distinct(lineup')

Stop ==
    /\ phase = "building"
    /\ Journal
    /\ phase' \in {"failed", "cancelled"}
    /\ UNCHANGED lineup

Next == Work \/ Return \/ Stop

Spec == Init /\ [][Next]_<<phase, lineup, writes>>

=============================================================================
