--------------------------- MODULE MeetingLifecycle ---------------------------
(***************************************************************************)
(* What a room promises its clients, with no journal, task or lock: a      *)
(* meeting runs through at most MaxRounds rounds, takes messages from its  *)
(* operator while it runs, and ends once, for one of four causes.  Only a  *)
(* completed round can end it by the executor's signal, only a completed   *)
(* last round by the budget.                                               *)
(***************************************************************************)
EXTENDS Naturals

CONSTANTS MaxRounds    \* the round budget of the control policy

VARIABLES
    cause,      \* why the meeting ended, "none" while it runs
    completed,  \* rounds that reached their consensus check
    accepted    \* operator messages taken

vars == <<cause, completed, accepted>>

Init ==
    /\ cause = "none"
    /\ completed = 0
    /\ accepted = 0

AcceptMessage ==
    /\ cause = "none"
    /\ accepted' = accepted + 1
    /\ UNCHANGED <<cause, completed>>

CompleteRound ==
    /\ cause = "none"
    /\ completed < MaxRounds
    /\ completed' = completed + 1
    /\ cause' \in {"none", "orchestration", "budget"}
    /\ cause' = "budget" => completed' = MaxRounds
    /\ cause' = "none" => completed' < MaxRounds
    /\ UNCHANGED accepted

\* An override or a failure ends the meeting in the middle of a round.
Interrupt ==
    /\ cause = "none"
    /\ cause' \in {"override", "runtime_failure"}
    /\ UNCHANGED <<completed, accepted>>

Next == AcceptMessage \/ CompleteRound \/ Interrupt

Spec == Init /\ [][Next]_vars
=============================================================================
