---------------------------- MODULE MCRoomRuntime ----------------------------
(***************************************************************************)
(* RoomRuntime for TLC.  s1 is announced when the room opens, s2 only when *)
(* a round nominates it.                                                   *)
(***************************************************************************)
EXTENDS RoomRuntime

CONSTANTS s1, s2
MCSpecialists == {s1, s2}
MCRoster == <<s1>>
=============================================================================
