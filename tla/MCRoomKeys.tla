----------------------------- MODULE MCRoomKeys -----------------------------
(* Instances of RoomKeys for TLC. *)
EXTENDS RoomKeys, TLC

\* Users and calls are told apart only by their identity.
Symmetry == Permutations(Users) \cup Permutations(Calls)
=============================================================================
