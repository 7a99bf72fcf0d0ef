------------------------------- MODULE MCHub -------------------------------
(* Instances of Hub for TLC. *)
EXTENDS Hub, TLC

\* Users, and connections, are told apart only by their identity.  (For safety only.)
Symmetry == Permutations(Users) \cup Permutations(Clients)
=============================================================================
