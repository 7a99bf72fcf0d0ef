----------------------------- MODULE MCMessages -----------------------------
(* Instances of Messages for TLC. *)
EXTENDS Messages, TLC

\* Calls, users and chats are interchangeable: only their identity is compared.
Symmetry == Permutations(Calls) \cup Permutations(Users) \cup Permutations(Chats)

=============================================================================
