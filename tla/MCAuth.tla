------------------------------- MODULE MCAuth -------------------------------
(* Instances of Auth for TLC. *)
EXTENDS Auth, TLC

\* Tokens, requests and emails are told apart only by their identity.
Symmetry == Permutations(Tokens) \cup Permutations(Requests) \cup Permutations(Emails)
=============================================================================
