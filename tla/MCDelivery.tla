----------------------------- MODULE MCDelivery -----------------------------
(* Instances of Delivery for TLC. *)
EXTENDS Delivery, TLC

\* Connections and requests are told apart only by their identity, and by who asks.
Symmetry ==
  Permutations(Askers) \cup Permutations(Conns \ Askers) \cup Permutations(Requests)
=============================================================================
