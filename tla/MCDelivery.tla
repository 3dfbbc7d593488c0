----------------------------- MODULE MCDelivery -----------------------------
(* Instances of Delivery. *)
EXTENDS Delivery, TLC

CONSTANTS r1, r2, d1, d2, w1, w2

Symmetry == Permutations({w1, w2}) \cup Permutations({d1, d2})
=============================================================================
