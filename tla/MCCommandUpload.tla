-------------------------- MODULE MCCommandUpload --------------------------
(* Instances of CommandUpload. *)
EXTENDS CommandUpload, TLC

CONSTANTS i1, g1, g2, q1, q2, u1, u2, u3, x, y

Symmetry == Permutations({g1, g2}) \cup Permutations({q1, q2})
            \cup Permutations({u1, u2, u3}) \cup Permutations({x, y})
=============================================================================
