--------------------------- MODULE MCBoardJournal ---------------------------
(* Instances of BoardJournal. *)
EXTENDS BoardJournal, TLC

CONSTANTS k1, k2, k3, a, b, x, y, s1, s2

Symmetry == Permutations({k1, k2, k3}) \cup Permutations({a, b})
            \cup Permutations({x, y}) \cup Permutations({s1, s2})
=============================================================================
