--------------------------- MODULE MCBoardSocket ---------------------------
(* Instances of BoardSocket. *)
EXTENDS BoardSocket, TLC

CONSTANTS i1, g1, g2, q1, s1, s2, h1, h2
=============================================================================
