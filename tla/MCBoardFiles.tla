---------------------------- MODULE MCBoardFiles ----------------------------
EXTENDS BoardEvidence, TLC

Symmetry ==
    Permutations(Requests) \cup Permutations(Keys) \cup Permutations(Contents)
    \cup Permutations(Payloads)
=============================================================================
