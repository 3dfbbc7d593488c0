----------------------------- MODULE MCIdentity -----------------------------
EXTENDS Identity, TLC

Symmetry ==
    Permutations(Requests) \cup Permutations(Invitations)
    \cup Permutations(Users \ Admins)
=============================================================================
