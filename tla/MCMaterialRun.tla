---------------------------- MODULE MCMaterialRun ----------------------------
EXTENDS MaterialRun, TLC

Symmetry ==
    Permutations(Jobs) \cup Permutations(Kinds) \cup Permutations(Approvers)
=============================================================================
