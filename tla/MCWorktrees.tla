---------------------------- MODULE MCWorktrees ----------------------------
EXTENDS WorktreeProperties, TLC
Symmetry == Permutations(Reconciler)
=============================================================================
