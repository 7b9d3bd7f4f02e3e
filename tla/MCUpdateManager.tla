---------------------------- MODULE MCUpdateManager ----------------------------
EXTENDS UpdateManager, TLC

Symmetry == Permutations(DirIds)

================================================================================
