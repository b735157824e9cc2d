---------------------------- MODULE SpecVersionsMC ----------------------------
EXTENDS SpecVersions, TLC
CONSTANTS r1, r2, t1
Symmetry == Permutations(Requests)
=============================================================================
