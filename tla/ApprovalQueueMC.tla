---------------------------- MODULE ApprovalQueueMC ----------------------------
EXTENDS ApprovalQueue, TLC

CONSTANTS r1, r2, q1, q2

OneCase == [r \in Runs |-> "c1"]
Symmetry == Permutations(Requests)
=============================================================================
