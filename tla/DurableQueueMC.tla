---------------------------- MODULE DurableQueueMC ----------------------------
EXTENDS DurableQueue, TLC
Symmetry == Permutations(Procs) \cup Permutations(Jobs \ Foreign)
=============================================================================
