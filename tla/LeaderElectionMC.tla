--------------------------- MODULE LeaderElectionMC ---------------------------
EXTENDS LeaderElection

CONSTANTS i1, i2, i3
=============================================================================
