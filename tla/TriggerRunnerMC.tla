--------------------------- MODULE TriggerRunnerMC ---------------------------
EXTENDS TriggerRunner

CONSTANTS p1, p2
=============================================================================
