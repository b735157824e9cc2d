---------------------------- MODULE ClauseMemoryMC ----------------------------
EXTENDS ClauseMemory, TLC

\* Two officers on each of two lessons.
MCTeaches == [c \in Corrections |-> IF c \in {1, 3} THEN "l1" ELSE "l2"]
MCOfficer == [c \in Corrections |-> IF c \in {1, 2} THEN "o1" ELSE "o2"]
=============================================================================
