----------------------------- MODULE KillSwitchMC -----------------------------
EXTENDS KillSwitch

CONSTANTS p1, p2, a1, a2, o1, o2

\* Every app is under the global switch, the second can be paused by itself too.
MCCovers == [a \in Apps |-> IF a = a1 THEN {"global"} ELSE {"global", "app"}]
\* p2 only sets and lifts halts: to p1 it is any other process.
MCHome == [o \in Operations |-> p1]
MCAppOf == [o \in Operations |-> IF o = o1 THEN a1 ELSE a2]
=============================================================================
