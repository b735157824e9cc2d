----------------------------- MODULE LeaderElection -----------------------------
(***************************************************************************)
(* The leader lock of the Smart App Service (main.py                        *)
(* _leader_election_loop).  Every instance tries to hold one Redis key with *)
(* a time to live; the one that believes it holds the key, by a flag of its *)
(* own, runs the singleton loops: the trigger tick, the outcome poller, the *)
(* idle sweep, the grounding rebuild and the clause consolidation.          *)
(*                                                                         *)
(* An instance is one process: its id is drawn anew at every start, so a    *)
(* restart is another instance.  Time passes in ticks.  No clock is kept,   *)
(* only what is left of each delay.  Each command to Redis is a step.       *)
(***************************************************************************)
EXTENDS Naturals

CONSTANTS
    Instances,   \* processes, by _INSTANCE_ID
    NoInstance,
    TTL,         \* ticks the key lives (SCHEDULER_LEADER_TTL_MS)
    Renew,       \* ticks an instance waits between two rounds
    Lag,         \* ticks a round may take from waking to its last answer
    Stallers,    \* instances that may be late without limit: a blocked event
                 \* loop, a frozen container
    MaxErrors    \* bound on the commands that fail

ASSUME LeaderConstants ==
    /\ NoInstance \notin Instances
    /\ TTL \in Nat /\ Renew \in Nat \ {0} /\ Lag \in Nat
    /\ Renew + Lag < TTL
    /\ Stallers \subseteq Instances /\ MaxErrors \in Nat

VARIABLES
    lock,     \* value of the key in Redis
    left,     \* ticks before it expires; 0 for a key that is not set
    pc,       \* where each instance's election loop is
    due,      \* ticks before the loop wakes, or before its round is over
    flag,     \* _is_leader_flag of each instance
    errors,   \* commands that have failed
    trouble   \* history: ticks before the effects of the last renewal that
              \* found the key lost are over

vars == <<lock, left, pc, due, flag, errors, trouble>>

InRound == {"try", "look", "renew"}

\* A split that a late renewal caused is over when every instance has gone
\* through one more round.
Heal == Renew + Lag + 1

TypeOK ==
    /\ lock \in Instances \cup {NoInstance}
    /\ left \in 0..TTL /\ (left = 0 <=> lock = NoInstance)
    /\ pc \in [Instances -> {"new", "wait", "gone"} \cup InRound]
    /\ due \in [Instances -> 0..(Renew + Lag)]
    /\ flag \in [Instances -> BOOLEAN]
    /\ errors \in 0..MaxErrors /\ trouble \in 0..Heal

Init ==
    /\ lock = NoInstance /\ left = 0
    /\ pc = [i \in Instances |-> "new"]
    /\ due = [i \in Instances |-> 0]
    /\ flag = [i \in Instances |-> FALSE]
    /\ errors = 0 /\ trouble = 0

Running(i) == pc[i] \in InRound \cup {"wait"}

-----------------------------------------------------------------------------
Goto(i, p, d) ==
    /\ pc' = [pc EXCEPT ![i] = p]
    /\ due' = [due EXCEPT ![i] = d]

\* Mutant: the wait leaves no time for the round before the key expires.
RestLong(i, leads) ==
    /\ Goto(i, "wait", TTL - Lag)
    /\ flag' = [flag EXCEPT ![i] = leads]

\* The round is over: the flag is set and the loop waits.
Rest(i, leads) ==
    /\ Goto(i, "wait", Renew)
    /\ flag' = [flag EXCEPT ![i] = leads]

\* SET key id PX ttl, where NX or XX let it through.
SetKey(i) == lock' = i /\ left' = TTL

\* Mutant: a renewal without PX, which leaves a key that never expires.
SetForever(i) ==
    /\ IF lock = NoInstance THEN UNCHANGED lock ELSE lock' = i
    /\ left' = 0
    /\ trouble' = IF lock = i THEN trouble ELSE Heal

\* SET XX does nothing to a key that is not set, and overwrites any other
\* instance's.  The loop does not look at the answer.
SetIfHeld(i) ==
    /\ IF lock = NoInstance THEN UNCHANGED <<lock, left>> ELSE SetKey(i)
    /\ trouble' = IF lock = i THEN trouble ELSE Heal

Start(i) ==
    /\ pc[i] = "new"
    /\ Goto(i, "try", Lag)
    /\ UNCHANGED <<lock, left, flag, errors, trouble>>

Wake(i) ==
    /\ pc[i] = "wait" /\ due[i] = 0
    /\ Goto(i, "try", Lag)
    /\ UNCHANGED <<lock, left, flag, errors, trouble>>

\* SET key id NX PX ttl.
Acquire(i) ==
    /\ pc[i] = "try"
    /\ \/ lock = NoInstance /\ SetKey(i) /\ Rest(i, TRUE)
       \/ lock # NoInstance /\ Goto(i, "look", due[i]) /\ UNCHANGED <<lock, left, flag>>
    /\ UNCHANGED <<errors, trouble>>

\* Mutant: an instance that sees another's id keeps the flag it had.
LookKeepsFlag(i) ==
    /\ pc[i] = "look"
    /\ \/ lock = i /\ Goto(i, "renew", due[i]) /\ UNCHANGED flag
       \/ lock # i /\ Rest(i, flag[i])
    /\ UNCHANGED <<lock, left, errors, trouble>>

\* GET key: one's own id is renewed, anything else ends one's leadership.
Look(i) ==
    /\ pc[i] = "look"
    /\ \/ lock = i /\ Goto(i, "renew", due[i]) /\ UNCHANGED flag
       \/ lock # i /\ Rest(i, FALSE)
    /\ UNCHANGED <<lock, left, errors, trouble>>

\* SET key id XX PX ttl.
Extend(i) ==
    /\ pc[i] = "renew"
    /\ SetIfHeld(i)
    /\ Rest(i, TRUE)
    /\ UNCHANGED errors

\* The loop, when it is let through.
Step(i) == Wake(i) \/ Acquire(i) \/ Look(i) \/ Extend(i)

-----------------------------------------------------------------------------
(* What can go wrong, and time.                                            *)

\* A command that failed was not executed, or was and its answer is lost.
Executed(i) ==
    \/ pc[i] = "try" /\ lock = NoInstance /\ SetKey(i) /\ UNCHANGED trouble
    \/ pc[i] = "renew" /\ SetIfHeld(i)

\* Mutant: leadership outlives an error.
ErrorKeepsFlag(i) ==
    /\ pc[i] \in InRound /\ errors < MaxErrors
    /\ Executed(i) \/ UNCHANGED <<lock, left, trouble>>
    /\ Rest(i, flag[i])
    /\ errors' = errors + 1

\* Any exception of a round: relinquish, reconnect at the next one.
Error(i) ==
    /\ pc[i] \in InRound /\ errors < MaxErrors
    /\ Executed(i) \/ UNCHANGED <<lock, left, trouble>>
    /\ Rest(i, FALSE)
    /\ errors' = errors + 1

\* A crash, or a shutdown: that cancels the election task before the task can
\* give its lock back, so the key stays until it expires.
Leave(i) ==
    /\ Running(i)
    /\ Goto(i, "gone", 0)
    /\ flag' = [flag EXCEPT ![i] = FALSE]
    /\ UNCHANGED <<lock, left, errors, trouble>>

Less(n) == IF n = 0 THEN 0 ELSE n - 1

\* No one but a staller is ever later than its delays allow.
Tick ==
    /\ \A i \in Instances \ Stallers : Running(i) => due[i] > 0
    /\ due' = [i \in Instances |-> Less(due[i])]
    /\ left' = Less(left)
    /\ lock' = IF left = 1 THEN NoInstance ELSE lock
    /\ trouble' = Less(trouble)
    /\ UNCHANGED <<pc, flag, errors>>

Next ==
    \/ Tick
    \/ \E i \in Instances : Start(i) \/ Step(i) \/ Error(i) \/ Leave(i)

Fairness == WF_vars(Tick) /\ \A i \in Instances : WF_vars(Step(i))

Spec == Init /\ [][Next]_vars /\ Fairness

-----------------------------------------------------------------------------
(* Properties.                                                             *)

\* An instance that is not stalled and believes it leads holds the key, so
\* there is one leader, except for one round after a renewal that came too
\* late for its key: "they must run on exactly ONE instance".
LeadersHoldTheLock ==
    \A i \in Instances \ Stallers : flag[i] /\ trouble = 0 => lock = i

\* What is left of the time instance i may take to go through a whole round.
Remaining(i) == IF pc[i] = "wait" THEN due[i] + Lag ELSE due[i]

\* A leader's key outlives its next round; one that lost its key to a late
\* renewal finds out before the trouble is over.
Lease(i) ==
    /\ pc[i] \in InRound => due[i] <= Lag
    /\ pc[i] = "wait" => due[i] <= Renew
    /\ flag[i] => Running(i)
    /\ flag[i] /\ lock = i => left > Remaining(i) \/ trouble > Remaining(i)
    /\ flag[i] /\ lock # i => trouble > Remaining(i)
LeaseInv == \A i \in Instances \ Stallers : Lease(i)

\* While no command has failed an instance knows whether the key is its own.
KnownInv ==
    /\ \A i \in Instances : lock = i => pc[i] # "new"
    /\ errors = 0 =>
          \A i \in Instances :
             /\ lock = i /\ Running(i) => flag[i]
             /\ pc[i] = "renew" => flag[i]

IInv == TypeOK /\ LeaseInv /\ KnownInv

\* What makes a renewal come too late, and so two leaders possible, is a stall
\* or a failed command; with neither, SET NX, GET and SET XX do as one.
OnlyFaultsBringTrouble ==
    [][trouble = 0 /\ trouble' # 0 =>
          \/ errors > 0
          \/ \E i \in Stallers : pc[i] = "renew"]_vars

\* As long as an instance is running there is a leader again and again: one
\* that died is replaced when its key has expired.
Failover ==
    (\E i \in Instances : Running(i)) ~>
        \/ \E i \in Instances : flag[i]
        \/ \A i \in Instances : ~ Running(i)
=============================================================================
