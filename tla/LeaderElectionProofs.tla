------------------------- MODULE LeaderElectionProofs -------------------------
(***************************************************************************)
(* Proofs about the leader lock, for any instances, delays and faults.       *)
(***************************************************************************)
EXTENDS LeaderElection, TLAPS

-----------------------------------------------------------------------------
(* What the parts of a step do to the key and to the instances.            *)

\* Time runs down.
LEMMA LessFacts ==
  ASSUME NEW n \in Nat
  PROVE  Less(n) \in Nat /\ Less(n) <= n /\ (n > 0 => Less(n) = n - 1)
BY DEF Less

\* A round that is not over has at most Lag to go, a whole one at most Heal - 1.
LEMMA RemainingFacts ==
  ASSUME TypeOK, LeaseInv, NEW i \in Instances \ Stallers, Running(i)
  PROVE  Remaining(i) \in 0..(Renew + Lag)
BY LeaderConstants DEF TypeOK, LeaseInv, Lease, Remaining, Running, InRound

\* Setting the key for i, or leaving key and trouble alone, costs another leader
\* its key only with trouble enough for one more round.
KeyMoves(i) ==
  \/ UNCHANGED <<lock, left, trouble>>
  \/ lock \in {NoInstance, i} /\ SetKey(i) /\ UNCHANGED trouble
  \/ lock # i /\ lock # NoInstance /\ SetKey(i) /\ trouble' = Heal
  \/ lock = NoInstance /\ UNCHANGED <<lock, left>> /\ trouble' = Heal

LEMMA KeyMovesTypes ==
  ASSUME TypeOK, NEW i \in Instances, KeyMoves(i)
  PROVE  /\ lock' \in Instances \cup {NoInstance}
         /\ left' \in 0..TTL /\ (left' = 0 <=> lock' = NoInstance)
         /\ trouble' \in 0..Heal
BY LeaderConstants DEF TypeOK, KeyMoves, SetKey, Heal

LEMMA ExecutedMoves ==
  ASSUME TypeOK, NEW i \in Instances, Executed(i) \/ UNCHANGED <<lock, left, trouble>>
  PROVE  KeyMoves(i)
BY LeaderConstants DEF TypeOK, Executed, KeyMoves, SetIfHeld, SetKey

\* Every other instance keeps its part of LeaseInv through a move of the key.
LEMMA OthersKeep ==
  ASSUME TypeOK, LeaseInv, NEW i \in Instances, KeyMoves(i),
         NEW j \in Instances \ Stallers, j # i,
         pc'[j] = pc[j], due'[j] = due[j], flag'[j] = flag[j]
  PROVE  Lease(j)'
<1> USE LeaderConstants
<1>1. Remaining(j)' = Remaining(j) /\ Running(j)' = Running(j)
  BY DEF Remaining, Running
<1>2. Lease(j)
  BY DEF LeaseInv
<1>3. flag[j] => Remaining(j) \in 0..(Renew + Lag)
  BY <1>2, RemainingFacts DEF Lease
<1>4. CASE UNCHANGED <<lock, left, trouble>>
  BY <1>1, <1>2, <1>4 DEF Lease
<1>5. CASE lock \in {NoInstance, i} /\ SetKey(i) /\ UNCHANGED trouble
  BY <1>1, <1>2, <1>5 DEF SetKey, Lease
<1>6. CASE trouble' = Heal
  BY <1>1, <1>2, <1>3, <1>6 DEF Heal, Lease
<1> QED
  BY <1>4, <1>5, <1>6 DEF KeyMoves

-----------------------------------------------------------------------------
(* One lemma per action.                                                   *)

LEMMA InitInv == Init => IInv
BY LeaderConstants DEF Init, IInv, TypeOK, LeaseInv, Lease, KnownInv, Running, InRound, Heal

LEMMA StartInv ==
  ASSUME IInv, NEW i \in Instances, Start(i)
  PROVE  IInv'
<1> USE LeaderConstants DEF IInv, Start, Goto
<1>1. TypeOK'
  BY DEF TypeOK, InRound
<1>2. LeaseInv'
  <2> SUFFICES ASSUME NEW j \in Instances \ Stallers PROVE Lease(j)'
    BY DEF LeaseInv
  <2>1. CASE j = i
    BY <2>1 DEF TypeOK, LeaseInv, Lease, Remaining, Running, InRound
  <2>2. CASE j # i
    BY <2>2, OthersKeep DEF TypeOK, KeyMoves
  <2> QED
    BY <2>1, <2>2
<1>3. KnownInv'
  BY DEF TypeOK, KnownInv, Running, InRound
<1> QED
  BY <1>1, <1>2, <1>3

LEMMA WakeInv ==
  ASSUME IInv, NEW i \in Instances, Wake(i)
  PROVE  IInv'
<1> USE LeaderConstants DEF IInv, Wake, Goto
<1>1. TypeOK'
  BY DEF TypeOK, InRound
<1>2. LeaseInv'
  <2> SUFFICES ASSUME NEW j \in Instances \ Stallers PROVE Lease(j)'
    BY DEF LeaseInv
  <2>1. CASE j = i
    BY <2>1 DEF TypeOK, LeaseInv, Lease, Remaining, Running, InRound
  <2>2. CASE j # i
    BY <2>2, OthersKeep DEF TypeOK, KeyMoves
  <2> QED
    BY <2>1, <2>2
<1>3. KnownInv'
  BY DEF TypeOK, KnownInv, Running, InRound
<1> QED
  BY <1>1, <1>2, <1>3

LEMMA AcquireInv ==
  ASSUME IInv, NEW i \in Instances, Acquire(i)
  PROVE  IInv'
<1> USE LeaderConstants DEF IInv, Acquire, Goto, Rest
<1>1. KeyMoves(i)
  BY DEF KeyMoves
<1>2. TypeOK'
  <2>1. due[i] \in 0..(Renew + Lag)
    BY DEF TypeOK
  <2>2. CASE Rest(i, TRUE)
    BY <1>1, <2>2, KeyMovesTypes DEF TypeOK
  <2>3. CASE Goto(i, "look", due[i]) /\ UNCHANGED flag
    BY <1>1, <2>1, <2>3, KeyMovesTypes DEF TypeOK, InRound
  <2> QED
    BY <2>2, <2>3
<1>3. LeaseInv'
  <2> SUFFICES ASSUME NEW j \in Instances \ Stallers PROVE Lease(j)'
    BY DEF LeaseInv
  <2>1. CASE j = i
    BY <2>1 DEF TypeOK, LeaseInv, Lease, Remaining, Running, InRound, SetKey
  <2>2. CASE j # i
    BY <1>1, <2>2, OthersKeep DEF TypeOK
  <2> QED
    BY <2>1, <2>2
<1>4. KnownInv'
  BY DEF TypeOK, KnownInv, Running, InRound, SetKey
<1> QED
  BY <1>2, <1>3, <1>4

LEMMA LookInv ==
  ASSUME IInv, NEW i \in Instances, Look(i)
  PROVE  IInv'
<1> USE LeaderConstants DEF IInv, Look, Goto, Rest
<1>1. TypeOK'
  <2>1. due[i] \in 0..(Renew + Lag)
    BY DEF TypeOK
  <2>2. CASE Rest(i, FALSE)
    BY <2>2 DEF TypeOK
  <2>3. CASE Goto(i, "renew", due[i]) /\ UNCHANGED flag
    BY <2>1, <2>3 DEF TypeOK, InRound
  <2> QED
    BY <2>2, <2>3
<1>2. LeaseInv'
  <2> SUFFICES ASSUME NEW j \in Instances \ Stallers PROVE Lease(j)'
    BY DEF LeaseInv
  <2>1. CASE j = i
    BY <2>1 DEF TypeOK, LeaseInv, Lease, Remaining, Running, InRound
  <2>2. CASE j # i
    BY <2>2, OthersKeep DEF TypeOK, KeyMoves
  <2> QED
    BY <2>1, <2>2
<1>3. KnownInv'
  BY DEF TypeOK, KnownInv, Running, InRound
<1> QED
  BY <1>1, <1>2, <1>3

LEMMA ExtendInv ==
  ASSUME IInv, NEW i \in Instances, Extend(i)
  PROVE  IInv'
<1> USE LeaderConstants DEF IInv, Extend, Goto, Rest
<1>1. KeyMoves(i)
  BY DEF KeyMoves, SetIfHeld, SetKey, TypeOK
<1>2. TypeOK'
  BY <1>1, KeyMovesTypes DEF TypeOK, InRound
<1>3. LeaseInv'
  <2> SUFFICES ASSUME NEW j \in Instances \ Stallers PROVE Lease(j)'
    BY DEF LeaseInv
  <2>1. CASE j = i
    BY <2>1 DEF TypeOK, Lease, Remaining, Running, InRound, SetIfHeld, SetKey, Heal
  <2>2. CASE j # i
    BY <1>1, <2>2, OthersKeep DEF TypeOK
  <2> QED
    BY <2>1, <2>2
<1>4. KnownInv'
  BY DEF TypeOK, KnownInv, Running, InRound, SetIfHeld, SetKey
<1> QED
  BY <1>2, <1>3, <1>4

LEMMA ErrorInv ==
  ASSUME IInv, NEW i \in Instances, Error(i)
  PROVE  IInv'
<1> USE LeaderConstants DEF IInv, Error, Goto, Rest
<1>1. KeyMoves(i)
  BY ExecutedMoves
<1>2. TypeOK'
  BY <1>1, KeyMovesTypes DEF TypeOK, InRound
<1>3. LeaseInv'
  <2> SUFFICES ASSUME NEW j \in Instances \ Stallers PROVE Lease(j)'
    BY DEF LeaseInv
  <2>1. CASE j = i
    BY <2>1 DEF TypeOK, Lease, Running, InRound
  <2>2. CASE j # i
    BY <1>1, <2>2, OthersKeep DEF TypeOK
  <2> QED
    BY <2>1, <2>2
<1>4. KnownInv'
  <2>1. errors' # 0
    BY DEF TypeOK
  <2>2. \A j \in Instances : lock' = j => pc'[j] # "new"
    BY <1>1 DEF TypeOK, KnownInv, InRound, KeyMoves, SetKey
  <2> QED
    BY <2>1, <2>2 DEF KnownInv
<1> QED
  BY <1>2, <1>3, <1>4

LEMMA LeaveInv ==
  ASSUME IInv, NEW i \in Instances, Leave(i)
  PROVE  IInv'
<1> USE LeaderConstants DEF IInv, Leave, Goto
<1>1. TypeOK'
  BY DEF TypeOK
<1>2. LeaseInv'
  <2> SUFFICES ASSUME NEW j \in Instances \ Stallers PROVE Lease(j)'
    BY DEF LeaseInv
  <2>1. CASE j = i
    BY <2>1 DEF TypeOK, Lease, Running, InRound
  <2>2. CASE j # i
    BY <2>2, OthersKeep DEF TypeOK, KeyMoves
  <2> QED
    BY <2>1, <2>2
<1>3. KnownInv'
  BY DEF TypeOK, KnownInv, Running, InRound
<1> QED
  BY <1>1, <1>2, <1>3

\* Time: every prompt instance is a tick nearer to its next answer, and so is the
\* key to its end.
LEMMA TickInv ==
  ASSUME IInv, Tick
  PROVE  IInv'
<1> USE LeaderConstants DEF IInv, Tick
<1>1. TypeOK'
  BY DEF TypeOK, Less, Heal
<1>2. LeaseInv'
  <2> SUFFICES ASSUME NEW j \in Instances \ Stallers PROVE Lease(j)'
    BY DEF LeaseInv
  <2>1. Lease(j) /\ pc'[j] = pc[j] /\ flag'[j] = flag[j] /\ due[j] \in Nat
    BY DEF LeaseInv, TypeOK
  <2>2. due'[j] = Less(due[j]) /\ (Running(j) => due[j] > 0) /\ Running(j)' = Running(j)
    BY DEF Running
  <2>3. due'[j] \in Nat /\ due'[j] <= due[j]
    BY <2>1, <2>2, LessFacts
  <2>4. CASE flag[j]
    <3>1. due'[j] = due[j] - 1 /\ Running(j)
      BY <2>1, <2>2, <2>4, LessFacts DEF Lease
    <3>2. Remaining(j) \in Nat /\ Remaining(j) > 0 /\ Remaining(j)' = Remaining(j) - 1
      BY <2>1, <2>2, <3>1 DEF Remaining
    <3>3. trouble > Remaining(j) => trouble' > Remaining(j)'
      BY <3>2 DEF TypeOK, Less
    <3>4. lock = j /\ left > Remaining(j) => lock' = j /\ left' > Remaining(j)'
      BY <3>2 DEF TypeOK, Less
    <3>5. lock' = j => lock = j
      OBVIOUS
    <3> QED
      BY <2>1, <2>2, <2>3, <2>4, <3>1, <3>3, <3>4, <3>5 DEF Lease, TypeOK
  <2>5. CASE ~ flag[j]
    BY <2>1, <2>2, <2>3, <2>5 DEF Lease, InRound, TypeOK
  <2> QED
    BY <2>4, <2>5
<1>3. KnownInv'
  BY DEF TypeOK, KnownInv, Running
<1> QED
  BY <1>1, <1>2, <1>3

-----------------------------------------------------------------------------
(* The theorems.                                                           *)

LEMMA StepInv == IInv /\ [Next]_vars => IInv'
<1> SUFFICES ASSUME IInv, [Next]_vars PROVE IInv'
  OBVIOUS
<1>1. ASSUME NEW i \in Instances, Start(i) \/ Step(i) \/ Error(i) \/ Leave(i) PROVE IInv'
  BY <1>1, StartInv, WakeInv, AcquireInv, LookInv, ExtendInv, ErrorInv, LeaveInv DEF Step
<1>2. CASE UNCHANGED vars
  BY <1>2 DEF vars, IInv, TypeOK, LeaseInv, Lease, KnownInv, Remaining, Running
<1> QED
  BY <1>1, <1>2, TickInv DEF Next

\* The inductive invariant of the leader lock holds in every reachable state.
THEOREM Invariant == Spec => []IInv
BY InitInv, StepInv, PTL DEF Spec

\* The variables keep their types.
THEOREM TypeCorrect == Spec => []TypeOK
<1>1. IInv => TypeOK
  BY DEF IInv
<1> QED
  BY <1>1, Invariant, PTL

\* An instance that is not stalled leads only while it holds the key, but for one
\* round after a late renewal, whatever fails, dies and starts.
THEOREM LeadersHold == Spec => []LeadersHoldTheLock
<1>1. IInv => LeadersHoldTheLock
  <2> SUFFICES ASSUME IInv, NEW i \in Instances \ Stallers, flag[i], trouble = 0, lock # i
               PROVE  FALSE
    BY DEF LeadersHoldTheLock
  <2>1. Running(i) /\ trouble > Remaining(i)
    BY DEF IInv, LeaseInv, Lease
  <2> QED
    BY <2>1, RemainingFacts DEF IInv
<1> QED
  BY <1>1, Invariant, PTL

\* Two instances that do not stall never lead together, but for that round.
THEOREM OneLeader ==
  Spec => [](trouble = 0 =>
                \A i, j \in Instances \ Stallers : flag[i] /\ flag[j] => i = j)
<1>1. LeadersHoldTheLock =>
        (trouble = 0 => \A i, j \in Instances \ Stallers : flag[i] /\ flag[j] => i = j)
  BY DEF LeadersHoldTheLock
<1> QED
  BY <1>1, LeadersHold, PTL

\* A renewal finds its key lost only after a stall or a failed command.
THEOREM OnlyFaults == Spec => OnlyFaultsBringTrouble
<1>1. IInv /\ [Next]_vars =>
        (trouble = 0 /\ trouble' # 0 => errors > 0 \/ \E i \in Stallers : pc[i] = "renew")
  <2> SUFFICES ASSUME IInv, [Next]_vars, trouble = 0, trouble' # 0, errors = 0
               PROVE  \E i \in Stallers : pc[i] = "renew"
    BY DEF IInv, TypeOK
  <2> USE LeaderConstants
  <2>1. PICK i \in Instances : pc[i] = "renew" /\ SetIfHeld(i)
    BY DEF Next, vars, Tick, Less, Start, Step, Wake, Acquire, Look, Extend, Error,
           Executed, Leave
  <2>2. lock # i /\ flag[i] /\ Running(i)
    BY <2>1 DEF SetIfHeld, IInv, KnownInv, Running, InRound
  <2>3. CASE i \notin Stallers
    <3>1. trouble > Remaining(i)
      BY <2>2, <2>3 DEF IInv, LeaseInv, Lease
    <3> QED
      BY <2>2, <2>3, <3>1, RemainingFacts DEF IInv
  <2> QED
    BY <2>1, <2>3
<1> QED
  BY <1>1, Invariant, PTL DEF Spec, OnlyFaultsBringTrouble
=============================================================================
