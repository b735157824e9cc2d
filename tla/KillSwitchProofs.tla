---------------------------- MODULE KillSwitchProofs ----------------------------
(***************************************************************************)
(* Proofs about the kill switch, for any processes, scopes, apps, operations *)
(* and delays.                                                              *)
(***************************************************************************)
EXTENDS KillSwitch, TLAPS

-----------------------------------------------------------------------------
(* Facts about readings of the store and their ages.                       *)

LEMMA LaterFacts ==
  ASSUME NEW n \in Nat, NEW cap \in Nat, n <= cap
  PROVE  Later(n, cap) \in 0..cap /\ n <= Later(n, cap) /\ Later(n, cap) <= n + 1
         /\ (Later(n, cap) < cap => Later(n, cap) = n + 1)
BY DEF Later

\* What the store holds now is a reading of any age.
LEMMA HeldNow ==
  ASSUME TypeOK, StoreInv, NEW n \in Nat
  PROVE  HeldSince(halts, n)
BY DEF HeldSince, StoreInv, TypeOK

\* A tick makes it one tick older.
LEMMA HeldThroughTick ==
  ASSUME TypeOK, NEW controls, NEW n \in Nat, HeldSince(controls, n), Tick,
         NEW a \in Apps
  PROVE  /\ controls \cap Covers[a] # {} => haltedAgo'[a] <= n + 1
         /\ controls \cap Covers[a] = {} => unhaltedAgo'[a] <= n + 1
<1>1. Long \in Nat
  BY KillSwitchConstants DEF Long, Stale
<1>2. /\ haltedAgo[a] \in Nat /\ haltedAgo[a] <= Long
      /\ unhaltedAgo[a] \in Nat /\ unhaltedAgo[a] <= Long
  BY <1>1 DEF TypeOK
<1>3. haltedAgo'[a] \in {0, Later(haltedAgo[a], Long)}
  BY DEF Tick
<1>4. unhaltedAgo'[a] \in {0, Later(unhaltedAgo[a], Long)}
  BY DEF Tick
<1>5. Later(haltedAgo[a], Long) <= haltedAgo[a] + 1 /\ Later(haltedAgo[a], Long) \in Nat
  BY <1>1, <1>2 DEF Later
<1>6. Later(unhaltedAgo[a], Long) <= unhaltedAgo[a] + 1 /\ Later(unhaltedAgo[a], Long) \in Nat
  BY <1>1, <1>2 DEF Later
<1> QED
  BY <1>2, <1>3, <1>4, <1>5, <1>6 DEF HeldSince, Stops

-----------------------------------------------------------------------------
(* One lemma per action.                                                   *)

LEMMA InitInv == Init => IInv
BY KillSwitchConstants
   DEF Init, IInv, TypeOK, CacheInv, ReadInv, StoreInv, Usable, Stops, Long, Stale

LEMMA SetInv ==
  ASSUME IInv, NEW p \in Processes, NEW s \in Scopes, NEW e \in BOOLEAN, Set(p, s, e)
  PROVE  IInv'
<1> USE DEF IInv
<1>1. TypeOK'
  BY KillSwitchConstants DEF TypeOK, Set, Long, Stale, opVars
<1>2. \A q \in Processes : own'[q] \subseteq own[q] /\ own'[q] \subseteq halts'
  BY DEF Set, TypeOK
<1>3. CacheInv'
  <2> SUFFICES ASSUME NEW q \in Processes, Usable(q)'
               PROVE  HeldSince(cache[q], age[q])' /\ own'[q] \subseteq cache'[q]
    BY DEF CacheInv
  <2>1. Usable(q) /\ cache'[q] = cache[q] /\ age'[q] = age[q] /\ age[q] \in Nat
    BY DEF Usable, Set, TypeOK
  <2>2. HeldSince(cache[q], age[q]) /\ own[q] \subseteq cache[q]
    BY <2>1 DEF CacheInv
  <2>3. HeldSince(cache[q], age[q])'
    BY <2>1, <2>2 DEF HeldSince, Set, Stops, TypeOK
  <2> QED
    BY <1>2, <2>1, <2>2, <2>3
<1>4. ReadInv'
  <2> SUFFICES ASSUME NEW o \in Operations, pc'[o] = "read"
               PROVE  HeldSince(docs[o], since[o])' /\ own'[Home[o]] \subseteq docs'[o]
    BY DEF ReadInv
  <2>1. /\ pc[o] = "read" /\ docs'[o] = docs[o] /\ since'[o] = since[o]
        /\ since[o] \in Nat /\ Home[o] \in Processes
    BY KillSwitchConstants DEF Set, TypeOK, opVars
  <2>2. HeldSince(docs[o], since[o]) /\ own[Home[o]] \subseteq docs[o]
    BY <2>1 DEF ReadInv
  <2>3. HeldSince(docs[o], since[o])'
    BY <2>1, <2>2 DEF HeldSince, Set, Stops, TypeOK
  <2> QED
    BY <1>2, <2>1, <2>2, <2>3
<1>5. StoreInv'
  BY <1>2 DEF StoreInv, Set, Stops
<1> QED
  BY <1>1, <1>3, <1>4, <1>5

LEMMA InvalidateInv ==
  ASSUME IInv, NEW p \in Processes, Invalidate(p)
  PROVE  IInv'
<1> USE DEF IInv
<1>1. TypeOK'
  BY KillSwitchConstants DEF TypeOK, Invalidate, storeVars, opVars
<1>2. \A q \in Processes : q # p => own'[q] = own[q] /\ cache'[q] = cache[q] /\ age'[q] = age[q]
  BY DEF Invalidate, TypeOK
<1>3. age'[p] = CacheTTL
  BY DEF Invalidate, TypeOK
<1>4. CacheInv'
  <2> SUFFICES ASSUME NEW q \in Processes, Usable(q)'
               PROVE  HeldSince(cache[q], age[q])' /\ own'[q] \subseteq cache'[q]
    BY DEF CacheInv
  <2>1. q # p
    BY <1>3, KillSwitchConstants DEF Usable
  <2> QED
    BY <1>2, <2>1 DEF CacheInv, Usable, HeldSince, Stops, Invalidate, storeVars
<1>5. ReadInv'
  <2> SUFFICES ASSUME NEW o \in Operations, pc'[o] = "read"
               PROVE  HeldSince(docs[o], since[o])' /\ own'[Home[o]] \subseteq docs'[o]
    BY DEF ReadInv
  <2>1. pc[o] = "read" /\ UNCHANGED <<docs, since, storeVars>>
    BY DEF Invalidate, opVars
  <2>2. own'[Home[o]] = own[Home[o]]
    BY <1>2, <2>1, KillSwitchConstants DEF Invalidate, Reading
  <2> QED
    BY <2>1, <2>2 DEF ReadInv, HeldSince, Stops, storeVars
<1>6. StoreInv'
  BY <1>2 DEF StoreInv, Invalidate, storeVars, Stops, TypeOK
<1> QED
  BY <1>1, <1>4, <1>5, <1>6

LEMMA SetFailsInv ==
  ASSUME IInv, NEW p \in Processes, SetFails(p)
  PROVE  IInv'
<1> USE DEF IInv, SetFails, storeVars, cacheVars, opVars
<1>1. TypeOK'
  BY KillSwitchConstants DEF TypeOK
<1>2. CacheInv' /\ ReadInv' /\ StoreInv'
  BY DEF CacheInv, ReadInv, StoreInv, Usable, HeldSince, Stops
<1> QED
  BY <1>1, <1>2

\* Steps of an operation that neither end a read nor fill the cache.
LEMMA QuietInv ==
  ASSUME IInv, NEW o \in Operations, Ask(o) \/ FailOpen(o) \/ Finish(o)
  PROVE  IInv'
<1> USE DEF IInv, Ask, FailOpen, Finish, storeVars, cacheVars
<1>1. TypeOK'
  BY KillSwitchConstants DEF TypeOK, Verdict
<1>2. \A q \in Operations : pc'[q] = "read" =>
        pc[q] = "read" /\ docs'[q] = docs[q] /\ since'[q] = since[q]
  BY DEF TypeOK, Verdict
<1>3. CacheInv' /\ StoreInv'
  BY DEF CacheInv, StoreInv, Usable, HeldSince, Stops
<1>4. ReadInv'
  BY <1>2 DEF ReadInv, HeldSince, Stops
<1> QED
  BY <1>1, <1>3, <1>4

LEMMA FindInv ==
  ASSUME IInv, NEW o \in Operations, Find(o)
  PROVE  IInv'
<1> USE DEF IInv, Find, storeVars, cacheVars
<1>1. TypeOK'
  BY DEF TypeOK
<1>2. CacheInv' /\ StoreInv'
  BY DEF CacheInv, StoreInv, Usable, HeldSince, Stops
<1>3. ReadInv'
  <2> SUFFICES ASSUME NEW q \in Operations, pc'[q] = "read"
               PROVE  HeldSince(docs[q], since[q])' /\ own'[Home[q]] \subseteq docs'[q]
    BY DEF ReadInv
  <2>1. CASE q = o
    <3>1. docs'[q] = halts /\ since'[q] = since[q] /\ since[q] \in Nat
      BY <2>1 DEF TypeOK
    <3>2. HeldSince(halts, since[q])
      BY <3>1, HeldNow
    <3>3. Home[q] \in Processes
      BY KillSwitchConstants
    <3> QED
      BY <3>1, <3>2, <3>3 DEF HeldSince, Stops, StoreInv
  <2>2. CASE q # o
    BY <2>2 DEF ReadInv, HeldSince, Stops, TypeOK
  <2> QED
    BY <2>1, <2>2
<1> QED
  BY <1>1, <1>2, <1>3

LEMMA FillInv ==
  ASSUME IInv, NEW o \in Operations, Fill(o)
  PROVE  IInv'
<1> USE DEF IInv, Fill, storeVars
<1>0. Home[o] \in Processes /\ since[o] \in Nat
  <2>1. Home[o] \in Processes
    BY KillSwitchConstants
  <2>2. since[o] \in 0..MaxRead
    BY DEF TypeOK
  <2> QED
    BY <2>1, <2>2
<1>1. Young(since[o]) \in 0..CacheTTL /\ (Young(since[o]) < CacheTTL => Young(since[o]) = since[o])
  BY <1>0, KillSwitchConstants DEF Young
<1>2. TypeOK'
  BY <1>0, <1>1, KillSwitchConstants DEF TypeOK, Verdict
<1>3. CacheInv'
  <2> SUFFICES ASSUME NEW p \in Processes, Usable(p)'
               PROVE  HeldSince(cache[p], age[p])' /\ own'[p] \subseteq cache'[p]
    BY DEF CacheInv
  <2>1. CASE p = Home[o]
    <3>1. cache'[p] = docs[o] /\ age'[p] = since[o]
      BY <1>0, <1>1, <2>1 DEF TypeOK, Usable
    <3>2. HeldSince(docs[o], since[o]) /\ own[p] \subseteq docs[o]
      BY <2>1 DEF ReadInv
    <3> QED
      BY <3>1, <3>2 DEF HeldSince, Stops
  <2>2. CASE p # Home[o]
    <3>1. cache'[p] = cache[p] /\ age'[p] = age[p] /\ Usable(p)
      BY <2>2 DEF TypeOK, Usable
    <3> QED
      BY <3>1 DEF CacheInv, HeldSince, Stops
  <2> QED
    BY <2>1, <2>2
<1>4. ReadInv'
  <2>1. \A q \in Operations : pc'[q] = "read" =>
          pc[q] = "read" /\ docs'[q] = docs[q] /\ since'[q] = since[q]
    BY DEF TypeOK, Verdict
  <2> QED
    BY <2>1 DEF ReadInv, HeldSince, Stops
<1>5. StoreInv'
  BY DEF StoreInv, Stops
<1> QED
  BY <1>2, <1>3, <1>4, <1>5

LEMMA RestartInv ==
  ASSUME IInv, NEW p \in Processes, Restart(p)
  PROVE  IInv'
<1> USE DEF IInv, Restart, storeVars
<1>1. TypeOK'
  BY KillSwitchConstants DEF TypeOK
<1>2. CacheInv'
  BY KillSwitchConstants DEF CacheInv, Usable, HeldSince, Stops, TypeOK
<1>3. ReadInv'
  <2>1. \A q \in Operations : pc'[q] = "read" =>
          pc[q] = "read" /\ docs'[q] = docs[q] /\ since'[q] = since[q]
    OBVIOUS
  <2> QED
    BY <2>1 DEF ReadInv, HeldSince, Stops
<1>4. StoreInv'
  BY DEF StoreInv, Stops
<1> QED
  BY <1>1, <1>2, <1>3, <1>4

LEMMA TickInv ==
  ASSUME IInv, Tick
  PROVE  IInv'
<1> USE DEF IInv
<1>0. Long \in Nat
  BY KillSwitchConstants DEF Long, Stale
<1>1. TypeOK'
  <2>1. \A a \in Apps : /\ Later(unhaltedAgo[a], Long) \in 0..Long
                       /\ Later(haltedAgo[a], Long) \in 0..Long
    BY <1>0, LaterFacts DEF TypeOK
  <2>2. \A p \in Processes : Later(age[p], CacheTTL) \in 0..CacheTTL
    BY KillSwitchConstants, LaterFacts DEF TypeOK
  <2>3. since' \in [Operations -> 0..MaxRead]
    BY KillSwitchConstants DEF TypeOK, Tick
  <2>4. unhaltedAgo' \in [Apps -> 0..Long] /\ haltedAgo' \in [Apps -> 0..Long]
    BY <1>0, <2>1 DEF Tick
  <2>5. age' \in [Processes -> 0..CacheTTL]
    BY <2>2 DEF Tick
  <2> QED
    BY <2>3, <2>4, <2>5 DEF TypeOK, Tick
<1>2. CacheInv'
  <2> SUFFICES ASSUME NEW p \in Processes, Usable(p)'
               PROVE  HeldSince(cache[p], age[p])' /\ own'[p] \subseteq cache'[p]
    BY DEF CacheInv
  <2>1. age[p] \in Nat /\ age[p] <= CacheTTL /\ age'[p] = Later(age[p], CacheTTL)
    BY DEF TypeOK, Tick
  <2>2. age'[p] = age[p] + 1 /\ Usable(p)
    BY <2>1, KillSwitchConstants, LaterFacts DEF Usable
  <2>3. HeldSince(cache[p], age[p]) /\ own[p] \subseteq cache[p]
    BY <2>2 DEF CacheInv
  <2>4. UNCHANGED <<halts, cache, own>>
    BY DEF Tick
  <2>5. HeldSince(cache[p], age[p])'
    <3> SUFFICES ASSUME NEW a \in Apps
                 PROVE  /\ cache'[p] \cap Covers[a] # {} => haltedAgo'[a] <= age'[p]
                        /\ cache'[p] \cap Covers[a] = {} => unhaltedAgo'[a] <= age'[p]
      BY DEF HeldSince, Stops
    <3>1. /\ cache[p] \cap Covers[a] # {} => haltedAgo'[a] <= age[p] + 1
          /\ cache[p] \cap Covers[a] = {} => unhaltedAgo'[a] <= age[p] + 1
      BY <2>1, <2>3, HeldThroughTick
    <3> QED
      BY <2>2, <2>4, <3>1
  <2> QED
    BY <2>3, <2>4, <2>5
<1>3. ReadInv'
  <2> SUFFICES ASSUME NEW o \in Operations, pc'[o] = "read"
               PROVE  HeldSince(docs[o], since[o])' /\ own'[Home[o]] \subseteq docs'[o]
    BY DEF ReadInv
  <2>1. since[o] \in Nat /\ since'[o] = since[o] + 1 /\ pc[o] = "read"
    BY DEF TypeOK, Tick, Reading
  <2>2. HeldSince(docs[o], since[o]) /\ own[Home[o]] \subseteq docs[o]
    BY <2>1 DEF ReadInv
  <2>3. UNCHANGED <<halts, docs, own>>
    BY DEF Tick
  <2>4. HeldSince(docs[o], since[o])'
    <3> SUFFICES ASSUME NEW a \in Apps
                 PROVE  /\ docs'[o] \cap Covers[a] # {} => haltedAgo'[a] <= since'[o]
                        /\ docs'[o] \cap Covers[a] = {} => unhaltedAgo'[a] <= since'[o]
      BY DEF HeldSince, Stops
    <3>1. /\ docs[o] \cap Covers[a] # {} => haltedAgo'[a] <= since[o] + 1
          /\ docs[o] \cap Covers[a] = {} => unhaltedAgo'[a] <= since[o] + 1
      BY <2>1, <2>2, HeldThroughTick
    <3> QED
      BY <2>1, <2>3, <3>1
  <2> QED
    BY <2>2, <2>3, <2>4
<1>4. StoreInv'
  BY DEF StoreInv, Tick, Stops
<1> QED
  BY <1>1, <1>2, <1>3, <1>4

-----------------------------------------------------------------------------
(* The theorems.                                                           *)

LEMMA StepInv == IInv /\ [Next]_vars => IInv'
<1> SUFFICES ASSUME IInv, [Next]_vars PROVE IInv'
  OBVIOUS
<1>1. ASSUME NEW o \in Operations, Operate(o) PROVE IInv'
  BY <1>1, QuietInv, FindInv, FillInv DEF Operate
<1>2. ASSUME NEW p \in Processes,
             \/ \E s \in Scopes, e \in BOOLEAN : Set(p, s, e)
             \/ Invalidate(p) \/ SetFails(p) \/ Restart(p)
      PROVE  IInv'
  BY <1>2, SetInv, InvalidateInv, SetFailsInv, RestartInv
<1>3. CASE UNCHANGED vars
  BY <1>3 DEF vars, storeVars, cacheVars, opVars, IInv, TypeOK, CacheInv, ReadInv, StoreInv,
              HeldSince, Stops, Usable
<1> QED
  BY <1>1, <1>2, <1>3, TickInv DEF Next

\* The inductive invariant of the kill switch holds in every reachable state.
THEOREM Invariant == Spec => []IInv
BY InitInv, StepInv, PTL DEF Spec

\* What an operation that passes the check, or is refused by it, went by: a reading
\* not older than Stale, and never older than what its process is certain to know.
LEMMA Decisions ==
  ASSUME IInv, [Next]_vars, NEW o \in Operations
  PROVE  /\ Allows(o) => unhaltedAgo[AppOf[o]] <= Stale /\ ~ Stops(own[Home[o]], AppOf[o])
         /\ Refuses(o) => haltedAgo[AppOf[o]] <= Stale
<1> SUFFICES ASSUME Allows(o) \/ Refuses(o)
             PROVE  \E controls \in SUBSET Scopes, n \in 0..Stale :
                       /\ HeldSince(controls, n) /\ own[Home[o]] \subseteq controls
                       /\ pc'[o] = Verdict(o, controls)
  <2>1. AppOf[o] \in Apps /\ Stale \in Nat
    BY KillSwitchConstants DEF Stale
  <2>2. /\ unhaltedAgo[AppOf[o]] \in Nat /\ haltedAgo[AppOf[o]] \in Nat
    BY <2>1 DEF IInv, TypeOK, Long
  <2> QED
    BY <2>1, <2>2 DEF HeldSince, Verdict, Stops, Allows, Refuses
<1>1. Home[o] \in Processes
  BY KillSwitchConstants
<1>2. \/ Ask(o) /\ Usable(Home[o]) /\ pc'[o] = Verdict(o, cache[Home[o]])
      \/ Fill(o)
  <2>1. Ask(o) \/ Fill(o)
    BY DEF Next, vars, opVars, Tick, Operate, Ask, Find, FailOpen, Fill, Finish, Set,
           Invalidate, SetFails, Restart, Allows, Refuses, IInv, TypeOK
  <2> QED
    BY <2>1 DEF Ask, Allows, Refuses, IInv, TypeOK
<1>3. CASE Ask(o) /\ Usable(Home[o]) /\ pc'[o] = Verdict(o, cache[Home[o]])
  <2>1. age[Home[o]] \in 0..Stale /\ cache[Home[o]] \in SUBSET Scopes
    BY <1>1, <1>3, KillSwitchConstants DEF IInv, TypeOK, Usable, Stale
  <2> QED
    BY <1>1, <1>3, <2>1 DEF IInv, CacheInv
<1>4. CASE Fill(o)
  <2>1. since[o] \in 0..Stale /\ docs[o] \in SUBSET Scopes
    BY KillSwitchConstants DEF IInv, TypeOK, Stale
  <2>2. pc[o] = "read" /\ pc'[o] = Verdict(o, docs[o])
    BY <1>4 DEF Fill, IInv, TypeOK
  <2> QED
    BY <2>1, <2>2 DEF IInv, ReadInv
<1> QED
  BY <1>2, <1>3, <1>4

\* A halt stops, in every process, whatever asks more than Stale ticks later.
THEOREM HaltsTakeHold == Spec => HaltTakesHold
<1>1. IInv /\ [Next]_vars =>
        (\A o \in Operations : Allows(o) => unhaltedAgo[AppOf[o]] <= Stale)
  BY Decisions
<1> QED
  BY <1>1, Invariant, PTL DEF Spec, HaltTakesHold

\* Once lifted it refuses nothing more than Stale ticks later.
THEOREM LiftsTakeHold == Spec => LiftTakesHold
<1>1. IInv /\ [Next]_vars =>
        (\A o \in Operations : Refuses(o) => haltedAgo[AppOf[o]] <= Stale)
  BY Decisions
<1> QED
  BY <1>1, Invariant, PTL DEF Spec, LiftTakesHold

\* The process that set it applies it at once, but for a read under way.
THEOREM OwnHaltsHold == Spec => OwnHaltHolds
<1>1. IInv /\ [Next]_vars =>
        (\A o \in Operations : Allows(o) => ~ Stops(own[Home[o]], AppOf[o]))
  BY Decisions
<1> QED
  BY <1>1, Invariant, PTL DEF Spec, OwnHaltHolds
=============================================================================
