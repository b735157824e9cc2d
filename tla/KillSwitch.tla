------------------------------- MODULE KillSwitch -------------------------------
(***************************************************************************)
(* The kill switch of the Smart App Service (automation_control.py): halt   *)
(* records in one collection, and a check, before every run, approval,      *)
(* autonomous commit and trigger intake, that reads them through a cache of *)
(* each process.                                                            *)
(*                                                                         *)
(* The cache is stamped with the time its read began.  A read is three      *)
(* steps: it begins, the store answers, and the answer is put into the      *)
(* cache and acted on; between them the process serves other requests.      *)
(* Time passes in ticks.  Only the age of a value is kept, no clock.        *)
(***************************************************************************)
EXTENDS Naturals

CONSTANTS
    Processes,
    Scopes,         \* halt records, by scope type and id
    Apps, Covers,   \* the scopes that stop each app: global, its org, its
                    \* departments and its own
    Operations,     \* slots for checked operations in progress
    Home, AppOf,    \* the process and the app of each
    CacheTTL,       \* _CACHE_TTL_SECONDS
    MaxRead,        \* ticks the store takes to answer at most
    MaxSettings     \* bound on the updates of a process in progress at once

ASSUME KillSwitchConstants ==
    /\ Covers \in [Apps -> SUBSET Scopes]
    /\ Home \in [Operations -> Processes] /\ AppOf \in [Operations -> Apps]
    /\ CacheTTL \in Nat \ {0} /\ MaxRead \in Nat /\ MaxSettings \in Nat

VARIABLES
    halts,         \* the enabled records in the store
    cache,         \* _cache["controls"] of each process
    age,           \* ticks since _cache["at"], CacheTTL: too old to be used
    setting,       \* set_control calls between their update and invalidate_cache
    pc, since, docs,  \* the operations: where, how long their read has taken,
                      \* what the store answered
    unhaltedAgo,   \* history: ticks since each app had no halt, 0 while it has none
    haltedAgo,     \* history: ticks since each app had a halt, 0 while it has one
    own            \* history: the records each process is certain to have seen,
                   \* for it emptied its cache, with no read under way, after
                   \* they were stored

storeVars == <<halts, unhaltedAgo, haltedAgo>>
cacheVars == <<cache, age, own>>
opVars == <<pc, since, docs>>
vars == <<storeVars, cacheVars, setting, opVars>>

\* No decision rests on an older reading of the store than this.
Stale == IF CacheTTL - 1 > MaxRead THEN CacheTTL - 1 ELSE MaxRead
Long == Stale + 1

TypeOK ==
    /\ halts \subseteq Scopes
    /\ cache \in [Processes -> SUBSET Scopes] /\ age \in [Processes -> 0..CacheTTL]
    /\ setting \in [Processes -> 0..MaxSettings]
    /\ pc \in [Operations -> {"idle", "reading", "read", "acting", "refused"}]
    /\ since \in [Operations -> 0..MaxRead]
    /\ docs \in [Operations -> SUBSET Scopes]
    /\ unhaltedAgo \in [Apps -> 0..Long] /\ haltedAgo \in [Apps -> 0..Long]
    /\ own \in [Processes -> SUBSET Scopes]

Init ==
    /\ halts = {}
    /\ cache = [p \in Processes |-> {}] /\ age = [p \in Processes |-> CacheTTL]
    /\ setting = [p \in Processes |-> 0]
    /\ pc = [o \in Operations |-> "idle"]
    /\ since = [o \in Operations |-> 0] /\ docs = [o \in Operations |-> {}]
    /\ unhaltedAgo = [a \in Apps |-> 0] /\ haltedAgo = [a \in Apps |-> Long]
    /\ own = [p \in Processes |-> {}]

Stops(controls, a) == controls \cap Covers[a] # {}
Reading(o) == pc[o] \in {"reading", "read"}

\* Mutant: off by one at the end of the cache's life.
UsableLonger(p) == age[p] <= CacheTTL

Usable(p) == age[p] < CacheTTL

-----------------------------------------------------------------------------
(* Setting and lifting a halt.                                             *)

\* The update of set_control, asked of process p.
Set(p, s, enabled) ==
    /\ setting[p] < MaxSettings
    /\ setting' = [setting EXCEPT ![p] = @ + 1]
    /\ halts' = IF enabled THEN halts \cup {s} ELSE halts \ {s}
    /\ unhaltedAgo' = [a \in Apps |-> IF Stops(halts', a) THEN unhaltedAgo[a] ELSE 0]
    /\ haltedAgo' = [a \in Apps |-> IF Stops(halts', a) THEN 0 ELSE haltedAgo[a]]
    /\ own' = [q \in Processes |-> own[q] \cap halts']
    /\ UNCHANGED <<cache, age, opVars>>

\* Mutant: an update leaves the cache alone.
InvalidateNot(p) ==
    /\ setting[p] > 0
    /\ setting' = [setting EXCEPT ![p] = @ - 1]
    /\ own' = IF \E o \in Operations : Home[o] = p /\ Reading(o) THEN own
              ELSE [own EXCEPT ![p] = halts]
    /\ UNCHANGED <<age, cache, storeVars, opVars>>

\* invalidate_cache, in this process and no other.
Invalidate(p) ==
    /\ setting[p] > 0
    /\ setting' = [setting EXCEPT ![p] = @ - 1]
    /\ age' = [age EXCEPT ![p] = CacheTTL]
    /\ own' = IF \E o \in Operations : Home[o] = p /\ Reading(o) THEN own
              ELSE [own EXCEPT ![p] = halts]
    /\ UNCHANGED <<cache, storeVars, opVars>>

\* The update raises although it took effect.
SetFails(p) ==
    /\ setting[p] > 0
    /\ setting' = [setting EXCEPT ![p] = @ - 1]
    /\ UNCHANGED <<storeVars, cacheVars, opVars>>

-----------------------------------------------------------------------------
(* _enforce_automation_allowed, before an operation of an app.             *)

\* get_halt: any record of a covering scope stops the app.  Which of several it
\* returns only words the refusal.
Verdict(o, controls) == IF Stops(controls, AppOf[o]) THEN "refused" ELSE "acting"

Ask(o) ==
    /\ pc[o] = "idle"
    /\ pc' = [pc EXCEPT ![o] = IF Usable(Home[o]) THEN Verdict(o, cache[Home[o]])
                               ELSE "reading"]
    /\ UNCHANGED <<since, docs, storeVars, cacheVars, setting>>

\* find({"enabled": True}) is answered.
Find(o) ==
    /\ pc[o] = "reading"
    /\ pc' = [pc EXCEPT ![o] = "read"]
    /\ docs' = [docs EXCEPT ![o] = halts]
    /\ UNCHANGED <<since, storeVars, cacheVars, setting>>

\* Mutant: while the store cannot be read, the old cache decides.
FailStale(o) ==
    /\ pc[o] = "reading"
    /\ pc' = [pc EXCEPT ![o] = Verdict(o, cache[Home[o]])]
    /\ since' = [since EXCEPT ![o] = 0]
    /\ UNCHANGED <<docs, storeVars, cacheVars, setting>>

\* The store cannot be read: the operation is allowed, the cache left alone.
FailOpen(o) ==
    /\ pc[o] = "reading"
    /\ pc' = [pc EXCEPT ![o] = "acting"]
    /\ since' = [since EXCEPT ![o] = 0]
    /\ UNCHANGED <<docs, storeVars, cacheVars, setting>>

Young(n) == IF n < CacheTTL THEN n ELSE CacheTTL

\* Mutant: the cache is stamped with the time of the answer.
FillLate(o) ==
    /\ pc[o] = "read"
    /\ cache' = [cache EXCEPT ![Home[o]] = docs[o]]
    /\ age' = [age EXCEPT ![Home[o]] = 0]
    /\ pc' = [pc EXCEPT ![o] = Verdict(o, docs[o])]
    /\ since' = [since EXCEPT ![o] = 0]
    /\ docs' = [docs EXCEPT ![o] = {}]
    /\ UNCHANGED <<own, storeVars, setting>>

\* The answer goes into the cache, as old as the read, and is acted on.
Fill(o) ==
    /\ pc[o] = "read"
    /\ cache' = [cache EXCEPT ![Home[o]] = docs[o]]
    /\ age' = [age EXCEPT ![Home[o]] = Young(since[o])]
    /\ pc' = [pc EXCEPT ![o] = Verdict(o, docs[o])]
    /\ since' = [since EXCEPT ![o] = 0]
    /\ docs' = [docs EXCEPT ![o] = {}]
    /\ UNCHANGED <<own, storeVars, setting>>

\* The operation is over, or was refused.
Finish(o) ==
    /\ pc[o] \in {"acting", "refused"}
    /\ pc' = [pc EXCEPT ![o] = "idle"]
    /\ UNCHANGED <<since, docs, storeVars, cacheVars, setting>>

-----------------------------------------------------------------------------
(* A process restarts with an empty cache; time passes.                    *)

Restart(p) ==
    LET idle(f, e) == [o \in Operations |-> IF Home[o] = p THEN e ELSE f[o]]
    IN  /\ pc' = idle(pc, "idle") /\ since' = idle(since, 0) /\ docs' = idle(docs, {})
        /\ age' = [age EXCEPT ![p] = CacheTTL]
        /\ setting' = [setting EXCEPT ![p] = 0]
        /\ UNCHANGED <<cache, own, storeVars>>

Later(n, cap) == IF n < cap THEN n + 1 ELSE cap

Tick ==
    /\ \A o \in Operations : Reading(o) => since[o] < MaxRead
    /\ since' = [o \in Operations |-> IF Reading(o) THEN since[o] + 1 ELSE since[o]]
    /\ age' = [p \in Processes |-> Later(age[p], CacheTTL)]
    /\ unhaltedAgo' = [a \in Apps |-> IF Stops(halts, a) THEN Later(unhaltedAgo[a], Long)
                                      ELSE 0]
    /\ haltedAgo' = [a \in Apps |-> IF Stops(halts, a) THEN 0
                                    ELSE Later(haltedAgo[a], Long)]
    /\ UNCHANGED <<halts, cache, own, setting, pc, docs>>

Operate(o) == Ask(o) \/ Find(o) \/ FailOpen(o) \/ Fill(o) \/ Finish(o)

Next ==
    \/ Tick
    \/ \E o \in Operations : Operate(o)
    \/ \E p \in Processes :
          \/ \E s \in Scopes, enabled \in BOOLEAN : Set(p, s, enabled)
          \/ Invalidate(p) \/ SetFails(p) \/ Restart(p)

Spec == Init /\ [][Next]_vars

-----------------------------------------------------------------------------
(* Properties.                                                             *)

\* What the check lets pass on what it read, now or into the cache.
Allows(o) == pc[o] # "reading" /\ pc[o] # "acting" /\ pc'[o] = "acting"
Refuses(o) == pc[o] # "refused" /\ pc'[o] = "refused"

\* A stored halt stops every operation that asks more than Stale ticks later, in
\* any process and whatever was being read when it was stored: "near-real-time".
\* Only an unreadable store lets one pass.
HaltTakesHold == [][\A o \in Operations : Allows(o) => unhaltedAgo[AppOf[o]] <= Stale]_vars

\* A lifted halt is forgotten as fast.
LiftTakesHold == [][\A o \in Operations : Refuses(o) => haltedAgo[AppOf[o]] <= Stale]_vars

\* The process that set a halt applies it at once, unless it was reading the store
\* when it emptied its cache: "a write invalidates the cache".
OwnHaltHolds ==
    [][\A o \in Operations : Allows(o) => ~ Stops(own[Home[o]], AppOf[o])]_vars

\* A reading n ticks old is what the store has held at some time since.
HeldSince(controls, n) ==
    \A a \in Apps :
       /\ Stops(controls, a) => haltedAgo[a] <= n
       /\ ~ Stops(controls, a) => unhaltedAgo[a] <= n

CacheInv == \A p \in Processes :
    Usable(p) => HeldSince(cache[p], age[p]) /\ own[p] \subseteq cache[p]
ReadInv == \A o \in Operations :
    pc[o] = "read" => HeldSince(docs[o], since[o]) /\ own[Home[o]] \subseteq docs[o]
StoreInv ==
    /\ \A p \in Processes : own[p] \subseteq halts
    /\ \A a \in Apps : IF Stops(halts, a) THEN haltedAgo[a] = 0 ELSE unhaltedAgo[a] = 0

IInv == TypeOK /\ CacheInv /\ ReadInv /\ StoreInv
=============================================================================
