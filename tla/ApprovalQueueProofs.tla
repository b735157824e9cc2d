-------------------------- MODULE ApprovalQueueProofs --------------------------
(***************************************************************************)
(* Proofs about the officer queue, for any runs, cases, requests and number *)
(* of planned writes.                                                       *)
(***************************************************************************)
EXTENDS ApprovalQueue, TLAPS

LEMMA InitInv == Init => IInv
<1> SUFFICES ASSUME Init PROVE IInv
  OBVIOUS
<1> USE ApprovalConstants
<1>1. TypeOK
  BY DEF Init, TypeOK, Status, Decision, PC, Write
<1>2. UnstagedInv /\ PositionInv /\ ReplayInv /\ BackedInv /\ CreatedOnce
  BY DEF Init, UnstagedInv, PositionInv, ReplayInv, BackedInv, CreatedOnce, Idle, Replaying,
         Open, Write
<1> QED
  BY <1>1, <1>2 DEF IInv

-----------------------------------------------------------------------------
(* Steps of the runs leave the requests and the ledger alone.              *)

LEMMA RunStepInv == ASSUME IInv, NEW r \in Runs, RunStep(r) PROVE IInv'
<1> USE ApprovalConstants DEF IInv
<1>0. UNCHANGED <<reqVars, ledgerVars>>
  BY DEF RunStep, StageLook, StageInsert, PersistItems, RunDies, FallDue
<1>1. /\ status' \in [Runs -> Status]
      /\ staging' \in [Runs -> {"idle", "insert", "items", "over"}]
      /\ item' \in [Runs -> {"none", "proposed", "reviewed"}]
      /\ latest' \in [Cases -> Runs \cup {NoRun}]
  <2>1. CASE StageLook(r)
    <3>1. staging' \in [Runs -> {"idle", "insert", "items", "over"}]
      BY <2>1 DEF StageLook, TypeOK
    <3>2. status' \in [Runs -> Status]
      <4>1. CASE UNCHANGED status
        BY <4>1 DEF TypeOK
      <4>2. CASE \E s \in Runs :
                   status' = [status EXCEPT ![s] = "gone", ![r] = "pending_review"]
        BY <4>2 DEF TypeOK, Status
      <4> QED
        BY <2>1, <4>1, <4>2 DEF StageLook
    <3> QED
      BY <2>1, <3>1, <3>2 DEF StageLook, TypeOK
  <2>2. CASE StageInsert(r)
    BY <2>2 DEF StageInsert, TypeOK, Status
  <2>3. CASE PersistItems(r)
    <3>1. UNCHANGED status /\ staging' \in [Runs -> {"idle", "insert", "items", "over"}]
      BY <2>3 DEF PersistItems, TypeOK
    <3>2. CASE UNCHANGED <<item, latest>>
      BY <3>1, <3>2 DEF TypeOK
    <3>3. CASE /\ item' = [item EXCEPT ![r] = "proposed"]
               /\ latest' = [latest EXCEPT ![CaseOf[r]] = r]
      <4>1. item' \in [Runs -> {"none", "proposed", "reviewed"}]
        BY <3>3 DEF TypeOK
      <4>2. latest' \in [Cases -> Runs \cup {NoRun}]
        BY <3>3 DEF TypeOK
      <4> QED
        BY <3>1, <4>1, <4>2 DEF TypeOK
    <3> QED
      BY <2>3, <3>2, <3>3 DEF PersistItems
  <2>4. CASE RunDies(r)
    BY <2>4 DEF RunDies, TypeOK
  <2>5. CASE FallDue(r)
    BY <2>5 DEF FallDue, TypeOK, Status
  <2> QED
    BY <2>1, <2>2, <2>3, <2>4, <2>5 DEF RunStep
<1>2. TypeOK'
  BY <1>0, <1>1 DEF TypeOK, reqVars, ledgerVars
<1>3. \A s \in Runs : staging'[s] \in {"idle", "insert"} =>
          staging[s] \in {"idle", "insert"} /\ status'[s] = status[s]
  BY DEF RunStep, StageLook, StageInsert, PersistItems, RunDies, FallDue, TypeOK,
         Sibling, Pending, UnstagedInv
<1>4. UnstagedInv'
  BY <1>3 DEF UnstagedInv
<1>5. \A s \in Runs : \/ status'[s] = status[s]
                      \/ status'[s] \in {"pending_review", "overdue", "gone"}
  BY DEF RunStep, StageLook, StageInsert, PersistItems, RunDies, FallDue, TypeOK
<1>6. PositionInv'
  BY <1>0, <1>5 DEF PositionInv, reqVars, Open, Replaying, Idle
<1>7. BackedInv'
  BY <1>0, <1>5 DEF BackedInv, Backed, ledgerVars
<1>8. ReplayInv' /\ CreatedOnce'
  BY <1>0 DEF ReplayInv, CreatedOnce, reqVars, ledgerVars
<1> QED
  BY <1>2, <1>4, <1>6, <1>7, <1>8

\* So does the review of an item.
LEMMA ReviewInv == ASSUME IInv, NEW c \in Cases, ReviewItem(c) PROVE IInv'
<1> USE ApprovalConstants DEF IInv, ReviewItem
<1>1. TypeOK'
  BY DEF TypeOK, reqVars, ledgerVars
<1>2. UnstagedInv' /\ PositionInv' /\ ReplayInv' /\ BackedInv' /\ CreatedOnce'
  BY DEF UnstagedInv, PositionInv, ReplayInv, BackedInv, Backed, CreatedOnce,
         reqVars, ledgerVars
<1> QED
  BY <1>1, <1>2

-----------------------------------------------------------------------------
(* Steps of the requests.                                                  *)

LEMMA BeginInv ==
  ASSUME IInv, NEW q \in Requests, NEW r \in Runs, NEW d \in Decision, Begin(q, r, d)
  PROVE  IInv'
<1> USE ApprovalConstants DEF IInv, Begin
<1>1. TypeOK'
  BY DEF TypeOK, PC, runVars, ledgerVars
<1>2. \A p \in Requests \ {q} : pc'[p] = pc[p] /\ target'[p] = target[p]
  BY DEF TypeOK
<1>3. pc'[q] = "read" /\ target'[q] = r
  BY DEF TypeOK
<1>4. UnstagedInv' /\ BackedInv' /\ CreatedOnce'
  BY DEF UnstagedInv, BackedInv, Backed, CreatedOnce, runVars, ledgerVars
<1>5. PositionInv' /\ ReplayInv'
  BY <1>2, <1>3 DEF PositionInv, ReplayInv, runVars, ledgerVars, Idle, Replaying, Open
<1> QED
  BY <1>1, <1>4, <1>5

\* What Goto changes: only request q, which keeps everything but its place or, when
\* it ends, nothing.
LEMMA GotoFacts ==
  ASSUME TypeOK, NEW q \in Requests, NEW p \in PC, Goto(q, p)
  PROVE  /\ pc' \in [Requests -> PC] /\ target' \in [Requests -> Runs \cup {NoRun}]
         /\ decision' \in [Requests -> Decision]
         /\ next' \in [Requests -> 1..(NumWrites + 1)] /\ ok' \in [Requests -> BOOLEAN]
         /\ pc'[q] = p
         /\ \A o \in Requests \ {q} : /\ pc'[o] = pc[o] /\ target'[o] = target[o]
                                      /\ next'[o] = next[o] /\ ok'[o] = ok[o]
         /\ p # Idle => target'[q] = target[q] /\ next'[q] = next[q] /\ ok'[q] = ok[q]
         /\ p = Idle => next'[q] = 1
<1> USE ApprovalConstants DEF Goto, TypeOK
<1>1. pc' \in [Requests -> PC] /\ target' \in [Requests -> Runs \cup {NoRun}]
  OBVIOUS
<1>2. decision' \in [Requests -> Decision]
  BY DEF Decision
<1>3. next' \in [Requests -> 1..(NumWrites + 1)]
  <2>1. 1 \in 1..(NumWrites + 1)
    OBVIOUS
  <2> QED
    BY <2>1
<1>4. ok' \in [Requests -> BOOLEAN]
  OBVIOUS
<1>5. /\ pc'[q] = p
      /\ \A o \in Requests \ {q} : /\ pc'[o] = pc[o] /\ target'[o] = target[o]
                                   /\ next'[o] = next[o] /\ ok'[o] = ok[o]
  OBVIOUS
<1>6. p # Idle => target'[q] = target[q] /\ next'[q] = next[q] /\ ok'[q] = ok[q]
  OBVIOUS
<1>7. p = Idle => next'[q] = 1
  OBVIOUS
<1> QED
  BY <1>1, <1>2, <1>3, <1>4, <1>5, <1>6, <1>7

\* A request that moves on without touching a row or the ledger.
LEMMA MoveInv ==
  ASSUME IInv, NEW q \in Requests, NEW p \in PC, Goto(q, p), UNCHANGED <<runVars, ledgerVars>>,
         pc[q] # Idle,
         p \notin {"audit", "record", "finish"},
         p = "write" => pc[q] = "gate",
         p \in Open /\ pc[q] \notin Open => status[target[q]] \in {"pending_review", "overdue"},
         p # Idle => pc[q] \notin Replaying
  PROVE  IInv'
<1> USE ApprovalConstants DEF IInv
<1>1. TypeOK'
  BY GotoFacts DEF TypeOK, runVars, ledgerVars
<1>2. UnstagedInv' /\ BackedInv' /\ CreatedOnce'
  BY DEF UnstagedInv, BackedInv, Backed, CreatedOnce, runVars, ledgerVars
<1>3. PositionInv'
  BY GotoFacts DEF PositionInv, Idle, Replaying, Open, Write, runVars
<1>4. ReplayInv'
  BY GotoFacts DEF ReplayInv, PositionInv, ledgerVars, Idle, Replaying, Write
<1> QED
  BY <1>1, <1>2, <1>3, <1>4

LEMMA ReadInv == ASSUME IInv, NEW q \in Requests, Read(q) PROVE IInv'
<1> DEFINE p == AfterRead(q)
<1>1. p \in {"idle", "expire", "gate", "resolve"}
  BY DEF AfterRead
<1>2. p # "idle" => status[target[q]] \in {"pending_review", "overdue"}
  BY DEF AfterRead, Pending
<1>3. Goto(q, p) /\ pc[q] = "read" /\ UNCHANGED <<runVars, ledgerVars>>
  BY DEF Read
<1> HIDE DEF p
<1> QED
  BY <1>1, <1>2, <1>3, MoveInv DEF PC, Idle, Open, Replaying

LEMMA GateInv == ASSUME IInv, NEW q \in Requests, Gate(q) PROVE IInv'
<1> DEFINE p == AfterGate(q)
<1>1. p \in {"idle", "stale", "write"}
  BY DEF AfterGate
<1>2. Goto(q, p) /\ pc[q] = "gate" /\ UNCHANGED <<runVars, ledgerVars>>
  BY DEF Gate
<1> HIDE DEF p
<1> QED
  BY <1>1, <1>2, MoveInv DEF PC, Idle, Open, Replaying

LEMMA RefuseInv == ASSUME IInv, NEW q \in Requests, Refuse(q) PROVE IInv'
<1>1. Goto(q, "idle") /\ pc[q] # Idle /\ UNCHANGED <<runVars, ledgerVars>>
  BY DEF Refuse, Idle
<1>2. "idle" \in PC /\ "idle" \notin Open /\ "idle" = Idle
  BY DEF PC, Open, Replaying, Idle
<1> QED
  BY <1>1, <1>2, MoveInv

\* A request that sets the status of its row and ends or goes on to record it.
LEMMA SettleInv ==
  ASSUME IInv, NEW q \in Requests, NEW p \in {"idle", "recordReject"}, Goto(q, p),
         NEW s \in Resolved, SetStatus(target[q], s), pc[q] \in Open,
         s = "applied" => target[q] \in Keyless \/ Backed(target[q]),
         p # "idle" => pc[q] \notin Replaying,
         UNCHANGED <<staging, item, latest, ledgerVars>>
  PROVE  IInv'
<1> USE ApprovalConstants DEF IInv
<1>0. target[q] \in Runs /\ p \in PC
  BY DEF PositionInv, Open, Replaying, Idle, PC
<1>1. status' \in [Runs -> Status] /\ \A o \in Runs \ {target[q]} : status'[o] = status[o]
  BY <1>0 DEF SetStatus, TypeOK, Status
<1>2. status'[target[q]] = s \/ status'[target[q]] = status[target[q]]
  BY <1>0 DEF SetStatus, TypeOK
<1>3. TypeOK'
  BY <1>0, <1>1, GotoFacts DEF TypeOK, ledgerVars
<1>4. UnstagedInv'
  BY <1>0, <1>1 DEF UnstagedInv, SetStatus, TypeOK
<1>5. PositionInv'
  <2>1. \A r \in Runs : status[r] # "none" => status'[r] # "none"
    BY <1>0, <1>1, <1>2 DEF Resolved
  <2> QED BY <1>0, <2>1, GotoFacts DEF PositionInv, Idle, Replaying, Open
<1>6. ReplayInv'
  BY <1>0, GotoFacts DEF ReplayInv, ledgerVars, Replaying
<1>7. BackedInv'
  BY <1>0, <1>1, <1>2 DEF BackedInv, Backed, ledgerVars
<1>8. CreatedOnce'
  BY DEF CreatedOnce, ledgerVars
<1> QED
  BY <1>3, <1>4, <1>5, <1>6, <1>7, <1>8

LEMMA ExpireInv == ASSUME IInv, NEW q \in Requests, Expire(q) PROVE IInv'
BY SettleInv DEF Expire, Resolved, Open

LEMMA MarkStaleInv == ASSUME IInv, NEW q \in Requests, MarkStale(q) PROVE IInv'
BY SettleInv DEF MarkStale, Resolved, Open

LEMMA ResolveInv == ASSUME IInv, NEW q \in Requests, Resolve(q) PROVE IInv'
<1> DEFINE s == IF decision[q] = "cancel" THEN "cancelled" ELSE "rejected"
           p == IF decision[q] = "reject" THEN "recordReject" ELSE "idle"
<1>1. s \in Resolved /\ s # "applied" /\ p \in {"idle", "recordReject"}
  BY DEF Resolved
<1>2. /\ pc[q] = "resolve" /\ SetStatus(target[q], s) /\ Goto(q, p)
      /\ UNCHANGED <<staging, item, latest, ledgerVars>>
  BY DEF Resolve
<1>3. "resolve" \in Open /\ "resolve" \notin Replaying
  BY DEF Open, Replaying
<1> HIDE DEF s, p
<1> QED
  BY <1>1, <1>2, <1>3, SettleInv

\* A finished replay that went well is backed; the others leave the row pending.
LEMMA FinishInv == ASSUME IInv, NEW q \in Requests, Finish(q) PROVE IInv'
<1> USE ApprovalConstants DEF IInv
<1>1. pc[q] = "finish" /\ Goto(q, "idle") /\ UNCHANGED <<staging, item, latest, ledgerVars>>
  BY DEF Finish
<1>2. CASE ok[q]
  <2>1. SetStatus(target[q], "applied")
    BY <1>2 DEF Finish
  <2>2. target[q] \in Keyless \/ Backed(target[q])
    BY <1>1, <1>2 DEF ReplayInv, PositionInv, Backed, Replaying, Write
  <2> QED
    BY <1>1, <2>1, <2>2, SettleInv DEF Resolved, Open, Replaying
<1>3. CASE ~ ok[q]
  <2>1. UNCHANGED runVars
    BY <1>1, <1>3 DEF Finish, runVars
  <2>2. "idle" \in PC /\ "idle" \notin Open /\ "idle" = Idle /\ pc[q] # Idle
    BY <1>1 DEF PC, Open, Replaying, Idle
  <2> QED
    BY <1>1, <2>1, <2>2, MoveInv
<1> QED
  BY <1>2, <1>3

-----------------------------------------------------------------------------
(* The steps that write to the ledger.                                     *)

\* A create takes effect once, and no write undoes another.
LEMMA CommitFacts ==
  ASSUME TypeOK, CreatedOnce, NEW r \in Runs, NEW w \in Write, Commit(r, w)
  PROVE  /\ effects' \in [Runs -> [Write -> 0..2]] /\ CreatedOnce'
         /\ \A s \in Runs, v \in Write : effects[s][v] > 0 => effects'[s][v] > 0
         /\ r \notin Keyless => effects'[r][w] > 0
         /\ \A s \in Runs \ {r} : effects'[s] = effects[s]
<1> USE ApprovalConstants
<1>1. CASE Replayed(r, w)
  BY <1>1 DEF Commit, Replayed, SameKey, TypeOK, CreatedOnce
<1>2. CASE ~ Replayed(r, w)
  <2> DEFINE n == IF effects[r][w] = 0 THEN 1 ELSE 2
  <2>1. effects' = [effects EXCEPT ![r][w] = n]
    BY <1>2 DEF Commit
  <2>2. n \in 1..2 /\ (w \in Creates => n = 1)
    <3>1. effects[r][w] \in 0..2
      BY DEF TypeOK
    <3>2. w \in Creates => effects[r][w] = 0
      BY <1>2, <3>1 DEF Replayed, SameKey
    <3> QED BY <3>2
  <2> HIDE DEF n
  <2>3. effects' \in [Runs -> [Write -> 0..2]]
    BY <2>1, <2>2 DEF TypeOK
  <2>4. \A s \in Runs, v \in Write :
            effects'[s][v] = IF s = r /\ v = w THEN n ELSE effects[s][v]
    BY <2>1 DEF TypeOK
  <2>5. \A s \in Runs \ {r} : effects'[s] = effects[s]
    BY <2>1 DEF TypeOK
  <2>6. CreatedOnce'
    <3> SUFFICES ASSUME NEW s \in Runs, NEW v \in Creates PROVE effects'[s][v] <= 1
      BY DEF CreatedOnce
    <3>1. v \in Write /\ effects[s][v] <= 1
      BY DEF CreatedOnce, Write
    <3>2. CASE s = r /\ v = w
      BY <2>2, <2>4, <3>2
    <3>3. CASE ~ (s = r /\ v = w)
      BY <2>4, <3>1, <3>3
    <3> QED BY <3>2, <3>3
  <2>7. \A s \in Runs, v \in Write : effects[s][v] > 0 => effects'[s][v] > 0
    <3> SUFFICES ASSUME NEW s \in Runs, NEW v \in Write, effects[s][v] > 0
                 PROVE  effects'[s][v] > 0
      OBVIOUS
    <3>1. effects'[s][v] \in {n, effects[s][v]}
      BY <2>4
    <3>2. n > 0
      BY <2>2
    <3> QED BY <3>1, <3>2
  <2>8. effects'[r][w] > 0
    BY <2>2, <2>4
  <2> QED
    BY <2>3, <2>5, <2>6, <2>7, <2>8
<1> QED
  BY <1>1, <1>2

LEMMA WriteInv == ASSUME IInv, NEW q \in Requests, WriteOne(q) PROVE IInv'
<1> USE ApprovalConstants DEF IInv
<1>1. /\ pc[q] = "write" /\ target[q] \in Runs /\ next[q] \in Write
      /\ UNCHANGED <<target, decision, runVars, audited, recorded>>
  BY DEF WriteOne, PositionInv, Idle
<1>2. /\ effects' \in [Runs -> [Write -> 0..2]] /\ CreatedOnce'
      /\ \A s \in Runs, v \in Write : effects[s][v] > 0 => effects'[s][v] > 0
      /\ ok'[q] => ok[q] /\ (target[q] \notin Keyless => effects'[target[q]][next[q]] > 0)
  <2>1. CASE Commit(target[q], next[q])
    BY <1>1, <2>1, CommitFacts DEF WriteOne, TypeOK
  <2>2. CASE UNCHANGED effects /\ ok' = [ok EXCEPT ![q] = FALSE]
    BY <2>2 DEF TypeOK, CreatedOnce
  <2> QED
    BY <2>1, <2>2 DEF WriteOne
<1>3. /\ ok' \in [Requests -> BOOLEAN]
      /\ \A o \in Requests \ {q} : ok'[o] = ok[o] /\ next'[o] = next[o] /\ pc'[o] = pc[o]
  BY DEF WriteOne, TypeOK
<1>4. next' \in [Requests -> 1..(NumWrites + 1)] /\ next'[q] = next[q] + 1
  BY <1>1 DEF WriteOne, TypeOK, Write
<1>5. /\ pc' \in [Requests -> PC]
      /\ pc'[q] = IF next[q] = NumWrites THEN "audit" ELSE "write"
  BY DEF WriteOne, TypeOK, PC
<1>6. TypeOK'
  BY <1>1, <1>2, <1>3, <1>4, <1>5 DEF TypeOK, runVars
<1>7. UnstagedInv'
  BY <1>1 DEF UnstagedInv, runVars
<1>8. PositionInv'
  BY <1>1, <1>3, <1>4, <1>5 DEF PositionInv, Idle, Replaying, Open, Write, runVars
<1>9. ReplayInv'
  <2> SUFFICES ASSUME NEW o \in Requests, pc'[o] \in Replaying, ok'[o]
               PROVE  /\ \A w \in Write : w < next'[o] /\ target[o] \notin Keyless =>
                             effects'[target[o]][w] > 0
                      /\ pc'[o] \in {"record", "finish"} => target[o] \in audited
    BY <1>1 DEF ReplayInv
  <2>1. CASE o = q
    <3>1. pc'[o] \notin {"record", "finish"}
      BY <1>5, <2>1
    <3>2. ASSUME NEW w \in Write, w < next'[o], target[o] \notin Keyless
          PROVE  effects'[target[o]][w] > 0
      <4>1. CASE w = next[q]
        BY <1>2, <2>1, <3>2, <4>1
      <4>2. CASE w < next[q]
        <5>1. effects[target[q]][w] > 0
          BY <1>1, <1>2, <2>1, <3>2, <4>2 DEF ReplayInv, Replaying
        <5> QED
          BY <1>1, <1>2, <2>1, <5>1
      <4> QED
        BY <1>1, <1>4, <2>1, <3>2, <4>1, <4>2 DEF Write
    <3> QED
      BY <3>1, <3>2
  <2>2. CASE o # q
    <3>1. target[o] \in Runs
      BY <1>3, <2>2 DEF PositionInv, Replaying, Idle
    <3> QED
      BY <1>2, <1>3, <2>2, <3>1 DEF ReplayInv
  <2> QED
    BY <2>1, <2>2
<1>10. BackedInv'
  BY <1>1, <1>2 DEF BackedInv, Backed, runVars
<1> QED
  BY <1>2, <1>6, <1>7, <1>8, <1>9, <1>10

\* The audit and DecisionRecord writes: they add what the replay has earned.
LEMMA LedgerInv ==
  ASSUME IInv, NEW q \in Requests, NEW p \in PC, Goto(q, p), UNCHANGED <<runVars, effects>>,
         audited' \in SUBSET Runs, audited \subseteq audited',
         recorded' \in SUBSET Runs,
         pc[q] # Idle,
         pc[q] \in {"audit", "record"} \/ p = Idle,
         p \in {"idle", "record", "finish"},
         ok[q] /\ p # Idle => target[q] \in audited',
         \A r \in recorded' :
             r \in recorded \/ (r = target[q] /\ ok[q] /\ pc[q] = "record")
  PROVE  IInv'
<1> USE ApprovalConstants DEF IInv
<1>1. TypeOK'
  BY GotoFacts DEF TypeOK, runVars
<1>2. UnstagedInv' /\ CreatedOnce'
  BY DEF UnstagedInv, CreatedOnce, runVars
<1>3. PositionInv'
  BY GotoFacts DEF PositionInv, Idle, Replaying, Open, runVars
<1>4. ReplayInv'
  BY GotoFacts DEF ReplayInv, PositionInv, Idle, Replaying
<1>5. BackedInv'
  <2> SUFFICES ASSUME NEW r \in Runs \ Keyless, status[r] = "applied" \/ r \in recorded'
               PROVE  r \in audited' /\ \A w \in Write : effects[r][w] > 0
    BY DEF BackedInv, Backed, runVars
  <2>1. CASE status[r] = "applied" \/ r \in recorded
    BY <2>1 DEF BackedInv, Backed
  <2>2. CASE r = target[q] /\ ok[q] /\ pc[q] = "record"
    BY <2>2 DEF ReplayInv, PositionInv, Replaying, Write
  <2> QED
    BY <2>1, <2>2
<1> QED
  BY <1>1, <1>2, <1>3, <1>4, <1>5

LEMMA AuditInv == ASSUME IInv, NEW q \in Requests, Audit(q) PROVE IInv'
<1>1. pc[q] = "audit" /\ target[q] \in Runs /\ UNCHANGED <<runVars, effects, recorded>>
  BY DEF Audit, IInv, PositionInv, Idle
<1>2. TypeOK /\ "idle" = Idle /\ "idle" \in PC /\ "record" \in PC
  BY DEF IInv, Idle, PC
<1>3. CASE Goto(q, "idle") /\ UNCHANGED audited
  BY <1>1, <1>2, <1>3, LedgerInv DEF TypeOK, Idle
<1>4. CASE /\ audited' = IF ok[q] THEN audited \cup {target[q]} ELSE audited
           /\ Goto(q, "record")
  BY <1>1, <1>2, <1>4, LedgerInv DEF TypeOK, Idle
<1> QED
  BY <1>3, <1>4 DEF Audit

LEMMA RecordApprovalInv == ASSUME IInv, NEW q \in Requests, RecordApproval(q) PROVE IInv'
<1>1. /\ pc[q] = "record" /\ target[q] \in Runs /\ Goto(q, "finish")
      /\ UNCHANGED <<runVars, effects, audited>>
  BY DEF RecordApproval, IInv, PositionInv, Idle
<1>2. /\ recorded' \in SUBSET Runs
      /\ \A r \in recorded' : r \in recorded \/ (r = target[q] /\ ok[q])
  BY <1>1 DEF RecordApproval, Upsert, IInv, TypeOK
<1>3. "finish" \in PC /\ "finish" # Idle /\ "record" # Idle
  BY DEF PC, Idle
<1>4. audited' \in SUBSET Runs /\ audited \subseteq audited'
  BY <1>1 DEF IInv, TypeOK
<1>5. ok[q] => target[q] \in audited'
  BY <1>1 DEF IInv, ReplayInv, Replaying
<1> QED
  BY <1>1, <1>2, <1>3, <1>4, <1>5, LedgerInv

LEMMA RecordRejectInv == ASSUME IInv, NEW q \in Requests, RecordReject(q) PROVE IInv'
<1>1. /\ pc[q] = "recordReject" /\ target[q] \in Runs /\ Goto(q, "idle")
      /\ UNCHANGED <<runVars, effects, audited>>
  BY DEF RecordReject, IInv, PositionInv, Idle
<1>2. recorded' \in SUBSET Runs /\ recorded' \subseteq recorded
  BY <1>1 DEF RecordReject, Upsert, IInv, TypeOK
<1>3. "idle" \in PC /\ "idle" = Idle /\ "recordReject" # Idle
  BY DEF PC, Idle
<1>4. audited' \in SUBSET Runs /\ audited \subseteq audited'
  BY <1>1 DEF IInv, TypeOK
<1> QED
  BY <1>1, <1>2, <1>3, <1>4, LedgerInv

LEMMA StutterInv == IInv /\ UNCHANGED vars => IInv'
BY DEF IInv, TypeOK, UnstagedInv, PositionInv, ReplayInv, BackedInv, Backed, CreatedOnce,
       vars, runVars, reqVars, ledgerVars

LEMMA StepInv == IInv /\ [Next]_vars => IInv'
<1> SUFFICES ASSUME IInv, [Next]_vars PROVE IInv'
  OBVIOUS
<1>1. CASE UNCHANGED vars
  BY <1>1, StutterInv
<1>2. CASE \E r \in Runs : RunStep(r)
  BY <1>2, RunStepInv
<1>3. CASE \E c \in Cases : ReviewItem(c)
  BY <1>3, ReviewInv
<1>4. CASE \E q \in Requests, r \in Runs, d \in Decision : Begin(q, r, d)
  BY <1>4, BeginInv
<1>5. ASSUME NEW q \in Requests, RequestStep(q) PROVE IInv'
  BY <1>5, ReadInv, ExpireInv, GateInv, MarkStaleInv, WriteInv, AuditInv, RecordApprovalInv,
     FinishInv, ResolveInv, RecordRejectInv, RefuseInv DEF RequestStep
<1> QED
  BY <1>1, <1>2, <1>3, <1>4, <1>5 DEF Next

-----------------------------------------------------------------------------
(* The theorems.                                                           *)

\* The inductive invariant holds, for the handlers as they are.
THEOREM Invariant == Spec => []IInv
BY InitInv, StepInv, PTL DEF Spec

\* Every variable keeps its type.
THEOREM TypeCorrect == Spec => []TypeOK
<1>1. IInv => TypeOK
  BY DEF IInv
<1> QED
  BY <1>1, Invariant, PTL

\* An applied row, and a DecisionRecord that says committed, have all their writes
\* and an audit row, provided no two planned writes of a run share an apply key.
THEOREM ApplicationsAreBacked ==
  ASSUME Keyless = {}
  PROVE  Spec => []AppliedIsBacked
<1>1. IInv => AppliedIsBacked
  BY DEF IInv, BackedInv, AppliedIsBacked
<1> QED
  BY <1>1, Invariant, PTL

-----------------------------------------------------------------------------
(* What a step may do to the rows that are over, and to the contested ones. *)

\* A request touches its own row only, and nothing before it has read it pending; that
\* is also the only way to be at work on it.
LEMMA RequestFacts ==
  ASSUME IInv, NEW q \in Requests, RequestStep(q)
  PROVE  /\ target[q] \in Runs
         /\ \A o \in Requests \ {q} : pc'[o] = pc[o] /\ target'[o] = target[o]
         /\ pc'[q] \in Open => /\ target'[q] = target[q]
                               /\ pc[q] \in Open \/ Pending(target[q])
         /\ pc[q] \notin Open => UNCHANGED <<status, effects>>
         /\ \A s \in Runs \ {target[q]} : status'[s] = status[s] /\ effects'[s] = effects[s]
<1> USE DEF IInv
<1>1. pc[q] # Idle /\ target[q] \in Runs
  BY DEF RequestStep, Read, Expire, Gate, MarkStale, WriteOne, Audit, RecordApproval, Finish,
     Resolve, RecordReject, Refuse, PositionInv, Idle
<1>2. \A o \in Requests \ {q} : pc'[o] = pc[o] /\ target'[o] = target[o]
  BY DEF RequestStep, Read, Expire, Gate, MarkStale, WriteOne, Audit, RecordApproval, Finish,
     Resolve, RecordReject, Refuse, Goto, TypeOK
<1>3. pc'[q] \in Open => /\ target'[q] = target[q]
                         /\ pc[q] \in Open \/ Pending(target[q])
  <2>1. CASE Read(q)
    BY <2>1 DEF Read, AfterRead, Goto, Open, Replaying, TypeOK, Idle
  <2>2. CASE WriteOne(q)
    BY <2>2 DEF WriteOne, Open, Replaying
  <2>3. CASE RecordReject(q) \/ Refuse(q) \/ Expire(q) \/ MarkStale(q) \/ Finish(q) \/ Resolve(q)
    BY <2>3 DEF RecordReject, Refuse, Expire, MarkStale, Finish, Resolve, Goto, Open, Replaying,
       TypeOK
  <2>4. CASE Gate(q)
    BY <2>4 DEF Gate, AfterGate, Goto, Open, Replaying, TypeOK, Idle
  <2>5. CASE Audit(q) \/ RecordApproval(q)
    BY <2>5 DEF Audit, RecordApproval, Goto, Open, Replaying, TypeOK, Idle
  <2> QED BY <2>1, <2>2, <2>3, <2>4, <2>5 DEF RequestStep
<1>4. pc[q] \notin Open => UNCHANGED <<status, effects>>
  BY DEF RequestStep, Read, Expire, Gate, MarkStale, WriteOne, Audit, RecordApproval, Finish,
     Resolve, RecordReject, Refuse, Open, Replaying, runVars, ledgerVars
<1>5. ASSUME NEW s \in Runs \ {target[q]} PROVE status'[s] = status[s]
  BY <1>1 DEF RequestStep, Read, Expire, Gate, MarkStale, WriteOne, Audit, RecordApproval,
     Finish, Resolve, RecordReject, Refuse, SetStatus, runVars, TypeOK
<1>6. ASSUME NEW s \in Runs \ {target[q]} PROVE effects'[s] = effects[s]
  <2>1. CASE WriteOne(q)
    <3>1. next[q] \in Write
      BY <2>1 DEF WriteOne, PositionInv
    <3> QED BY <1>1, <2>1, <3>1, CommitFacts DEF WriteOne
  <2>2. CASE UNCHANGED effects
    BY <2>2
  <2> QED BY <2>1, <2>2 DEF RequestStep, Read, Expire, Gate, MarkStale, Audit, RecordApproval,
             Finish, Resolve, RecordReject, Refuse, ledgerVars
<1> QED BY <1>1, <1>2, <1>3, <1>4, <1>5, <1>6

\* A run's own steps do not touch a row that is over, nor what was written for it.
LEMMA RunKeepsSettled ==
  ASSUME IInv, NEW r \in Runs, RunStep(r), NEW s \in Settled
  PROVE  status'[s] = status[s] /\ effects'[s] = effects[s] /\ s \in Settled'
<1>0. s \in Runs /\ status[s] \in Resolved \cup {"gone"}
  BY DEF Settled
<1>1. UNCHANGED <<effects, reqVars>>
  BY DEF RunStep, StageLook, StageInsert, PersistItems, RunDies, FallDue, ledgerVars
<1>2. staging[r] \in {"idle", "insert"} => r # s
  BY <1>0 DEF IInv, UnstagedInv, Resolved
<1>3. status'[s] = status[s]
  BY <1>0, <1>2 DEF IInv, TypeOK, RunStep, StageLook, StageInsert, PersistItems, RunDies,
              FallDue, Pending, Resolved
<1>4. s \notin Contested'
  BY <1>0, <1>1, <1>3 DEF Settled, Contested, Pending, reqVars
<1> QED
  BY <1>0, <1>1, <1>3, <1>4 DEF Settled

\* Nor does a request.
LEMMA RequestKeepsSettled ==
  ASSUME IInv, NEW q \in Requests, RequestStep(q), NEW s \in Settled
  PROVE  status'[s] = status[s] /\ effects'[s] = effects[s] /\ s \in Settled'
<1>1. s \in Runs /\ status[s] \in Resolved \cup {"gone"} /\ ~ Pending(s)
  BY DEF Settled, Pending, Resolved
<1>2. \A o \in Requests : target[o] = s => pc[o] \notin Open
  BY <1>1 DEF Settled, Contested
<1>3. status'[s] = status[s] /\ effects'[s] = effects[s]
  BY <1>1, <1>2, RequestFacts
<1>4. \A o \in Requests : target'[o] = s => pc'[o] \notin Open
  BY <1>1, <1>2, RequestFacts
<1> QED
  BY <1>1, <1>3, <1>4 DEF Settled, Contested

\* Once the last request that read a row pending has ended, the resolution of the row
\* is final, and nothing of the run is written any more.
THEOREM ResolutionsAreFinal == Spec => ResolvedIsFinal
<1> DEFINE A == \A r \in Settled :
                    status'[r] = status[r] /\ effects'[r] = effects[r] /\ r \in Settled'
<1>1. IInv /\ [Next]_vars => [A]_vars
  <2> SUFFICES ASSUME IInv, Next, NEW s \in Settled
               PROVE  status'[s] = status[s] /\ effects'[s] = effects[s] /\ s \in Settled'
    OBVIOUS
  <2>1. CASE \E r \in Runs : RunStep(r)
    BY <2>1, RunKeepsSettled
  <2>2. CASE \E c \in Cases : ReviewItem(c)
    BY <2>2 DEF ReviewItem, ledgerVars, reqVars, Settled, Contested, Pending
  <2>3. CASE \E q \in Requests, r \in Runs, d \in Decision : Begin(q, r, d)
    BY <2>3 DEF Begin, runVars, ledgerVars, Settled, Contested, Pending, Open, Replaying,
       IInv, TypeOK
  <2>4. CASE \E q \in Requests : RequestStep(q)
    BY <2>4, RequestKeepsSettled
  <2> QED
    BY <2>1, <2>2, <2>3, <2>4 DEF Next
<1> HIDE DEF A
<1>2. Spec => [][A]_vars
  BY <1>1, Invariant, PTL DEF Spec
<1> QED
  BY <1>2 DEF A, ResolvedIsFinal
-----------------------------------------------------------------------------
(* The queue implements Recommendations.                                   *)

rvars == <<Standing, effects, audited, Contested>>

\* A step that leaves the ledger, the requests and every row's standing alone, but for
\* overdue.
LEMMA Stutters ==
  ASSUME UNCHANGED <<effects, audited, pc, target>>,
         \A r \in Runs : status'[r] = status[r] \/ (Pending(r) /\ Pending(r)')
  PROVE  UNCHANGED rvars
<1>1. Standing' = Standing
  BY DEF Standing, Pending
<1>2. Contested' = Contested
  BY DEF Contested, Pending
<1> QED BY <1>1, <1>2 DEF rvars

\* A step that gives one row another standing.
LEMMA Restands ==
  ASSUME TypeOK, TypeOK', NEW r \in Runs, NEW s,
         Standing'[r] = s, \A o \in Runs \ {r} : status'[o] = status[o]
  PROVE  Standing' = [Standing EXCEPT ![r] = s]
BY DEF Standing, Pending

LEMMA RunRefines ==
  ASSUME IInv, IInv', NEW r \in Runs, RunStep(r)
  PROVE  Register!Next \/ UNCHANGED rvars
<1> USE DEF IInv
<1>0. UNCHANGED <<effects, audited, pc, target>>
  BY DEF RunStep, StageLook, StageInsert, PersistItems, RunDies, FallDue, ledgerVars, reqVars
<1>1. ASSUME UNCHANGED status PROVE UNCHANGED rvars
  BY <1>0, <1>1, Stutters
<1>2. ASSUME NEW s \in Runs, Sibling(r, s), Pending(s), staging[r] = "idle",
             status' = [status EXCEPT ![s] = "gone", ![r] = "pending_review"]
      PROVE  Register!Next
  <2>1. s # r /\ status[r] = "none"
    BY <1>2 DEF Sibling, UnstagedInv
  <2>2. Standing[r] = "none" /\ Standing[s] = "open"
    BY <1>2, <2>1 DEF Standing, Pending
  <2>3. Standing' = [Standing EXCEPT ![s] = "gone", ![r] = "open"]
    BY <1>2, <2>1 DEF Standing, Pending, TypeOK
  <2>4. Contested' \in {Contested, Contested \cup {s}}
    <3>1. r \notin Contested /\ r \notin Contested'
      BY <1>2, <2>1 DEF Contested, PositionInv, Pending, TypeOK
    <3>2. s \notin Contested
      BY <1>2 DEF Contested
    <3>3. \A o \in Runs \ {r, s} : o \in Contested' <=> o \in Contested
      BY <1>0, <1>2 DEF Contested, Pending, TypeOK
    <3> QED BY <3>1, <3>2, <3>3 DEF Contested
  <2> QED BY <1>0, <2>2, <2>3, <2>4 DEF Register!Next, Register!Replace
<1>3. ASSUME StageInsert(r) PROVE Register!Next
  <2>1. status[r] = "none" /\ status' = [status EXCEPT ![r] = "pending_review"]
    BY <1>3 DEF StageInsert, UnstagedInv
  <2>2. Standing[r] = "none" /\ Standing'[r] = "open"
    BY <2>1 DEF Standing, Pending, TypeOK
  <2>3. Standing' = [Standing EXCEPT ![r] = "open"]
    BY <2>1, <2>2, Restands DEF TypeOK
  <2>4. Contested' = Contested
    <3>1. r \notin Contested /\ r \notin Contested'
      BY <2>1 DEF Contested, PositionInv, Pending, TypeOK
    <3>2. \A o \in Runs \ {r} : o \in Contested' <=> o \in Contested
      BY <1>0, <2>1 DEF Contested, Pending, TypeOK
    <3> QED BY <3>1, <3>2 DEF Contested
  <2> QED BY <1>0, <2>2, <2>3, <2>4 DEF Register!Next, Register!Stage
<1>4. ASSUME FallDue(r) PROVE UNCHANGED rvars
  BY <1>0, <1>4, Stutters DEF FallDue, Pending, TypeOK
<1> QED BY <1>1, <1>2, <1>3, <1>4 DEF RunStep, StageLook, PersistItems, RunDies

\* Whether a request's row is contested may change with it, that of no other row; and
\* while the status stays, a row only ceases to be contested.
LEMMA RequestContests ==
  ASSUME IInv, NEW q \in Requests, RequestStep(q)
  PROVE  /\ Contested' \in {Contested \cup {target[q]}, Contested \ {target[q]}}
         /\ UNCHANGED status => Contested' \in {Contested, Contested \ {target[q]}}
<1> DEFINE r == target[q]
<1>1. \A s \in Runs \ {r} : Pending(s)' <=> Pending(s)
  BY RequestFacts DEF Pending
<1>2. \A s \in Runs \ {r}, o \in Requests :
          target'[o] = s /\ pc'[o] \in Open <=> target[o] = s /\ pc[o] \in Open
  <2> SUFFICES ASSUME NEW s \in Runs \ {r}, NEW o \in Requests
               PROVE  target'[o] = s /\ pc'[o] \in Open <=> target[o] = s /\ pc[o] \in Open
    OBVIOUS
  <2>1. CASE o = q
    BY <2>1, RequestFacts
  <2>2. CASE o # q
    BY <2>2, RequestFacts
  <2> QED BY <2>1, <2>2
<1>3. \A s \in Runs \ {r} : s \in Contested' <=> s \in Contested
  BY <1>1, <1>2 DEF Contested
<1>4. Contested \subseteq Runs /\ Contested' \subseteq Runs
  BY DEF Contested
<1>5. ASSUME UNCHANGED status, r \in Contested' PROVE r \in Contested
  <2>1. ~ Pending(r) /\ r \in Runs
    BY <1>5 DEF Contested, Pending
  <2>2. PICK o \in Requests : target'[o] = r /\ pc'[o] \in Open
    BY <1>5 DEF Contested
  <2>3. target[o] = r /\ pc[o] \in Open
    <3>1. CASE o = q
      BY <2>1, <2>2, <3>1, RequestFacts
    <3>2. CASE o # q
      BY <2>2, <3>2, RequestFacts
    <3> QED BY <3>1, <3>2
  <2> QED BY <2>1, <2>3 DEF Contested
<1> QED BY <1>3, <1>4, <1>5

\* A step of a request that leaves the rows and the ledger alone at most ends its work.
LEMMA Retires ==
  ASSUME IInv, NEW q \in Requests, RequestStep(q), UNCHANGED <<status, effects, audited>>
  PROVE  Register!Next \/ UNCHANGED rvars
<1>1. Standing' = Standing
  BY DEF Standing, Pending
<1>2. CASE Contested' = Contested
  BY <1>1, <1>2 DEF rvars
<1>3. CASE Contested' = Contested \ {target[q]}
  <2>1. target[q] \in Runs
    BY RequestFacts
  <2> QED BY <1>1, <1>3, <2>1 DEF Register!Next, Register!Settle
<1> QED BY <1>2, <1>3, RequestContests

\* A request at work on a row finds its recommendation open, or contested.
LEMMA Underway ==
  ASSUME IInv, NEW q \in Requests, pc[q] \in Open
  PROVE  target[q] \in Runs /\ Register!Underway(target[q])
<1>1. target[q] \in Runs
  BY DEF IInv, PositionInv, Open, Replaying, Idle
<1> QED BY <1>1 DEF Register!Underway, Standing, Pending, Contested

\* A request's write to its row closes an open or contested recommendation, or misses a
\* replaced one.
LEMMA RowRefines ==
  ASSUME IInv, IInv', NEW q \in Requests, RequestStep(q), pc[q] \in Open,
         NEW s \in Register!Closed, SetStatus(target[q], s), UNCHANGED <<effects, audited>>,
         s = "applied" => Register!Complete(target[q]) /\ target[q] \in audited
  PROVE  Register!Next \/ UNCHANGED rvars
<1> USE DEF IInv
<1>1. PICK r \in Runs : r = target[q] /\ Register!Underway(r)
  BY Underway
<1>2. CASE status[r] = "gone"
  BY <1>1, <1>2, Retires DEF SetStatus
<1>3. CASE status[r] # "gone"
  <2>1. status' = [status EXCEPT ![r] = s]
    BY <1>1, <1>3 DEF SetStatus, PositionInv
  <2>2. Standing[r] # "gone" /\ Standing'[r] = s
    BY <1>3, <2>1 DEF Standing, Pending, Register!Closed, TypeOK
  <2>3. Standing' = [Standing EXCEPT ![r] = s]
    BY <2>1, <2>2, Restands DEF TypeOK
  <2>4. Contested' \in {Contested \cup {r}, Contested \ {r}}
    BY <1>1, RequestContests
  <2> QED BY <1>1, <2>2, <2>3, <2>4 DEF Register!Next, Register!Close
<1> QED BY <1>2, <1>3

\* Past the replay loop with nothing failed, every write that has a key of its own has
\* taken effect.
LEMMA Completes ==
  ASSUME IInv, NEW q \in Requests, ok[q], pc[q] \in Replaying \ {"write"}
  PROVE  Register!Complete(target[q])
<1>1. target[q] \in Runs /\ next[q] = NumWrites + 1
  BY DEF IInv, PositionInv, Replaying, Idle
<1>2. ASSUME NEW w \in Write, target[q] \notin Keyless PROVE effects[target[q]][w] > 0
  BY <1>1, <1>2, ApprovalConstants DEF IInv, ReplayInv, Write
<1> QED BY <1>1, <1>2 DEF Register!Complete

\* While requests stay at work on their rows, the same rows are contested.
LEMMA Persists ==
  ASSUME UNCHANGED <<status, target>>,
         \A o \in Requests : pc'[o] \in Open <=> pc[o] \in Open
  PROVE  Contested' = Contested
BY DEF Contested, Pending

LEMMA WriteRefines ==
  ASSUME IInv, NEW q \in Requests, WriteOne(q)
  PROVE  Register!Next \/ UNCHANGED rvars
<1>1. /\ pc[q] = "write" /\ UNCHANGED <<runVars, target, audited>>
      /\ Commit(target[q], next[q]) \/ UNCHANGED effects
  BY DEF WriteOne
<1>2. UNCHANGED <<Standing, Contested>>
  <2>1. \A o \in Requests : pc'[o] \in Open <=> pc[o] \in Open
    BY <1>1 DEF WriteOne, Open, Replaying, IInv, TypeOK
  <2> QED BY <1>1, <2>1, Persists DEF Standing, Pending, runVars
<1>3. PICK r \in Runs, w \in Write : r = target[q] /\ w = next[q]
  BY <1>1 DEF IInv, PositionInv, Idle
<1>4. ASSUME ~ Replayed(r, w), Commit(r, w) PROVE Register!Commit(r, w)
  <2>1. Register!Underway(r)
    BY <1>1, <1>3, Underway DEF Open, Replaying
  <2>2. w \in Creates => effects[r][w] = 0
    BY <1>4 DEF Replayed, SameKey, IInv, TypeOK
  <2> QED BY <1>1, <1>2, <1>4, <2>1, <2>2 DEF Register!Commit, Commit
<1>5. CASE UNCHANGED effects
  BY <1>1, <1>2, <1>5 DEF rvars
<1>6. CASE Commit(r, w) /\ ~ Replayed(r, w)
  BY <1>4, <1>6 DEF Register!Next
<1>7. CASE Commit(r, w) /\ Replayed(r, w)
  BY <1>5, <1>7 DEF Commit
<1> QED BY <1>1, <1>3, <1>5, <1>6, <1>7

LEMMA RequestRefines ==
  ASSUME IInv, IInv', NEW q \in Requests, RequestStep(q)
  PROVE  Register!Next \/ UNCHANGED rvars
<1>1. CASE Read(q) \/ Gate(q) \/ Refuse(q) \/ RecordApproval(q) \/ RecordReject(q)
  BY <1>1, Retires DEF Read, Gate, Refuse, RecordApproval, RecordReject, runVars, ledgerVars
<1>2. CASE Expire(q)
  BY <1>2, RowRefines DEF Expire, ledgerVars, Open, Register!Closed
<1>3. CASE MarkStale(q)
  BY <1>3, RowRefines DEF MarkStale, ledgerVars, Open, Register!Closed
<1>4. CASE Resolve(q)
  <2>1. PICK s \in Register!Closed \ {"applied"} : SetStatus(target[q], s)
    BY <1>4 DEF Resolve, Register!Closed
  <2> QED BY <1>4, <2>1, RowRefines DEF Resolve, ledgerVars, Open
<1>5. CASE WriteOne(q)
  BY <1>5, WriteRefines
<1>6. CASE Audit(q)
  <2>1. pc[q] = "audit" /\ UNCHANGED <<status, Standing, effects>>
    BY <1>6 DEF Audit, runVars, Standing, Pending
  <2>2. PICK r \in Runs : r = target[q] /\ Register!Underway(r)
    BY <2>1, Underway DEF Open, Replaying
  <2>3. CASE UNCHANGED audited
    BY <2>1, <2>3, Retires
  <2>4. CASE ok[q] /\ audited' = audited \cup {r} /\ Goto(q, "record")
    <3>1. Register!Complete(r)
      BY <2>1, <2>2, <2>4, Completes DEF Replaying
    <3>2. \A o \in Requests : pc'[o] \in Open <=> pc[o] \in Open
      BY <2>1, <2>4 DEF Goto, Open, Replaying, IInv, TypeOK
    <3>3. UNCHANGED target
      BY <2>4 DEF Goto, Idle, IInv, TypeOK
    <3> QED BY <2>1, <2>2, <2>4, <3>1, <3>2, <3>3, Persists DEF Register!Next, Register!Audit
  <2> QED BY <1>6, <2>2, <2>3, <2>4 DEF Audit
<1>7. CASE Finish(q)
  <2>1. pc[q] = "finish" /\ UNCHANGED <<effects, audited>>
    BY <1>7 DEF Finish, ledgerVars
  <2>2. CASE ~ ok[q]
    BY <1>7, <2>1, <2>2, Retires DEF Finish
  <2>3. CASE ok[q]
    <3>1. SetStatus(target[q], "applied")
      BY <1>7, <2>3 DEF Finish
    <3>2. Register!Complete(target[q]) /\ target[q] \in audited
      BY <2>1, <2>3, Completes DEF Replaying, IInv, ReplayInv
    <3> QED BY <2>1, <3>1, <3>2, RowRefines DEF Open, Replaying, Register!Closed
  <2> QED BY <2>2, <2>3
<1> QED BY <1>1, <1>2, <1>3, <1>4, <1>5, <1>6, <1>7 DEF RequestStep

\* The queue implements Recommendations, for any runs, requests, cases and planned
\* writes of any verbs: no overlap, lost answer, refusal, crash, retry or re-run makes it
\* create a record twice, apply what is not complete and audited, or touch a
\* recommendation that is over.
THEOREM Implements == Spec => KeepsTheRegister
<1>1. Init => Register!Init
  BY DEF Init, Register!Init, Standing, Pending, Contested, Open, Replaying
<1>2. IInv /\ IInv' /\ [Next]_vars => [Register!Next]_rvars
  <2> SUFFICES ASSUME IInv, IInv', [Next]_vars
               PROVE  Register!Next \/ UNCHANGED rvars
    OBVIOUS
  <2>1. CASE \E r \in Runs : RunStep(r)
    BY <2>1, RunRefines
  <2>2. CASE \E c \in Cases : ReviewItem(c)
    BY <2>2, Stutters DEF ReviewItem, ledgerVars, reqVars
  <2>3. CASE \E q \in Requests, r \in Runs, d \in Decision : Begin(q, r, d)
    <3>1. UNCHANGED <<status, effects, audited>>
      BY <2>3 DEF Begin, runVars, ledgerVars
    <3>2. \A o \in Requests : pc'[o] \in Open <=> pc[o] \in Open
      BY <2>3 DEF Begin, Open, Replaying, Idle, IInv, TypeOK
    <3>3. \A o \in Requests : pc[o] \in Open => target'[o] = target[o]
      BY <2>3 DEF Begin, Open, Replaying, Idle, IInv, TypeOK
    <3>4. Contested' = Contested
      BY <3>1, <3>2, <3>3 DEF Contested, Pending
    <3> QED BY <3>1, <3>4 DEF rvars, Standing, Pending
  <2>4. CASE \E q \in Requests : RequestStep(q)
    BY <2>4, RequestRefines
  <2>5. CASE UNCHANGED vars
    BY <2>5, Stutters DEF vars, runVars, ledgerVars, reqVars
  <2> QED BY <2>1, <2>2, <2>3, <2>4, <2>5 DEF Next
<1> QED BY <1>1, <1>2, Invariant, PTL DEF Spec, KeepsTheRegister, Register!Spec, rvars
=============================================================================
