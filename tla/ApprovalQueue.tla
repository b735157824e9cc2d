----------------------------- MODULE ApprovalQueue -----------------------------
(***************************************************************************)
(* The officer queue of the Smart App Service: runs stage recommendations   *)
(* (main.py _stage_recommendation, item_records.py), officers approve,      *)
(* reject or cancel them (main.py _approve_workflow_staging), and an        *)
(* approval replays the plan's writes against the system of record.         *)
(*                                                                         *)
(* Every await of the handlers ends a step.  A row is named by the run that *)
(* wrote it, so a row that an on-demand re-run replaced is "gone": no       *)
(* correlation id leads to it any more.  The plan of a row never changes,   *)
(* which makes the display hash redundant here.  One item finding stands    *)
(* for all those of a run, and its id is that of the case's artifact.       *)
(* Tenant, role and override checks come before or between the writes and   *)
(* only end a request; that is Refuse.                                      *)
(***************************************************************************)
EXTENDS Naturals, FiniteSets

CONSTANTS
    Runs,        \* runs that end in pending_approval, by correlation id
    OnDemand,    \* those started by an officer; the others by a trigger
    ItemRuns,    \* those with an item finding under a hard review gate
    Malformed,   \* those with a planned write that names no source
    Keyless,     \* those whose planned writes are one action, without plan keys
    Cases, CaseOf,  \* the case each run is about
    NumWrites,   \* planned writes of a run
    Requests,    \* slots for concurrent approve/reject/cancel requests
    NoRun,
    Creates      \* planned writes that create a record; the others update,
                 \* upsert or delete one

ASSUME ApprovalConstants ==
    /\ OnDemand \subseteq Runs /\ ItemRuns \subseteq Runs
    /\ Malformed \subseteq Runs /\ Keyless \subseteq Runs
    /\ CaseOf \in [Runs -> Cases]
    /\ NumWrites \in Nat \ {0}
    /\ NoRun \notin Runs
    /\ Creates \subseteq 1..NumWrites

Write == 1..NumWrites

VARIABLES
    status,    \* "status" of each run's staging row ("overdue": pending_review,
               \* past its expires_at)
    staging,   \* how far each run got with staging its recommendation
    item,      \* disposition on each run's item-ledger row
    latest,    \* run with the newest item-ledger row of each case
    effects,   \* times each planned write took effect (2: twice or more)
    audited,   \* runs with an audit row of a fully committed approval
    recorded,  \* runs whose DecisionRecord says committed
    pc, target, decision, next, ok  \* the requests: where, on what, how

runVars == <<status, staging, item, latest>>
reqVars == <<pc, target, decision, next, ok>>
ledgerVars == <<effects, audited, recorded>>
vars == <<runVars, reqVars, ledgerVars>>

Resolved == {"applied", "rejected", "cancelled", "expired", "stale"}
Status == {"none", "pending_review", "overdue", "gone"} \cup Resolved
Decision == {"approve", "reject", "cancel"}
PC == {"idle", "read", "expire", "gate", "stale", "write", "audit", "record", "finish",
       "resolve", "recordReject"}

TypeOK ==
    /\ status \in [Runs -> Status]
    /\ staging \in [Runs -> {"idle", "insert", "items", "over"}]
    /\ item \in [Runs -> {"none", "proposed", "reviewed"}]
    /\ latest \in [Cases -> Runs \cup {NoRun}]
    /\ effects \in [Runs -> [Write -> 0..2]]
    /\ audited \subseteq Runs /\ recorded \subseteq Runs
    /\ pc \in [Requests -> PC] /\ target \in [Requests -> Runs \cup {NoRun}]
    /\ decision \in [Requests -> Decision]
    /\ next \in [Requests -> 1..(NumWrites + 1)] /\ ok \in [Requests -> BOOLEAN]

Init ==
    /\ status = [r \in Runs |-> "none"]
    /\ staging = [r \in Runs |-> "idle"]
    /\ item = [r \in Runs |-> "none"]
    /\ latest = [c \in Cases |-> NoRun]
    /\ effects = [r \in Runs |-> [w \in Write |-> 0]]
    /\ audited = {} /\ recorded = {}
    /\ pc = [q \in Requests |-> "idle"] /\ target = [q \in Requests |-> NoRun]
    /\ decision = [q \in Requests |-> "cancel"]
    /\ next = [q \in Requests |-> 1] /\ ok = [q \in Requests |-> TRUE]

-----------------------------------------------------------------------------
(* A run stages its recommendation, then writes its item findings.         *)

Pending(r) == status[r] \in {"pending_review", "overdue"}
Sibling(r, s) == s # r /\ CaseOf[s] = CaseOf[r]

\* The upsert of an on-demand run replaces a pending row of the same case.  When
\* it finds none it inserts, and no unique index covers the filter, so another
\* upsert may have inserted meanwhile.  A trigger's row has a key of its own.
StageLook(r) ==
    /\ staging[r] = "idle"
    /\ \/ \E s \in Runs :
          /\ r \in OnDemand /\ Sibling(r, s) /\ Pending(s)
          /\ status' = [status EXCEPT ![s] = "gone", ![r] = "pending_review"]
          /\ staging' = [staging EXCEPT ![r] = "items"]
       \/ /\ r \in OnDemand => ~ \E s \in Runs : Sibling(r, s) /\ Pending(s)
          /\ staging' = [staging EXCEPT ![r] = "insert"]
          /\ UNCHANGED status
    /\ UNCHANGED <<item, latest, reqVars, ledgerVars>>

StageInsert(r) ==
    /\ staging[r] = "insert"
    /\ status' = [status EXCEPT ![r] = "pending_review"]
    /\ staging' = [staging EXCEPT ![r] = "items"]
    /\ UNCHANGED <<item, latest, reqVars, ledgerVars>>

\* persist_item_findings swallows its own failure.
PersistItems(r) ==
    /\ staging[r] = "items"
    /\ staging' = [staging EXCEPT ![r] = "over"]
    /\ \/ /\ r \in ItemRuns
          /\ item' = [item EXCEPT ![r] = "proposed"]
          /\ latest' = [latest EXCEPT ![CaseOf[r]] = r]
       \/ UNCHANGED <<item, latest>>
    /\ UNCHANGED <<status, reqVars, ledgerVars>>

\* The run's process dies with its work half done.
RunDies(r) ==
    /\ staging[r] \in {"insert", "items"}
    /\ staging' = [staging EXCEPT ![r] = "over"]
    /\ UNCHANGED <<status, item, latest, reqVars, ledgerVars>>

\* The row's plan passes its expires_at.
FallDue(r) ==
    /\ status[r] = "pending_review"
    /\ status' = [status EXCEPT ![r] = "overdue"]
    /\ UNCHANGED <<staging, item, latest, reqVars, ledgerVars>>

\* record_item_disposition stamps the newest ledger row of the item, whichever
\* run's card the officer is looking at.
ReviewItem(c) ==
    /\ latest[c] # NoRun
    /\ item' = [item EXCEPT ![latest[c]] = "reviewed"]
    /\ UNCHANGED <<status, staging, latest, reqVars, ledgerVars>>

-----------------------------------------------------------------------------
(* Approve, reject, cancel.                                                *)

\* The request goes on to p; an ended request leaves nothing behind.
Idle == "idle"
Goto(q, p) ==
    /\ pc' = [pc EXCEPT ![q] = p]
    /\ target' = [target EXCEPT ![q] = IF p = Idle THEN NoRun ELSE @]
    /\ decision' = [decision EXCEPT ![q] = IF p = Idle THEN "cancel" ELSE @]
    /\ next' = [next EXCEPT ![q] = IF p = Idle THEN 1 ELSE @]
    /\ ok' = [ok EXCEPT ![q] = IF p = Idle THEN TRUE ELSE @]

\* Row writes are keyed by the run: they miss a row that has been replaced.
SetStatus(r, s) ==
    status' = IF status[r] \in {"none", "gone"} THEN status ELSE [status EXCEPT ![r] = s]

\* A request comes in; under a halt (_enforce_automation_allowed) it is refused
\* here, and nothing changes.
Begin(q, r, d) ==
    /\ pc[q] = Idle
    /\ pc' = [pc EXCEPT ![q] = "read"]
    /\ target' = [target EXCEPT ![q] = r]
    /\ decision' = [decision EXCEPT ![q] = d]
    /\ UNCHANGED <<next, ok, runVars, ledgerVars>>

\* Mutant: only an applied row is turned away, not one resolved otherwise.
AppliedOnly(q) ==
    IF status[target[q]] \in {"none", "gone", "applied"} THEN "idle"
    ELSE IF status[target[q]] = "overdue" THEN "expire"
    ELSE IF decision[q] = "approve" THEN "gate"
    ELSE "resolve"

\* What the handler decides from the row it has just read; it never reads the
\* row again.
AfterRead(q) ==
    IF ~ Pending(target[q]) THEN "idle"
    ELSE IF status[target[q]] = "overdue" THEN "expire"
    ELSE IF decision[q] = "approve" THEN "gate"
    ELSE "resolve"

Read(q) ==
    /\ pc[q] = "read"
    /\ Goto(q, AfterRead(q))
    /\ UNCHANGED <<runVars, ledgerVars>>

Expire(q) ==
    /\ pc[q] = "expire"
    /\ SetStatus(target[q], "expired")
    /\ Goto(q, "idle")
    /\ UNCHANGED <<staging, item, latest, ledgerVars>>

\* Item review gate, then the ghost-reference guard.
AfterGate(q) ==
    IF item[target[q]] = "proposed" THEN "idle"
    ELSE IF target[q] \in Malformed THEN "stale"
    ELSE "write"

Gate(q) ==
    /\ pc[q] = "gate"
    /\ Goto(q, AfterGate(q))
    /\ UNCHANGED <<runVars, ledgerVars>>

MarkStale(q) ==
    /\ pc[q] = "stale"
    /\ SetStatus(target[q], "stale")
    /\ Goto(q, "idle")
    /\ UNCHANGED <<staging, item, latest, ledgerVars>>

\* Mutant: a key made per attempt.
AttemptKey(r, w, v) == FALSE

\* The apply key of a write is its plan key with the correlation id or, without
\* one, the action id with the correlation id.
SameKey(r, w, v) == w = v \/ r \in Keyless

\* A create is answered as a replay, and changes nothing, if a create brought its
\* key before; the other verbs do not look at the key.
Replayed(r, w) == w \in Creates /\ \E v \in Creates : SameKey(r, w, v) /\ effects[r][v] > 0

\* What the system of record does with a write.
Commit(r, w) ==
    IF Replayed(r, w)
    THEN UNCHANGED effects
    ELSE effects' = [effects EXCEPT ![r][w] = IF @ = 0 THEN 1 ELSE 2]

\* One write of the replay loop: committed, refused, or committed with its
\* answer lost.  A failed write does not stop the loop.
WriteOne(q) ==
    /\ pc[q] = "write"
    /\ \/ Commit(target[q], next[q]) /\ UNCHANGED ok
       \/ Commit(target[q], next[q]) /\ ok' = [ok EXCEPT ![q] = FALSE]
       \/ UNCHANGED effects /\ ok' = [ok EXCEPT ![q] = FALSE]
    /\ next' = [next EXCEPT ![q] = @ + 1]
    /\ pc' = [pc EXCEPT ![q] = IF next[q] = NumWrites THEN "audit" ELSE "write"]
    /\ UNCHANGED <<target, decision, runVars, audited, recorded>>

\* Mutant: a failed audit write is only logged.
AuditSwallows(q) ==
    /\ pc[q] = "audit"
    /\ Goto(q, "record")
    /\ \/ audited' = IF ok[q] THEN audited \cup {target[q]} ELSE audited
       \/ UNCHANGED audited
    /\ UNCHANGED <<runVars, effects, recorded>>

\* The audit row; the request ends with a 500 when it cannot be written.
Audit(q) ==
    /\ pc[q] = "audit"
    /\ \/ /\ audited' = IF ok[q] THEN audited \cup {target[q]} ELSE audited
          /\ Goto(q, "record")
       \/ Goto(q, "idle") /\ UNCHANGED audited
    /\ UNCHANGED <<runVars, effects, recorded>>

\* The DecisionRecord, one per run, replaced by the latest decision; a failure to
\* write it is only logged.
Upsert(r, committed) ==
    \/ recorded' = IF committed THEN recorded \cup {r} ELSE recorded \ {r}
    \/ UNCHANGED recorded

RecordApproval(q) ==
    /\ pc[q] = "record"
    /\ Upsert(target[q], ok[q])
    /\ Goto(q, "finish")
    /\ UNCHANGED <<runVars, effects, audited>>

\* Mutant: the row is applied although a write failed.
FinishAnyway(q) ==
    /\ pc[q] = "finish"
    /\ SetStatus(target[q], "applied")
    /\ Goto(q, "idle")
    /\ UNCHANGED <<staging, item, latest, ledgerVars>>

Finish(q) ==
    /\ pc[q] = "finish"
    /\ IF ok[q] THEN SetStatus(target[q], "applied") ELSE UNCHANGED status
    /\ Goto(q, "idle")
    /\ UNCHANGED <<staging, item, latest, ledgerVars>>

Resolve(q) ==
    /\ pc[q] = "resolve"
    /\ SetStatus(target[q], IF decision[q] = "cancel" THEN "cancelled" ELSE "rejected")
    /\ Goto(q, IF decision[q] = "reject" THEN "recordReject" ELSE "idle")
    /\ UNCHANGED <<staging, item, latest, ledgerVars>>

RecordReject(q) ==
    /\ pc[q] = "recordReject"
    /\ Upsert(target[q], FALSE)
    /\ Goto(q, "idle")
    /\ UNCHANGED <<runVars, effects, audited>>

\* A refused override or a crash ends the request wherever it is.
Refuse(q) ==
    /\ pc[q] # "idle"
    /\ Goto(q, "idle")
    /\ UNCHANGED <<runVars, ledgerVars>>

RunStep(r) == StageLook(r) \/ StageInsert(r) \/ PersistItems(r) \/ RunDies(r) \/ FallDue(r)

RequestStep(q) ==
    \/ Read(q) \/ Expire(q) \/ Gate(q) \/ MarkStale(q) \/ WriteOne(q)
    \/ Audit(q) \/ RecordApproval(q) \/ Finish(q)
    \/ Resolve(q) \/ RecordReject(q) \/ Refuse(q)

Next ==
    \/ \E r \in Runs : RunStep(r)
    \/ \E c \in Cases : ReviewItem(c)
    \/ \E q \in Requests, r \in Runs, d \in Decision : Begin(q, r, d)
    \/ \E q \in Requests : RequestStep(q)

Spec == Init /\ [][Next]_vars

-----------------------------------------------------------------------------
(* Properties.                                                             *)

\* Every planned write of r is in the system of record, and an audit row says so.
Backed(r) == r \in audited /\ \A w \in Write : effects[r][w] > 0

\* A row shown as applied and a DecisionRecord that says committed are backed,
\* whatever overlaps, fails or is retried.
AppliedIsBacked ==
    \A r \in Runs : status[r] = "applied" \/ r \in recorded => Backed(r)

\* Where a request may be once its plan is being replayed, and once the row it
\* read was pending.
Replaying == {"write", "audit", "record", "finish"}
Open == Replaying \cup {"expire", "gate", "stale", "resolve"}

\* Rows that were resolved or replaced while a request was at work on them that had
\* read them pending.
Contested == {r \in Runs : ~ Pending(r) /\ \E q \in Requests : target[q] = r /\ pc[q] \in Open}

\* Recommendations that are over.
Settled == {r \in Runs : status[r] \in Resolved \cup {"gone"}} \ Contested

\* Only a request that had read the row pending before it was resolved or replaced can
\* undo that or still write: once the last of those has ended, the row stays as it is
\* and nothing of its plan is written any more, whatever requests come and go.
ResolvedIsFinal ==
    [][\A r \in Settled :
        status'[r] = status[r] /\ effects'[r] = effects[r] /\ r \in Settled']_vars

\* An already-applied row never has its writes fired again (main.py, on the
\* "already applied" guard: "we should not even ATTEMPT a re-write").
AppliedFiresNoMore ==
    [][\A q \in Requests : WriteOne(q) => status[target[q]] # "applied"]_vars

\* Nothing of a run with item findings is written before they are reviewed (main.py:
\* the gate "must therefore be enforced HERE, not only client-side").
GateHolds ==
    \A q \in Requests : pc[q] = "write" /\ target[q] \in ItemRuns => item[target[q]] = "reviewed"

-----------------------------------------------------------------------------
(* The inductive invariant behind the proofs.                              *)

\* A run that has not staged has no row.
UnstagedInv == \A r \in Runs : staging[r] \in {"idle", "insert"} => status[r] = "none"

\* The replay loop's position, and a row, or what was one, for whoever is at work.
PositionInv ==
    \A q \in Requests :
        /\ pc[q] # Idle => target[q] \in Runs
        /\ pc[q] \in Open => status[target[q]] # "none"
        /\ pc[q] = "write" => next[q] \in Write
        /\ pc[q] \in Replaying \ {"write"} => next[q] = NumWrites + 1
        /\ pc[q] \notin Replaying => next[q] = 1

\* While nothing failed, everything replayed so far has taken effect, and past the
\* audit step there is an audit row.
ReplayInv ==
    \A q \in Requests : pc[q] \in Replaying /\ ok[q] =>
        /\ \A w \in Write : w < next[q] /\ target[q] \notin Keyless => effects[target[q]][w] > 0
        /\ pc[q] \in {"record", "finish"} => target[q] \in audited

BackedInv ==
    \A r \in Runs \ Keyless : status[r] = "applied" \/ r \in recorded => Backed(r)

\* A create takes effect once.
CreatedOnce == \A r \in Runs, w \in Creates : effects[r][w] <= 1

\* The invariant the proofs use; approvals checks it on instances.
IInv ==
    /\ TypeOK /\ UnstagedInv /\ PositionInv
    /\ ReplayInv /\ BackedInv /\ CreatedOnce

-----------------------------------------------------------------------------
\* The queue in Recommendations' terms: a row is open while it is pending, overdue
\* or not.
Standing == [r \in Runs |-> IF Pending(r) THEN "open" ELSE status[r]]

Register == INSTANCE Recommendations WITH
    standing <- Standing, writes <- effects, trail <- audited, contested <- Contested,
    Keyed <- Runs \ Keyless

\* The queue implements Recommendations, through overlapping requests, lost answers,
\* refusals, crashes, retries and re-runs.
KeepsTheRegister == Register!Spec
=============================================================================
