------------------------------ MODULE ClauseMemory ------------------------------
(***************************************************************************)
(* The learned memory of one bucket of an app: officers' corrections        *)
(* (corrections.py), the clauses learned from them (clause_store.py), the   *)
(* consolidation pass that folds the ones into the others (consolidation.py *)
(* consolidate_bucket), and the requests by which people challenge, restore *)
(* and withdraw a clause while a pass may be running.                       *)
(*                                                                         *)
(* A pass and a request are sequences of single reads and writes of the     *)
(* store.  Texts, scopes and fingerprints are abstracted: the corrections   *)
(* that teach one lesson form a cluster, and which clause a cluster is      *)
(* matched with, if any, is left open, for the code goes by the overlap of  *)
(* words and scopes; so is which clauses are at odds or near-identical.     *)
(***************************************************************************)
EXTENDS Integers, FiniteSets

CONSTANTS
    MaxRecorded,    \* bound on the corrections
    MaxClauses,     \* bound on the clauses
    Teaches,        \* the lesson of each correction
    Officer,        \* who made it
    Brief,          \* the corrections too brief to learn anything from alone
    Gate,           \* promotion_min_officers
    MinCluster,     \* MIN_CLUSTER_SIZE
    Limit,          \* the corrections a pass reads at most
    Passes,         \* who may run a pass: the leader's loop, an admin's "run now"
    Requests,       \* slots for requests in progress
    MaxFaults,      \* bound on passes that die half-way
    MaxActs         \* bound on what people do

Corrections == 1..MaxRecorded
Clauses == 1..MaxClauses
Lessons == {Teaches[c] : c \in Corrections}

ASSUME ClauseMemoryConstants ==
    /\ MaxRecorded \in Nat /\ MaxClauses \in Nat
    /\ DOMAIN Teaches = Corrections /\ DOMAIN Officer = Corrections
    /\ Gate \in Nat /\ MinCluster \in Nat /\ Limit \in Nat
    /\ MaxFaults \in Nat /\ MaxActs \in Nat
    /\ Brief \subseteq Corrections
    /\ Passes \cap Requests = {}
    /\ "nothing" \notin Lessons

VARIABLES
    recorded,     \* corrections made so far, oldest first
    consumedBy,   \* the clause each was folded into, 0: pending
    status,       \* of each clause, "none": not written yet
    prov,         \* provenance: the corrections each clause cites
    before,       \* challenge.status_before
    excused,      \* those reinstated while the ledger's totals were under the floor,
                  \* and that no new row has mentioned since
    pass, ask,    \* the passes and the requests in progress
    faults, acts,
    behind,       \* history: who was at work when each clause was last put on hold
    torn          \* history: clauses of which a pass overwrote what another had just
                  \* folded in

stored == <<consumedBy, status, prov, before, excused>>
vars == <<recorded, stored, pass, ask, faults, acts, behind, torn>>

-----------------------------------------------------------------------------
Live == {"active", "candidate", "dissented"}
Serving == {"active", "candidate"}
\* "held" is quarantined or retired: the code tells them apart by name only.
Statuses == Live \cup {"none", "challenged", "underperforming", "held", "superseded",
                       "orphaned"}

NoClause == [status |-> "none", prov |-> {}]
RestingPass == [pc |-> "idle", batch |-> {}, floor |-> MinCluster,
                seen |-> {}, lesson |-> "nothing",
                clause |-> 0, doc |-> NoClause, marks |-> {}]
RestingAsk == [pc |-> "idle", clause |-> 0, was |-> "none", to |-> "none"]

PassStates ==
    [pc : {"idle", "open", "choose", "fold", "write", "author", "insert", "consume",
           "rate", "park", "graph"},
     batch : SUBSET Corrections, floor : {1, MinCluster}, seen : SUBSET Clauses,
     lesson : Lessons \cup {"nothing"}, clause : Clauses \cup {0},
     doc : [status : Statuses, prov : SUBSET Corrections], marks : SUBSET Clauses]
AskStates == [pc : {"idle", "note", "set"}, clause : Clauses \cup {0},
              was : Statuses, to : Statuses]

TypeOK ==
    /\ recorded \in 0..MaxRecorded
    /\ consumedBy \in [Corrections -> Clauses \cup {0}]
    /\ status \in [Clauses -> Statuses]
    /\ prov \in [Clauses -> SUBSET Corrections]
    /\ before \in [Clauses -> Statuses]
    /\ excused \subseteq Clauses
    /\ pass \in [Passes -> PassStates] /\ ask \in [Requests -> AskStates]
    /\ faults \in 0..MaxFaults /\ acts \in 0..MaxActs
    /\ behind \in [Clauses -> SUBSET (Passes \cup Requests)]
    /\ torn \subseteq Clauses

Init ==
    /\ recorded = 0
    /\ consumedBy = [c \in Corrections |-> 0]
    /\ status = [k \in Clauses |-> "none"]
    /\ prov = [k \in Clauses |-> {}]
    /\ before = [k \in Clauses |-> "none"]
    /\ excused = {}
    /\ pass = [p \in Passes |-> RestingPass]
    /\ ask = [r \in Requests |-> RestingAsk]
    /\ faults = 0 /\ acts = 0
    /\ behind = [k \in Clauses |-> {}]
    /\ torn = {}

Pending == {c \in 1..recorded : consumedBy[c] = 0}

\* The oldest Limit of them.
Window == {c \in Pending : Cardinality({d \in Pending : d <= c}) <= Limit}

\* Distinct officers, never their weights.
Enough(C) == Cardinality({Officer[c] : c \in C}) >= Gate
Tier(C) == IF Enough(C) THEN "active" ELSE "candidate"

-----------------------------------------------------------------------------
(* The ledger.                                                              *)

\* record_correction.
Record ==
    /\ recorded < MaxRecorded
    /\ recorded' = recorded + 1
    /\ UNCHANGED <<stored, pass, ask, faults, acts, behind, torn>>

\* A new row mentions a reinstated clause.
Judge(k) ==
    /\ k \in excused
    /\ excused' = excused \ {k}
    /\ UNCHANGED <<recorded, consumedBy, status, prov, before, pass, ask, faults, acts,
                   behind, torn>>

-----------------------------------------------------------------------------
(* The consolidation pass, first half: corrections into clauses.            *)

Cluster(p) == {c \in pass[p].batch : Teaches[c] = pass[p].lesson}

\* Mutant: off by one at the size floor.
TooThinOrJust(p, l) ==
    LET cluster == {c \in pass[p].batch : Teaches[c] = l}
    IN  Cardinality(cluster) <= pass[p].floor \/ cluster \subseteq Brief

\* Too little to be a judgement of its own.
TooThin(p, l) ==
    LET cluster == {c \in pass[p].batch : Teaches[c] = l}
    IN  Cardinality(cluster) < pass[p].floor \/ cluster \subseteq Brief

Unmoved == <<recorded, consumedBy, status, prov, before, excused, ask, faults, acts,
             behind, torn>>

\* pending_corrections; without any the pass is over at once.
ReadPending(p) ==
    /\ pass[p].pc = "idle" /\ Window # {}
    /\ pass' = [pass EXCEPT ![p].pc = "open", ![p].batch = Window]
    /\ UNCHANGED Unmoved

\* Mutant: only superseded clauses are skipped.
ReadClausesAll(p) ==
    /\ pass[p].pc = "open"
    /\ \E floor \in {MinCluster, IF Enough(1..recorded) THEN MinCluster ELSE 1} :
          pass' = [pass EXCEPT ![p].pc = "choose", ![p].floor = floor,
                               ![p].seen = {k \in Clauses :
                                               status[k] \notin {"none", "superseded"}}]
    /\ UNCHANGED Unmoved

\* The officers the app has ever seen, and every clause.  The size floor bends for
\* a small team, unless the officers cannot be read.
ReadClauses(p) ==
    /\ pass[p].pc = "open"
    /\ \E floor \in {MinCluster, IF Enough(1..recorded) THEN MinCluster ELSE 1} :
          pass' = [pass EXCEPT ![p].pc = "choose", ![p].floor = floor,
                               ![p].seen = {k \in Clauses : status[k] \in Live}]
    /\ UNCHANGED Unmoved

\* find_matching_clause: any clause in service when the pass read them, whose words
\* and scope are close enough.
Match(p) ==
    /\ pass[p].pc = "choose"
    /\ \E c \in pass[p].batch, k \in pass[p].seen :
          pass' = [pass EXCEPT ![p].pc = "fold", ![p].lesson = Teaches[c],
                               ![p].clause = k]
    /\ UNCHANGED Unmoved

Without(p, l) == {c \in pass[p].batch : Teaches[c] # l}

\* None is close enough, and it is too little to learn from: left pending.
PassOver(p) ==
    /\ pass[p].pc = "choose"
    /\ \E c \in pass[p].batch :
          /\ TooThin(p, Teaches[c])
          /\ pass' = [pass EXCEPT ![p].batch = Without(p, Teaches[c])]
    /\ UNCHANGED Unmoved

Undertake(p) ==
    /\ pass[p].pc = "choose"
    /\ \E c \in pass[p].batch :
          /\ ~ TooThin(p, Teaches[c])
          /\ pass' = [pass EXCEPT ![p].pc = "author", ![p].lesson = Teaches[c]]
    /\ UNCHANGED Unmoved

\* reinforce, its read.
FoldRead(p) ==
    /\ pass[p].pc = "fold"
    /\ LET k == pass[p].clause
       IN  pass' = [pass EXCEPT ![p].pc = "write",
                                ![p].doc = [status |-> status[k], prov |-> prov[k]]]
    /\ UNCHANGED Unmoved

\* Mutant: the provenance is replaced.
FoldWriteOver(p) ==
    /\ pass[p].pc = "write"
    /\ prov' = [prov EXCEPT ![pass[p].clause] = Cluster(p)]
    /\ pass' = [pass EXCEPT ![p].pc = "consume", ![p].doc = NoClause]
    /\ UNCHANGED <<recorded, consumedBy, status, before, excused, ask, faults, acts, behind,
                   torn>>

\* reinforce, its write: the evidence grows, and a candidate may be promoted.
FoldWrite(p) ==
    /\ pass[p].pc = "write"
    /\ LET k == pass[p].clause
           cited == pass[p].doc.prov \cup Cluster(p)
       IN  /\ prov' = [prov EXCEPT ![k] = cited]
           /\ status' = IF pass[p].doc.status = "candidate" /\ Enough(cited)
                        THEN [status EXCEPT ![k] = "active"] ELSE status
           /\ torn' = IF prov[k] = pass[p].doc.prov THEN torn ELSE torn \cup {k}
    /\ pass' = [pass EXCEPT ![p].pc = "consume", ![p].doc = NoClause]
    /\ UNCHANGED <<recorded, consumedBy, before, excused, ask, faults, acts, behind>>

Onwards(p) == [pass EXCEPT ![p].pc = "choose", ![p].batch = Without(p, pass[p].lesson),
                           ![p].lesson = "nothing", ![p].clause = 0]

\* The model, asked for the clause's text, fails or names a person twice.
AuthorFails(p) ==
    /\ pass[p].pc = "author"
    /\ pass' = Onwards(p)
    /\ UNCHANGED Unmoved

\* The text is written, and next_clause_id read: ids are given out in order.
Author(p) ==
    /\ pass[p].pc = "author"
    /\ \E k \in Clauses :
          /\ \A j \in Clauses : status[j] # "none" <=> j < k
          /\ pass' = [pass EXCEPT ![p].pc = "insert", ![p].clause = k]
    /\ UNCHANGED Unmoved

\* create_clause.
Insert(p) ==
    /\ pass[p].pc = "insert"
    /\ status[pass[p].clause] = "none"
    /\ LET k == pass[p].clause
       IN  /\ prov' = [prov EXCEPT ![k] = Cluster(p)]
           /\ status' = [status EXCEPT ![k] = Tier(Cluster(p))]
           /\ pass' = [pass EXCEPT ![p].pc = "consume",
                                   ![p].seen = @ \cup {k}]
    /\ UNCHANGED <<recorded, consumedBy, before, excused, ask, faults, acts, behind, torn>>

\* mark_consumed: only what is pending still is stamped.
Consume(p) ==
    /\ pass[p].pc = "consume"
    /\ consumedBy' = [c \in Corrections |->
                         IF c \in Cluster(p) /\ consumedBy[c] = 0 THEN pass[p].clause
                         ELSE consumedBy[c]]
    /\ pass' = Onwards(p)
    /\ UNCHANGED <<recorded, status, prov, before, excused, ask, faults, acts, behind, torn>>

-----------------------------------------------------------------------------
(* The pass, second half: the clauses' results and how they agree.          *)

\* aggregate_clause_performance, over every row of the ledger: those that left a
\* reinstated clause under the floor are among them.
Measure(p) ==
    /\ pass[p].pc = "choose" /\ pass[p].batch = {}
    /\ \E poor \in SUBSET {k \in Clauses : status[k] # "none"} :
          /\ excused \subseteq poor
          /\ pass' = [pass EXCEPT ![p].pc = "rate", ![p].marks = poor,
                                   ![p].seen = {}, ![p].floor = MinCluster]
    /\ UNCHANGED Unmoved

\* Mutant: whatever its status is.
RateBlind(p) ==
    /\ pass[p].pc = "rate"
    /\ \E k \in pass[p].marks :
          pass' = [pass EXCEPT ![p].marks = @ \ {k}, ![p].pc = "park", ![p].clause = k]
    /\ UNCHANGED Unmoved

\* apply_performance, one clause under the floor: is it in service?
Rate(p) ==
    /\ pass[p].pc = "rate"
    /\ \E k \in pass[p].marks :
          pass' = IF status[k] \in Serving
                  THEN [pass EXCEPT ![p].marks = @ \ {k}, ![p].pc = "park", ![p].clause = k]
                  ELSE [pass EXCEPT ![p].marks = @ \ {k}]
    /\ UNCHANGED Unmoved

Park(p) ==
    /\ pass[p].pc = "park"
    /\ status' = [status EXCEPT ![pass[p].clause] = "underperforming"]
    /\ pass' = [pass EXCEPT ![p].pc = "rate", ![p].clause = 0]
    /\ UNCHANGED <<recorded, consumedBy, prov, before, excused, ask, faults, acts, behind,
                   torn>>

\* The clauses are read again; detect_contradictions, of two or more active ones.  An
\* error while they were rated does not stop the pass.
Refresh(p) ==
    /\ pass[p].pc \in {"rate", "park"}
    /\ \E odd \in SUBSET {k \in Clauses : status[k] = "active"} :
          /\ Cardinality(odd) # 1
          /\ pass' = [pass EXCEPT ![p].pc = "graph", ![p].clause = 0, ![p].marks = odd,
                                  ![p].seen = {k \in Clauses : status[k] \in Serving}]
    /\ UNCHANGED Unmoved

Dissent(p) ==
    /\ pass[p].pc = "graph"
    /\ \E k \in pass[p].marks :
          /\ status' = [status EXCEPT ![k] = "dissented"]
          /\ pass' = [pass EXCEPT ![p].marks = @ \ {k}]
    /\ UNCHANGED <<recorded, consumedBy, prov, before, excused, ask, faults, acts, behind,
                   torn>>

\* find_merges, of two clauses that were in service: the more general absorbs.
Absorb(p) ==
    /\ pass[p].pc = "graph" /\ pass[p].marks = {}
    /\ \E j, k \in pass[p].seen :
          /\ j # k
          /\ status' = [status EXCEPT ![k] = "superseded"]
          /\ pass' = [pass EXCEPT ![p].seen = @ \ {k}]
    /\ UNCHANGED <<recorded, consumedBy, prov, before, excused, ask, faults, acts, behind,
                   torn>>

PassOut(p) ==
    /\ pass' = [pass EXCEPT ![p] = RestingPass]
    /\ behind' = [k \in Clauses |-> behind[k] \ {p}]
    /\ UNCHANGED <<recorded, stored, ask, acts, torn>>

\* Its work done, or the id it chose taken: _run_pass_one_env goes on.
Finish(p) ==
    /\ \/ pass[p].pc = "graph" /\ pass[p].marks = {}
       \/ pass[p].pc = "insert" /\ status[pass[p].clause] # "none"
    /\ PassOut(p) /\ UNCHANGED faults

\* A read or a write raises, or the process dies.
Abort(p) ==
    /\ pass[p].pc # "idle" /\ faults < MaxFaults
    /\ faults' = faults + 1
    /\ PassOut(p)

-----------------------------------------------------------------------------
(* People.  A request reads the clause, decides, and writes.                *)

AtWork == {p \in Passes : pass[p].pc # "idle"} \cup {r \in Requests : ask[r].pc # "idle"}

\* Who is behind a hold of the clause, once its status is s.
Behind(k, s, actors) ==
    IF s = "held" /\ status[k] # "held" THEN [behind EXCEPT ![k] = actors] ELSE behind

\* quarantine, retire: one write, whatever the status was.
Hold(k) ==
    /\ status[k] # "none"
    /\ acts < MaxActs /\ acts' = acts + 1
    /\ status' = [status EXCEPT ![k] = "held"]
    /\ behind' = Behind(k, "held", AtWork)
    /\ UNCHANGED <<recorded, consumedBy, prov, before, excused, pass, ask, faults, torn>>

Asked(r, k, pc, was, to) ==
    /\ ask[r].pc = "idle"
    /\ acts < MaxActs /\ acts' = acts + 1
    /\ ask' = [ask EXCEPT ![r] = [pc |-> pc, clause |-> k, was |-> was, to |-> to]]
    /\ UNCHANGED <<recorded, stored, pass, faults, behind, torn>>

\* challenge_clause: only something in service can be stopped.
Challenge(r, k) ==
    status[k] \in Live /\ Asked(r, k, "note", status[k], "challenged")

\* Mutant: dismissing a challenge confirms the clause.
ResolveConfirms(r, k) ==
    /\ status[k] = "challenged"
    /\ \E to \in {"held", IF before[k] \in Serving THEN "active" ELSE before[k]} :
          Asked(r, k, "note", before[k], to)

\* resolve_challenge: upheld, or put back to what the challenge interrupted.
Resolve(r, k) ==
    /\ status[k] = "challenged"
    /\ \E to \in {"held", IF before[k] \in Serving THEN Tier(prov[k]) ELSE before[k]} :
          Asked(r, k, "note", before[k], to)

\* reinstate_clause.
Reinstate(r, k) ==
    /\ status[k] = "underperforming"
    /\ Asked(r, k, "set", status[k], Tier(prov[k]))

\* reconcile_scope_families, at a publish that drops the clause's facet family.
Reconcile(r, k) ==
    status[k] \in Live /\ Asked(r, k, "set", status[k], "orphaned")

\* The challenge block is written.
Note(r) ==
    /\ ask[r].pc = "note"
    /\ before' = [before EXCEPT ![ask[r].clause] = ask[r].was]
    /\ ask' = [ask EXCEPT ![r].pc = "set"]
    /\ UNCHANGED <<recorded, consumedBy, status, prov, excused, pass, faults, acts, behind,
                   torn>>

\* set_status.
SetStatus(r) ==
    /\ ask[r].pc = "set"
    /\ LET k == ask[r].clause
           to == ask[r].to
       IN  /\ status' = [status EXCEPT ![k] = to]
           /\ \/ ask[r].was = "underperforming" /\ excused' = excused \cup {k}
              \/ UNCHANGED excused
           /\ behind' = [j \in Clauses |-> Behind(k, to, AtWork)[j] \ {r}]
    /\ ask' = [ask EXCEPT ![r] = RestingAsk]
    /\ UNCHANGED <<recorded, consumedBy, prov, before, pass, faults, acts, torn>>

\* The request dies between its writes.
Drop(r) ==
    /\ ask[r].pc # "idle"
    /\ ask' = [ask EXCEPT ![r] = RestingAsk]
    /\ behind' = [k \in Clauses |-> behind[k] \ {r}]
    /\ UNCHANGED <<recorded, stored, pass, faults, acts, torn>>

-----------------------------------------------------------------------------
Consolidate(p) ==
    \/ ReadPending(p) \/ ReadClauses(p)
    \/ Match(p) \/ PassOver(p) \/ Undertake(p) \/ FoldRead(p) \/ FoldWrite(p)
    \/ AuthorFails(p) \/ Author(p) \/ Insert(p) \/ Consume(p)
    \/ Measure(p) \/ Rate(p) \/ Park(p) \/ Refresh(p) \/ Dissent(p) \/ Absorb(p)
    \/ Finish(p)

Request(r) ==
    \/ \E k \in Clauses : Challenge(r, k) \/ Resolve(r, k) \/ Reinstate(r, k)
                          \/ Reconcile(r, k)
    \/ Note(r) \/ SetStatus(r) \/ Drop(r)

Next ==
    \/ Record
    \/ \E k \in Clauses : Judge(k) \/ Hold(k)
    \/ \E p \in Passes : Consolidate(p) \/ Abort(p)
    \/ \E r \in Requests : Request(r)

Spec == Init /\ [][Next]_vars

\* The loop wakes every CONSOLIDATION_INTERVAL_SECONDS, and the age threshold lets
\* every bucket through in the end; the model that writes the text answers in the
\* end.  Nothing makes people act.
Fairness == \A p \in Passes : WF_vars(Consolidate(p)) /\ SF_vars(Author(p))

FairSpec == Spec /\ Fairness

-----------------------------------------------------------------------------
(* Properties.                                                             *)

\* "Never a lost lesson": a correction is marked consumed by a clause only if the
\* clause cites it, wherever passes die and however they overlap, but for a clause
\* whose evidence one of them wrote over.
ConsumedIsCited ==
    \A c \in Corrections :
       consumedBy[c] # 0 => c \in prov[consumedBy[c]] \/ consumedBy[c] \in torn

\* The promotion gate: a clause is a team's judgement only on the corrections of
\* Gate distinct officers, however often passes died and retried, challenges came
\* and went, and whatever it was restored from; again but for a torn clause.
ActiveIsEarned == \A k \in Clauses : status[k] = "active" => Enough(prov[k]) \/ k \in torn

Moves(a) == IF a \in Passes THEN pass'[a] # pass[a] ELSE ask'[a] # ask[a]

\* What a person quarantined or retired stays so and gathers no evidence.  Only
\* those who were already at work when it was put on hold may still undo that.
HoldsStand ==
    [][\A k \in Clauses : status[k] = "held" =>
          \/ status'[k] = "held" /\ prov'[k] = prov[k]
          \/ \E a \in behind[k] : Moves(a)]_vars

\* Corrections of one lesson within the window, enough to learn from, do not wait for
\* ever, as long as the model has a clause id left: every pass that dies and every text
\* that is not delivered is made up for.
Waiting(l) ==
    /\ LET cluster == {c \in Window : Teaches[c] = l}
       IN  Cardinality(cluster) >= MinCluster /\ ~ cluster \subseteq Brief
    /\ \E k \in Clauses : status[k] = "none"
EveryLessonLands == \A l \in Lessons : []<> ~ Waiting(l)

\* "Zeroing them gives the judgement a genuine re-measurement window": a clause
\* that was reinstated is not parked again before new rows speak against it.
ReinstatedIsRemeasured ==
    [][\A k \in Clauses :
          status[k] # "underperforming" /\ status'[k] = "underperforming" =>
             k \notin excused]_vars

-----------------------------------------------------------------------------
(* The inductive invariant.                                                *)

Written(k) == k \in Clauses /\ status[k] # "none"

\* A clause cites nothing before its first write, and a challenge remembers a live
\* status.
StoreInv == \A k \in Clauses :
    /\ status[k] = "none" => prov[k] = {} /\ k \notin torn
    /\ before[k] \in Live \cup {"none"}
    /\ status[k] = "challenged" => before[k] \in Live

\* What a pass holds is still true of the store: x is its local state.
PassOK(x) ==
    /\ x.pc = "idle" => x = RestingPass
    /\ \A k \in x.seen \cup x.marks : Written(k)
    /\ x.pc \in {"fold", "write", "consume", "park"} => Written(x.clause)
    /\ x.pc = "insert" => x.clause \in Clauses
    /\ x.pc \in {"fold", "write", "author", "insert", "consume"} => x.lesson \in Lessons
    /\ x.pc \in {"fold", "write"} => x.clause \in x.seen
    /\ x.pc = "consume" /\ x.clause \notin torn =>
          \A c \in x.batch : Teaches[c] = x.lesson => c \in prov[x.clause]

PassInv == \A p \in Passes : PassOK(pass[p])

\* What a request is about to write is earned.
AskInv == \A r \in Requests :
    /\ ask[r].pc = "idle" => ask[r] = RestingAsk
    /\ ask[r].pc # "idle" =>
          /\ Written(ask[r].clause)
          /\ ask[r].to \in Live \cup {"challenged", "held", "orphaned"}
          /\ ask[r].to = "active" => Enough(prov[ask[r].clause]) \/ ask[r].clause \in torn
    /\ ask[r].pc = "note" => ask[r].was \in Live
    /\ ask[r].pc = "set" /\ ask[r].to = "challenged" => before[ask[r].clause] \in Live

\* The clauses a pass may write to as if they were in service.
Touched(x) == x.seen \cup {k \in x.marks : x.pc = "graph"}
                     \cup {k \in {x.clause} : x.pc = "park"}

\* Nobody who came to work after a hold holds anything of the clause.
HoldInv == \A k \in Clauses : status[k] = "held" =>
    /\ \A p \in Passes \ behind[k] : k \notin Touched(pass[p])
    /\ \A r \in Requests \ behind[k] : ask[r].clause # k

IInv == TypeOK /\ StoreInv /\ PassInv /\ AskInv /\ HoldInv
        /\ ConsumedIsCited /\ ActiveIsEarned
=============================================================================
