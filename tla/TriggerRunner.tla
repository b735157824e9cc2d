----------------------------- MODULE TriggerRunner -----------------------------
(***************************************************************************)
(* A poll trigger of the Smart App Service (trigger_runner.py): a tick reads *)
(* the trigger's state, polls the source, runs the agent on the rows it has  *)
(* not seen, and saves the seen keys and the attempts of failed rows.  Run   *)
(* now (main.py _fire_trigger_job) does the same for one row, single-shot.   *)
(*                                                                         *)
(* A pass is one call of either; each await ends a step.  Rows are numbered  *)
(* in poll order, their natural keys are stable, and each leads to at most   *)
(* one planned write: committed by auto-process, or staged for an officer.   *)
(* The agent decides anew on every run which of them, and the rate limit and *)
(* circuit breaker can turn the first into the second.  Rows of a pass run   *)
(* one after the other (TRIGGER_POLL_CONCURRENCY is 1 by default).  When one *)
(* raises, asyncio.gather ends the pass, but its other rows go on.           *)
(*                                                                         *)
(* When a tick is due is left open, and a failing poll changes nothing here. *)
(***************************************************************************)
EXTENDS Naturals, FiniteSets

CONSTANTS
    NumRows,      \* rows the source will ever offer
    Passes,       \* slots for calls in progress
    Ticks,        \* those for ticks; the others are for run-now jobs
    MaxRows,      \* new rows of one tick (_MAX_POLL_ROWS_PER_TICK)
    MaxAttempts,  \* runs before a failing row is given up (_MAX_ROW_ATTEMPTS)
    SeenMax,      \* seen keys that are kept (1000)
    MaxFaults,    \* bound: crashes and exceptions that leave a row's run
    Crashes,      \* TRUE: a process may die with its passes in progress
    AutoProcess,  \* TRUE: the trigger's execution_mode is auto_process
    Overlap       \* TRUE: a tick may start while another is in progress

ASSUME TriggerConstants ==
    /\ NumRows \in Nat /\ MaxFaults \in Nat
    /\ MaxRows \in Nat \ {0} /\ MaxAttempts \in Nat \ {0} /\ SeenMax \in Nat \ {0}
    /\ Ticks \subseteq Passes
    /\ Crashes \in BOOLEAN /\ AutoProcess \in BOOLEAN /\ Overlap \in BOOLEAN

Row == 1..NumRows
NoRow == 0

VARIABLES
    offered,    \* rows the poll returns
    seen, attempts,         \* the trigger's state document
    pc, row, todo,          \* the passes: where, on which row, rows left
    good, bad,              \* rows whose run came back with fired True, False
    snapSeen, snapAttempts, \* the state document as the pass read it
    awaited,    \* the pass still waits for its rows (gather has not raised)
    settled,    \* rows a run came back for with fired True, or that run now tried
    dead,       \* rows given up (the dead-letter record is best effort)
    failures,   \* failed runs of a row on ticks (up to MaxAttempts)
    faults,     \* crashes and escaped exceptions so far
    clean,      \* history: no fault, no overlap of passes, no trim of seen so far
    offers      \* history: times a row's write was committed or staged while clean
                \* (2: twice or more)

stateVars == <<seen, attempts>>
passVars == <<pc, row, todo, good, bad, snapSeen, snapAttempts, awaited>>
outVars == <<settled, dead, failures, faults, clean, offers>>
vars == <<offered, stateVars, passVars, outVars>>

PC == {"idle", "poll", "next", "fire", "commit", "stage", "ran", "save"}

TypeOK ==
    /\ offered \subseteq Row /\ seen \subseteq Row
    /\ attempts \in [Row -> 0..(MaxAttempts - 1)]
    /\ pc \in [Passes -> PC]
    /\ row \in [Passes -> Row \cup {NoRow}] /\ todo \in [Passes -> SUBSET Row]
    /\ good \in [Passes -> SUBSET Row] /\ bad \in [Passes -> SUBSET Row]
    /\ snapSeen \in [Passes -> SUBSET Row]
    /\ snapAttempts \in [Passes -> [Row -> 0..(MaxAttempts - 1)]]
    /\ awaited \in [Passes -> BOOLEAN]
    /\ settled \subseteq Row /\ dead \subseteq Row /\ offers \in [Row -> 0..2]
    /\ failures \in [Row -> 0..MaxAttempts]
    /\ faults \in 0..MaxFaults /\ clean \in BOOLEAN

NoAttempts == [r \in Row |-> 0]

Init ==
    /\ offered = {} /\ seen = {} /\ attempts = NoAttempts
    /\ pc = [p \in Passes |-> "idle"]
    /\ row = [p \in Passes |-> NoRow] /\ todo = [p \in Passes |-> {}]
    /\ good = [p \in Passes |-> {}] /\ bad = [p \in Passes |-> {}]
    /\ snapSeen = [p \in Passes |-> {}] /\ snapAttempts = [p \in Passes |-> NoAttempts]
    /\ awaited = [p \in Passes |-> TRUE]
    /\ settled = {} /\ dead = {} /\ failures = NoAttempts
    /\ faults = 0 /\ clean = TRUE /\ offers = NoAttempts

-----------------------------------------------------------------------------
At(p, c) == pc[p] = c
Goto(p, c) == pc' = [pc EXCEPT ![p] = c]
CleanIf(b) == clean' = (clean /\ b) /\ offers' = IF clean /\ b THEN offers ELSE NoAttempts

\* A new row turns up at the source.
Arrive(r) ==
    /\ r \notin offered
    /\ offered' = offered \cup {r}
    /\ UNCHANGED <<stateVars, passVars, outVars>>

\* A pass begins by reading the trigger's state.  The scheduler loop waits for a
\* tick to end; run-now jobs and orphaned rows wait for nobody.
Start(p) ==
    /\ At(p, "idle")
    /\ p \in Ticks /\ ~ Overlap => \A q \in Ticks : At(q, "idle") \/ ~ awaited[q]
    /\ Goto(p, "poll")
    /\ snapSeen' = [snapSeen EXCEPT ![p] = seen]
    /\ snapAttempts' = [snapAttempts EXCEPT ![p] = attempts]
    /\ CleanIf(\A q \in Passes : At(q, "idle"))
    /\ UNCHANGED <<offered, stateVars, row, todo, good, bad, awaited,
                   settled, dead, failures, faults>>

\* The first rows of the poll that the pass has not seen, as many as it may run.
Limit(p) == IF p \in Ticks THEN MaxRows ELSE 1

\* Mutant: no dedup against the seen keys.
AllOffered(p) == offered

Unseen(p) == offered \ snapSeen[p]
Fresh(p) == {r \in Unseen(p) : Cardinality({s \in Unseen(p) : s < r}) < Limit(p)}

Poll(p) ==
    /\ At(p, "poll")
    /\ todo' = [todo EXCEPT ![p] = Fresh(p)]
    /\ Goto(p, "next")
    /\ UNCHANGED <<offered, stateVars, row, good, bad, snapSeen, snapAttempts,
                   awaited, outVars>>

\* The next row, if any; rows of a pass that raised end without a trace.
NextRow(p) ==
    /\ At(p, "next")
    /\ \/ \E r \in todo[p] :
          /\ \A s \in todo[p] : r <= s
          /\ row' = [row EXCEPT ![p] = r]
          /\ todo' = [todo EXCEPT ![p] = @ \ {r}]
          /\ Goto(p, "fire")
       \/ /\ todo[p] = {} /\ awaited[p]
          /\ Goto(p, "save")
          /\ UNCHANGED <<row, todo>>
    /\ UNCHANGED <<offered, stateVars, good, bad, snapSeen, snapAttempts,
                   awaited, outVars>>

NextUp(p) == Goto(p, "next") /\ row' = [row EXCEPT ![p] = NoRow]

\* A tick's failed run of its current row.
CountFailure(p) ==
    failures' = IF p \in Ticks /\ failures[row[p]] < MaxAttempts
                THEN [failures EXCEPT ![row[p]] = @ + 1] ELSE failures

\* The agent runs.  Its own failures are caught; otherwise it plans nothing, a
\* write for an officer, or one that auto-process commits.
Fire(p) ==
    /\ At(p, "fire")
    /\ \/ /\ bad' = [bad EXCEPT ![p] = @ \cup {row[p]}]
          /\ settled' = IF p \in Ticks THEN settled ELSE settled \cup {row[p]}
          /\ CountFailure(p)
          /\ NextUp(p)
       \/ /\ Goto(p, "ran") \/ Goto(p, "stage") \/ (AutoProcess /\ Goto(p, "commit"))
          /\ UNCHANGED <<row, bad, settled, failures>>
    /\ UNCHANGED <<offered, stateVars, todo, good, snapSeen, snapAttempts,
                   awaited, dead, faults, clean, offers>>

\* An exception leaves the row's run: gather raises and the pass is over, its
\* results lost; the rows that are left run all the same.
Raise(p) ==
    /\ faults < MaxFaults
    /\ faults' = faults + 1
    /\ CleanIf(FALSE)
    /\ awaited' = [awaited EXCEPT ![p] = FALSE]
    /\ CountFailure(p)
    /\ NextUp(p)

Quietly(p) == Goto(p, "ran") /\ UNCHANGED <<row, awaited, failures, faults, clean>>

\* The row's write is out: at the source, or on an officer's card.
Offer(p) == offers' = IF clean THEN [offers EXCEPT ![row[p]] = IF @ = 0 THEN 1 ELSE 2]
                      ELSE offers

\* commit_auto_process_writes: raises under a halt and when the decision cannot be
\* recorded before or after the write; a write that fails is only recorded.
Commit(p) ==
    /\ At(p, "commit")
    /\ \/ Quietly(p) /\ Offer(p)
       \/ Quietly(p) /\ UNCHANGED offers
       \/ Raise(p)
    /\ UNCHANGED <<offered, stateVars, todo, good, bad, snapSeen, snapAttempts,
                   settled, dead>>

\* _stage_recommendation; a trigger's row has the run's id in its key, so every
\* run adds a card.
Stage(p) ==
    /\ At(p, "stage")
    /\ (Quietly(p) /\ Offer(p)) \/ Raise(p)
    /\ UNCHANGED <<offered, stateVars, todo, good, bad, snapSeen, snapAttempts,
                   settled, dead>>

\* The run is recorded and comes back with fired True.
Ran(p) ==
    /\ At(p, "ran")
    /\ good' = [good EXCEPT ![p] = @ \cup {row[p]}]
    /\ settled' = settled \cup {row[p]}
    /\ NextUp(p)
    /\ UNCHANGED <<offered, stateVars, todo, bad, snapSeen, snapAttempts,
                   awaited, dead, failures, faults, clean, offers>>

\* Mutant: the list of results outlives the pass.
ResetKeepsGood(p) ==
    /\ Goto(p, "idle")
    /\ row' = [row EXCEPT ![p] = NoRow]
    /\ todo' = [todo EXCEPT ![p] = {}]
    /\ bad' = [bad EXCEPT ![p] = {}]
    /\ snapSeen' = [snapSeen EXCEPT ![p] = {}]
    /\ snapAttempts' = [snapAttempts EXCEPT ![p] = NoAttempts]
    /\ awaited' = [awaited EXCEPT ![p] = TRUE]
    /\ UNCHANGED good

\* The pass slot is free again.
Reset(p) ==
    /\ Goto(p, "idle")
    /\ row' = [row EXCEPT ![p] = NoRow]
    /\ todo' = [todo EXCEPT ![p] = {}]
    /\ good' = [good EXCEPT ![p] = {}]
    /\ bad' = [bad EXCEPT ![p] = {}]
    /\ snapSeen' = [snapSeen EXCEPT ![p] = {}]
    /\ snapAttempts' = [snapAttempts EXCEPT ![p] = NoAttempts]
    /\ awaited' = [awaited EXCEPT ![p] = TRUE]

\* Rows of a failed run that have used up their attempts.
GivenUp(p) == {r \in bad[p] : snapAttempts[p][r] + 1 >= MaxAttempts}

\* Mutant: every attempted row is consumed.
ConsumesAll(p) == good[p] \cup bad[p]

\* A tick consumes the rows that ran and those given up, run now all it attempted.
Consumed(p) == good[p] \cup (IF p \in Ticks THEN GivenUp(p) ELSE bad[p])

\* Mutant: the counters of failed rows are not kept.
ForgetsFailures(p) == IF p \in Ticks THEN snapAttempts[p] ELSE attempts

\* row_attempts as a pass leaves it: run now does not count.
NewAttempts(p) ==
    IF p \in Ticks
    THEN [r \in Row |-> IF r \in Consumed(p) THEN 0
                        ELSE IF r \in bad[p] THEN snapAttempts[p][r] + 1
                        ELSE snapAttempts[p][r]]
    ELSE attempts

\* list(seen)[-1000:] of a set: any members may go.
Trim(S) == IF Cardinality(S) <= SeenMax THEN {S}
           ELSE {T \in SUBSET S : Cardinality(T) = SeenMax}

\* A tick writes the whole document from what it read, even when it ran nothing;
\* run now writes the seen keys.
Save(p) ==
    /\ At(p, "save")
    /\ IF p \notin Ticks /\ Consumed(p) = {} THEN UNCHANGED <<seen, clean, offers>>
       ELSE /\ seen' \in Trim(snapSeen[p] \cup Consumed(p))
            /\ CleanIf(seen' = snapSeen[p] \cup Consumed(p))
    /\ dead' = IF p \in Ticks THEN dead \cup GivenUp(p) ELSE dead
    /\ attempts' = NewAttempts(p)
    /\ Reset(p)
    /\ UNCHANGED <<offered, settled, failures, faults>>

\* The last row of a pass that raised has ended.
Vanish(p) ==
    /\ At(p, "next") /\ todo[p] = {} /\ ~ awaited[p]
    /\ Reset(p)
    /\ UNCHANGED <<offered, stateVars, outVars>>

\* The process dies, or the store refuses the save.
Crash(p) ==
    /\ Crashes /\ ~ At(p, "idle")
    /\ faults < MaxFaults
    /\ faults' = faults + 1
    /\ CleanIf(FALSE)
    /\ Reset(p)
    /\ UNCHANGED <<offered, stateVars, settled, dead, failures>>

Proceed(p) ==
    \/ Poll(p) \/ NextRow(p) \/ Fire(p) \/ Commit(p) \/ Stage(p)
    \/ Ran(p) \/ Save(p) \/ Vanish(p)

Next ==
    \/ \E r \in Row : Arrive(r)
    \/ \E p \in Passes : Start(p) \/ Proceed(p) \/ Crash(p)

Spec == Init /\ [][Next]_vars

\* The scheduler keeps ticking (its loop survives a failed tick), and a row's run
\* comes to an end.
Fairness ==
    /\ WF_vars(\E p \in Ticks : Start(p))
    /\ \A p \in Passes : WF_vars(Proceed(p))

FairSpec == Spec /\ Fairness

-----------------------------------------------------------------------------
(* Properties.                                                             *)

\* No row is consumed that no run came back for, unless it failed as often as
\* promised or somebody pressed run now on it, whatever ticks, jobs and orphaned
\* rows overlap and whatever crashes (trigger_runner.py: "SUCCESS-ONLY consume +
\* bounded retry-then-dead-letter").
ConsumedIsSettled ==
    \A r \in seen : r \in settled \/ (r \in dead /\ failures[r] = MaxAttempts)

\* As long as nothing crashes, raises, overlaps or is trimmed, the retries of failed
\* runs put a row's write before an officer or the source at most once.
OnceWhenClean == clean => \A r \in Row : offers[r] <= 1

\* Every row the source offers is run with success or given up in the end, when the
\* seen keys that are kept and one tick's share hold all the rows on offer: neither
\* rows that fail and fill the cap nor finitely many crashes starve another row.
EveryRowSettles ==
    NumRows <= SeenMax + MaxRows => \A r \in Row : r \in offered ~> r \in settled \cup dead

\* The same of any number of rows (trigger_runner.py: "a large backlog drains over
\* successive ticks").  With more rows the trim can bring back those in front for
\* ever: seen keys that were dropped fill the cap before the rows behind them.
BacklogDrains == \A r \in Row : r \in offered ~> r \in settled \cup dead

\* A tick never runs a row again that has failed MaxAttempts times (trigger_runner.py:
\* "until it either succeeds OR exhausts this many attempts").
AttemptsBounded == \A p \in Ticks : At(p, "fire") => failures[row[p]] < MaxAttempts

-----------------------------------------------------------------------------
(* The inductive invariant behind the proofs.                              *)

Working == {"fire", "commit", "stage", "ran"}

\* A pass begins empty, works on one row at a time, and never on one it has seen.
RowsInv == \A p \in Passes :
    /\ pc[p] \in {"idle", "poll"} =>
           todo[p] = {} /\ good[p] = {} /\ bad[p] = {} /\ awaited[p]
    /\ pc[p] \notin Working => row[p] = NoRow
    /\ todo[p] \cap (snapSeen[p] \cup good[p] \cup {row[p]}) = {}
    /\ pc[p] \in Working => row[p] \in Row \ (snapSeen[p] \cup good[p])

\* What a pass would consume is settled, and it has not counted a failure twice.
Consumable(S) == \A r \in S : r \in settled \/ (r \in dead /\ failures[r] = MaxAttempts)

PassInv == \A p \in Passes :
    /\ Consumable(snapSeen[p])
    /\ good[p] \subseteq settled
    /\ p \notin Ticks => bad[p] \subseteq settled
    /\ \A r \in Row : snapAttempts[p][r] <= failures[r]
    /\ p \in Ticks => \A r \in bad[p] : snapAttempts[p][r] < failures[r]

\* While nothing went wrong one pass is under way, and every offer is remembered.
CleanInv == clean =>
    /\ \A p, q \in Passes : ~ At(p, "idle") /\ ~ At(q, "idle") => p = q
    /\ \A p \in Passes : ~ At(p, "idle") => snapSeen[p] = seen /\ awaited[p]
    /\ \A r \in Row : offers[r] # 0 =>
           \/ r \in seen
           \/ \E p \in Passes : r \in good[p] \/ (At(p, "ran") /\ row[p] = r)

IInv ==
    /\ TypeOK /\ RowsInv /\ PassInv /\ CleanInv
    /\ \A r \in Row : attempts[r] <= failures[r]
    /\ ConsumedIsSettled /\ OnceWhenClean
=============================================================================
