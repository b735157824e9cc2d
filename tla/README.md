# Verification of the Citra decision system

TLA+ models of the parts of Citra where steps of several actors meet: the durable
job queue, the poll triggers that turn the rows of a source into runs, the officer
queue in which recommendations are staged, approved and replayed against the
customer's system of record, the leader lock of the background loops, the kill
switch, the clauses that are learned from officers' corrections, and the versions of
an app's specification. Each module models code, TLC checks it on small instances,
and TLAPS proves the central invariants for every value of the constants. `PROJECT.json` ties every
definition to the lines it models, every property to a mutation of the code that
it catches, and every hazard to the properties that watch it.

Paths below are relative to the repository root. SAS is `smart-app-service/`.

## 1. The system

Agents triage cases (loan applications, claims, meter disputes) from a system of
record that is only reached through department MCP servers. A *run* of an app
ends with a recommendation that contains `planned_writes`. An officer approves,
rejects or cancels it; an approval replays the writes. Apps can also be fired by
poll and cron triggers and, if a policy allows it, commit low-risk writes without
an officer. Everything is recorded in an audit chain and in DecisionRecords, and
officers' corrections are folded into a clause memory. Apps are built in a test
store, shipped to a production store, edited and rolled back there, and can be halted
at any time.

| Component | State | Operations | Hard behaviour | What makes it correct |
|---|---|---|---|---|
| Durable queue, `citra-common/citra-queue` | Redis: job hash, stream and its pending entries, retry ZSET, dead-letter stream | enqueue, promote, consume_one, claim_stale, mark_running, mark_done, mark_failed | crash between two commands, redelivery, crash loops, visibility timeout | an accepted job is completed or dead-lettered, "done" is true, a job runs twice at once only because of a batch that waits |
| Trigger consumer, SAS `trigger_queue.py` | two asyncio tasks per process | drain loop, reclaim loop, `_process` | batches worked through while their idle clocks run | as above |
| Officer queue, SAS `main.py`, `item_records.py` | staging row per recommendation, item ledger, audit trail, DecisionRecord | stage, persist items, disposition, approve, reject, cancel, expire | double clicks, re-runs that replace the row, failed or unanswered writes, retries | no record created twice, "applied" is backed by effects and an audit row, a resolution is final for whoever comes later, the review gate holds |
| Source MCP, `source-mcp-template/` | system of record, idempotency keys seen | execute_action | lost answers | a repeated apply key of a `create` commits nothing; `update`, `upsert` and `delete` do not look at the key and execute again |
| Trigger runner, SAS `trigger_runner.py` | per trigger: seen_keys, row_attempts, last_fired_at | tick, run now, fire and persist | overlapping ticks, exceptions half way through an app list, bounded seen list | no row is consumed that was not dealt with, every row of a backlog that fits is dealt with, none is offered twice unless something went wrong |
| Leader election, SAS `main.py` | Redis key with a time to live, a flag in each instance | acquire, renew, relinquish | GET-then-SET renewal, a stalled leader, failed commands with unknown effect | at most one instance runs the singleton loops, a dead one is replaced |
| Auto-process, SAS `auto_process.py`, `main.py` | policy, per-write ledger | gate, guardrails, commit | an exception after a commit | a row's write is committed once |
| Kill switch, SAS `automation_control.py` | control documents, a 5 s cache per process | set_control, check | stale or concurrently refilled cache, fail-open read | a halt takes effect in every process within the life of a cache, at once in the process that set it |
| User lifecycle, SAS `lifecycle_queue.py`, User Service | apps' owners, deletion requests, jobs | deactivate, inherit, delete, restore | foreign jobs left unacknowledged, reordered jobs, manual transfers in between | every app ends with a live owner or as its owner asked |
| Clause memory, SAS `clause_store.py` | clauses: status, provenance, counters, challenge | create, reinforce, measure, challenge, resolve, reinstate, quarantine, retire, reconcile | read-modify-write of whole fields while people change the status | evidence is not lost or counted twice, the promotion gate holds, a hold stands |
| Corrections and consolidation, SAS `corrections.py`, `consolidation.py` | ledger of corrections, one pass per bucket | record, judge, consolidate | a pass takes minutes, may die anywhere, and may overlap a run-now | every lesson lands |
| Publishing, promotion, rollback, SAS `main.py` | app and agent document and history of snapshots, per store | publish, edit, confirm, promote, roll back, switch a trigger | two documents without a transaction, whole-document writes of what was read long before | a released version stays restorable, what ships was tested together, nothing arms a trigger but a person |
| Agent runtime, item pass, data tools | none that outlives a run | the tool loop | LLM output | appears as a nondeterministic outcome |
| Auth, cache, LLM budgets, UIs, discovery, RAG chat | revocation cache, counters, sessions | | | not part of the decision core |

How they interact: producers call `enqueue`, the consumer's handler fires
`run_app`, which stages a recommendation; officers' HTTP requests act on the
staging row and call the source's MCP. The scheduler that ticks the poll triggers and the
loop that consolidates corrections run where the leader flag is set; runs, approvals,
commits and trigger intake ask the kill switch first; triggers are those of the spec that
is live. Every process is an asyncio program over
Redis and MongoDB, so two handlers interleave at each `await`; processes share
nothing but the stores.

## 2. Modules

| Module | Models | |
|---|---|---|
| `JobLedger` | what the queue promises about an accepted job | abstract specification |
| `DurableQueue` | `queue.py` and `trigger_queue.py`, command by command | refines `JobLedger` |
| `DurableQueueMC` | symmetry for TLC | |
| `DurableQueueProofs` | theorems about `DurableQueue` | TLAPS |
| `Recommendations` | what the officer queue promises of a recommendation | abstract specification |
| `ApprovalQueue` | staging and the approve/reject/cancel handler, await by await | refines `Recommendations` |
| `ApprovalQueueMC` | model values, one case, symmetry | |
| `ApprovalQueueProofs` | theorems about `ApprovalQueue` | TLAPS |
| `TriggerRunner` | one poll trigger: ticks, run now, row runs, auto-commit | |
| `TriggerRunnerMC` | model values | |
| `TriggerRunnerProofs` | theorems about `TriggerRunner` | TLAPS |
| `LeaderElection` | the election loop of each instance, command by command, with time | |
| `LeaderElectionMC` | model values | |
| `LeaderElectionProofs` | theorems about `LeaderElection` | TLAPS |
| `KillSwitch` | halt records, the caches, the check before an operation, with time | |
| `KillSwitchMC` | which process and app an operation belongs to, what stops an app | |
| `KillSwitchProofs` | theorems about `KillSwitch` | TLAPS |
| `ClauseMemory` | corrections, clauses, the consolidation pass and people's requests | |
| `ClauseMemoryMC` | who made which correction and what it teaches | |
| `ClauseMemoryProofs` | theorems about `ClauseMemory` | TLAPS |
| `SpecVersions` | one app's documents in both stores, its history, the requests on them | |
| `SpecVersionsMC` | model values, symmetry | |
| `SpecVersionsProofs` | theorems about `SpecVersions` | TLAPS |

The modules meet at interfaces that are kept abstract: `TriggerRunner` takes from
`LeaderElection` whether ticks may overlap (`Overlap`), and a halt is, in
`ApprovalQueue` and `TriggerRunner`, a refused request or an exception.

Each `.tla` file keeps, next to the definition of a step, the mutant of that step
(`AnyPending` next to `MayBeIdle`, and so on): the bug a property is meant to
catch, written down so that it can be put in the step's place.

### DurableQueue and the code

`status` is the job hash's field, `entry` the stream with its pending-entries list
(delivery count, owner), `retry` the ZSET of blobs, `dlq` the dead-letter stream.
A task is a pair of a process and a loop: `<<p, "drain">>` or `<<p, "reclaim">>`.
`pc` says which Redis command of `mark_running`, `mark_done`, `mark_failed` or
`claim_stale` comes next; each command is one action, and `Crash(p)` may come
between any two.

* `Enqueue`, `Promote`: the pipeline and the Lua script, atomic in Redis.
* `Read`: `consume_one`, and the drain loop's rule that a job of another handler
  fails permanently.
* `Claim`: `XAUTOCLAIM` of idle entries, the delivery-count lookup through a
  *separate* `XPENDING` range of the first `count` entries (`Probe`), which may fail and then
  counts nothing (`Counted`), the budget, and the split into entries to dead-letter and entries to run.
* `MarkFailed`, `AckFailed`, `Park`: status, then XACK, and only then the retry
  ZSET or the dead-letter stream. `MarkDone`, `AckDone`, `Signal`: inside the
  `try` block, so an error turns a success into a transient failure.
* `NextJob`, `Abandon`: the reclaim loop goes through its batch in order; an
  exception drops the rest of it.

Time is abstract: a parked retry may be due at once, and `MayBeIdle` says which
entries the clock may call idle. With `SlowRuns = FALSE` an entry is idle if
nobody holds it, or if its holder is past the first member of its batch, since
the later members' clocks ran while they waited.

### ApprovalQueue and the code

A row is named by the run that wrote it. A run (`StageLook`, `StageInsert`) looks
for a pending row of its case and replaces it, or inserts; the row it replaced is
"gone", as no correlation id leads to it. `PersistItems` then writes the item ledger
and may fail silently. `ReviewItem` stamps the *newest* ledger row of the item, as
`record_item_disposition` does. A request is one handler invocation that goes
through the awaits of `_approve_workflow_staging`: `Read` (and never again),
`Expire`, `Gate`, `MarkStale`, one `WriteOne` per planned write, `Audit`,
`RecordApproval`, `Finish`, or `Resolve` and `RecordReject`. `WriteOne` has three
outcomes: committed, refused, committed with the answer lost. `Refuse` ends a
request anywhere: a rejected override or a dead process.

`Commit` is what the repository's own source, `source-mcp-template/catalogue.py`, does with a
write: a `create` (a member of `Creates`) that brings a key a create brought before is answered as
a replay and changes nothing (1858-1892); every other verb is executed, however often it comes
(1896-1930). `Replayed` says which writes the source takes for one (`SameKey`, `Keyless`).
Requests overlap as they like: no lock is taken on a row, and the only thing a request
knows of it is what it read. `Contested` are the rows that were resolved or replaced while a request
that had read them pending was still at work; the others that are over are `Settled`.

`Standing` maps a run's row to `Recommendations`: "open" while it is pending, overdue or not,
otherwise its status; `writes` is what took effect in the system of record, `trail` the audit
rows, `contested` the contested rows, for which `Recommendations` still allows writes and another
resolution until the last of those at work has ended (`Settle`). The moment of `Recommendations!Commit` is thus the source's commit, whether or not its answer
arrives, and `Apply` is the write of the status at the end of the handler.

### TriggerRunner and the code

A pass is one call: an iteration of `tick_once` for this trigger, or a run-now job
(`_fire_trigger_job` and `run_trigger_once`). `seen` and `attempts` are `seen_keys` and
`row_attempts` of the trigger's state document; `snapSeen` and `snapAttempts` are what a
pass read of it, and `Save` writes the whole lists back from there, as the code does.

* `Start`, `Poll`: read the document, then poll and take the first unseen rows, up to
  the cap. The scheduler's own ticks follow one another unless `Overlap` is set (the
  `/scheduler/tick` endpoint, a stalled leader); run-now jobs overlap them freely.
* `NextRow`, `Fire`: rows one at a time (the default concurrency); the agent's failures are
  caught in `_fire_and_persist` and come back as `fired: False`.
* `Commit`, `Stage`: what happens after the agent is not caught there. `Raise` is gather's
  way with such an exception: the pass is over at once (`awaited` is false), its results are
  lost, and the rows that wait for the semaphore run all the same, unobserved. `Vanish`
  is the end of the last of them.
* `Save`: success-only consume, counters, give-up, trim of an unordered set.

Which write a policy lets pass is left open: a run may commit, stage or plan nothing.
A row stays on offer once it turned up, its key is stable, and it leads to one planned
write at most. A poll that fails only moves `last_fired_at`, which is not modelled.

### LeaderElection and the code

One instance is one process; its id is drawn at every start, so a restart is a new
instance. `Acquire` is `SET NX PX`, `Look` the `GET`, `Extend` the `SET XX PX`; a round
that ends in `Rest` sets the flag and waits. `Error` is any exception of a round, after
which the command may or may not have been executed (`Executed`); the flag drops and
the loop goes on. `Leave` is a crash or a shutdown: the latter cancels the task before
it can give the lock back, whatever the comment at `main.py:669` says, so the key
stays until it expires. Nobody looks at the answer of `SET XX`, so a renewal that comes
after another instance took the key overwrites it (`SetIfHeld`), and one that finds no
key sets the flag all the same. No clock is kept, only what is left of each delay:
`left` of the key, `due` of each instance. Members of `Stallers` may be late without
limit; everybody else's round takes `Lag` ticks at most.

### KillSwitch and the code

`halts` are the enabled documents, `cache` and `age` the module's `_cache` in each
process. A check is `Ask` (a usable cache decides at once), `Find` (the store answers),
`Fill` (the answer goes into the cache, stamped with the time the read *began*, and is
acted on), or `FailOpen`. `set_control` is `Set` and later `Invalidate`, or `SetFails` in
between. What a check lets pass may act for as long as it likes: `commit_auto_process_writes`
asks once before its loop of writes. Which of several records words the refusal is left
out.

### ClauseMemory and the code

One bucket of one app. Texts, scopes and fingerprints are abstracted: the corrections that
teach one lesson form a cluster. Which clause a cluster is matched with is left open: the code
(`consolidation.py:490-544`) takes any clause in service whose words overlap enough and whose scopes fire
together, whatever it says, over words that every fold widens, and so may miss a cluster's clause or hit another's.
Which clauses are at odds or near-identical, and whether a
correction makes a clause look bad, is left open too. `held` is quarantined or retired.

* A pass: `ReadPending`, `ReadClauses` (once, at the start), then for each cluster `Match`
  and `FoldRead`, `FoldWrite` (`reinforce`), or `Undertake`, `Author` (the model writes the
  text, which takes minutes) and `Insert` (`create_clause`), then `Consume`; a cluster that
  is too thin is passed over. Then `Measure`, `Rate`, `Park` for performance, and `Refresh`,
  `Dissent`, `Absorb` for contradictions and merges. `Abort` is its death anywhere.
* People: `Hold`, and requests of one read and one or two writes: `Challenge`, `Resolve`,
  `Reinstate`, `Reconcile`, then `Note` and `SetStatus`. `Drop` is the death of a request.
* `Record` and `Judge` are the ledger: a new correction, a new row that speaks for or
  against a clause. Counters are not stored; `excused` is the set of clauses reinstated
  while their totals were under the floor and not mentioned by a row since. `torn` are the
  clauses of which a fold overwrote what another pass had folded in since its read, which only
  overlapping passes bring about; `ConsumedIsCited` and `ActiveIsEarned` exempt them.

### SpecVersions and the code

Each store has the app document (`version`, `spec`, `armed`: the triggers enabled), the
agent document (`agent`) and the history `revs`. A request is begun by the read of the
app document and keeps what it read (`base`, `read`), what it will write (`text`, `mind`,
`armed`) and the agent as its snapshot read it (`old`). A text is the number of the
request that wrote it.

* `Publish`, `Edit`, `Confirm`, `Rollback`, `Promote`, `Switch` begin; `Refuse` stands for
  all validation, authorisation and gates before the first write.
* `Find`: a rollback's target. `Meet`: the production app a promote replaces.
* `Snap`, `KeepRev`, `Trim`: `_snapshot_prior_version`, a read, an upsert and a trim.
* `WriteApp`, then `WriteAgent` if there is an agent to write; a promote does `Copy`,
  `WriteAgent`, then `WriteApp`. A confirmation (`Stamp`) and the trigger switch
  (`SetSpec`) write the app document only, by `$set`.
* `Die`: a crash or a failed store between any two of these, from the snapshot on.

`released`, `fresh`, `asked`, `crowded` and `torn` are history: what each version was when
the request that made it ended, whether test is as a promote read it, which triggers a
person asked for, and the stores on which requests overlapped or a promote died between
its two writes.

## 3. Runs

The queue runs and the clause runs turn deadlock checking off: once every job is
settled, every correction learned, or the bound on stream ids or on what people do is
reached, those systems really stop. The other runs keep it on.

| Run | Result | What it shows |
|---|---|---|
| `queue_contract` | holds | With crashes anywhere but in mark_failed's gap, runs shorter than the visibility timeout and batches of two, the queue implements `JobLedger`, and a second run of a job only ever comes about while a task is at a later member of a batch. Two processes, two jobs, retries, four stream ids: two tasks of each process contend for both jobs. |
| `queue_settles` | holds | Liveness: under fairness every accepted job completes or is dead-lettered, including crash loops and a job for another handler; nobody is handed an entry beyond its delivery budget. |
| `queue_faults` | holds | One process, every kind of fault and slow runs (its two tasks still race): the only step that loses a job is a fault between the ack and the park, and "done" is only shown for a job that ran. It checks the inductive invariant of the proofs. |
| `approvals` | holds | Two overlapping requests, two runs of one case, one write that creates and one that updates: applied and committed are backed, a resolution is final but for requests that had read the row pending, and the queue implements `Recommendations`. It checks the inductive invariant of the proofs. |
| `approvals_lost_write` | violated | Two writes that share the fallback apply key. Finding 1. |
| `triggers` | holds | A tick and a run-now job over two rows, one of them per pass, failing runs, one crash or escaped exception, and a seen list with room for one key only: nothing is consumed that was not dealt with, nothing is offered twice while all goes well, and every row is dealt with in the end. It checks the inductive invariant of the proofs. |
| `triggers_starved` | violated | A third row: the trim and the cap bring back the two in front for ever. Finding 3. |
| `leader` | holds | Three instances, one of which may stall without limit, failed commands, lost answers, crashes and shutdowns: a leader that is not stalled holds the key but for one round after a late renewal, only a stall or a failed command makes a renewal late, and a dead leader is replaced. It checks the inductive invariant. |
| `halts` | holds | Halts are set and lifted in two processes while checks read, refill and lose the cache: a halt, and its lifting, is obeyed within the bound, unless the store cannot be read, and at once by the process that made it. It checks the inductive invariant. |
| `clauses` | holds | One pass at a time, which may die anywhere, and people who challenge, resolve, reinstate, quarantine and retire meanwhile: what is consumed is cited, an active clause has the officers, a hold stands, and every lesson lands, whichever clause a cluster is matched with. It checks the inductive invariant. |
| `clauses_reinstate` | violated | A reinstated clause is parked again without a new row. Finding 2. |
| `versions` | holds | All six requests on both stores, one of which may die half-way: a released version stays restorable, app and agent together, a rollback restores exactly that, a promote ships what was in test together, and only a person's request arms a trigger. It checks the inductive invariant. |

### Bounds

*Stream ids* (`MaxEntries`): the only cap on an unbounded counter. An id is used by
an enqueue and by each promotion, so two jobs with two attempts need four;
when they run out `Enqueue` and `Promote` are
disabled and the rest of the system goes on. In `queue_settles` four ids are enough for
every promotion, so the bound never blocks the liveness it checks. *Delivery
count*: `Bump` stops telling counts apart once they exceed the budget. *MaxRetries* is
2 or 3: first attempt, retry, last attempt. *ClaimCount* is 2 where the code has
16, the smallest batch in which somebody waits.
*Effects* of a write are counted up to "twice or more". *Approvals*: two requests are what
a double click, or a rejection that meets an approval, needs; two runs of one case
let a re-run replace the row under a request; two writes, of a create and of another verb, let one fail after
another was committed. In `approvals_lost_write` both are creates, as the replay is theirs only. *Triggers*: two rows, one per tick and one kept key: the cap leaves a row behind at every poll, and the trim
binds as soon as both are consumed; a third row is the smallest backlog that the trim and the cap
starve (in the code, more than 1000 consumed rows on offer); two attempts are one failure that is retried and one that gives the row up;
`failures` stops counting at `MaxAttempts` and `offers` at two, where no property looks
further; one crash or exception is enough to orphan a pass's rows while the next tick runs,
and the poison row needs two. Three passes at once were also explored
for the safety properties.

*Leader*: TTL 4, a wait of 2 and a lag of 1 are the smallest values for which a wait, a round and a wait do
not fit into the key's life while `Renew + Lag < TTL` holds, as it does for 30 s, 10 s and
short commands; three instances, so that the
key can pass to a third while a staller's renewal is under way; two failed commands, one
for each of two leaders. *Kill switch*: a cache life of 2 ticks and an answer after at most 1,
so that a reading may be young, old, or too old; two operations that read at the same time
in one process, a second process that only sets and lifts, a scope for every app and one
for one of them. *Clauses*: two lessons, one of them of two
officers, one correction too brief to learn from alone, room for a third clause, as any cluster may miss its
own; one death of a pass and two actions of people, which is a challenge and its resolution or a
parking undone. Four corrections and two clauses were explored too (1.3 million states), and two
overlapping passes over two corrections (3.3 million); passes that overlap are otherwise the
theorems' part.
*Versions*: two texts and three versions, with a history of one: a publish, an edit or a
rollback, and one more request that would damage either; two requests at work, one on each
store or both on test and production as a promote is; one death. Production is bounded to two
versions (`MaxShipped`), since its code is the one that test runs with three. A history of two
and four versions were explored as far as 8 million states, and so were overlapping requests on
one store (`MayOverlap`), from which the properties exempt the store (`crowded`). Symmetry is
used for requests, processes and jobs, which no definition orders, and not in the liveness run.

### Fairness

`queue_settles` assumes what the loops do: a process that is up goes on with what it
holds (weak fairness of `Work`), reads on and reclaims (strong fairness, since a
crash disables a loop for a while), and retries are promoted by the loop that
reads. The claim is fair per entry: XAUTOCLAIM walks entries in id order from
`0-0`, and the entries in front leave it when they are acknowledged or
dead-lettered. Strong fairness of `ReapAdd` and `ReapAck` says that processes do
not die for ever between the same two commands of the dead-lettering: there is no
delivery budget behind that one. Producers, crashes and Redis errors are not
fair.

`triggers` assumes that ticks keep coming, since the scheduler loop catches whatever a tick
raises and goes on, and that a row's run ends, since its model and source calls have
timeouts. Weak fairness suffices: a pass in progress always has a next step. Rows turn up,
crashes and exceptions happen, and people press run now without fairness. That rows do not
starve behind failing ones depends on their being given up, and on their number (`NumRows <= SeenMax + MaxRows`); the number of crashes and
exceptions is finite in the model; what happens when it is not is described under "Found
and not kept as runs".

`leader`: time passes and every running instance takes its next step (`Tick`, `Step`). A staller
is delayed without limit but not for ever. Starts, errors and deaths are not fair.

`clauses`: the loop wakes every `CONSOLIDATION_INTERVAL_SECONDS` for as long as some instance leads,
its age threshold lets every bucket through in the end, and it catches what a pass raises (weak
fairness of `Consolidate`). `Author` is strongly fair: the language model may fail often, not
always. It is also assumed that learning is not paused for ever. Nobody is made to act.

## 4. Proofs

TLAPS checks seven modules, for any number of jobs, processes, ids, retries, runs,
requests, writes, rows, passes, instances, clauses, versions and delays, every fault switched
on unless a theorem says otherwise. Each has one lemma per action for its inductive invariant.

`DurableQueueProofs`, from the assumptions `ConstantsOK` and `NoTaskIsNoTask`:

* `Invariant`: `IInv` is inductive. `DoneMeansRan` alone is not: a task at "ackDone" must
  be known to hold a job that has run (`RunsOK`), a held id must be a used one
  (`HandsOK`), a used id must hold a real job (`StreamOK`), and nothing may be known
  of a job that was never accepted (`OnlyAccepted`).
* `TypeCorrect`, `DoneIsTrue`: `TypeOK` and `DoneMeansRan` follow.
* `OnlyTheGap`: `OnlyTheGapLosesJobs`, step by step over the actions; each either
  keeps what holds the job or replaces it (an ack by a park, a parked blob by
  an entry, a reaped entry by a dead-letter).
* `NoneLost`: if `GapFaults = FALSE`, `NoJobLost` always holds.
* `Implements`: if `GapFaults = FALSE`, every behaviour of the queue is one of
  `JobLedger` under the mapping `Standing`.
* `LateRunsTwice`: `OnlyLateRunsTwice`, if runs are shorter than the visibility timeout
  (`SlowRuns = FALSE`, the condition `queue.py:93` states) and Redis answers, for batches of any size:
  while nobody works on a later member of a batch (`NobodyLate`), no step leads to a second run of
  a job, nor to the second copy that would. The invariant is `OnceInv`: what a task is done
  with it does not hold (`TidyInv`, which is theorem
  `Tidy` without any condition); an entry has one holder, the owner Redis has for it, until it is
  acknowledged (`HolderInv`); a job has one copy, an entry or a parked retry (`CopyInv`). The last
  is what carries an entry over a retry: the blob is parked after the ack, and the promotion, one
  script, removes it as it adds the entry. `RedisErrors = FALSE` is needed because an ack whose
  error is swallowed, followed by the park, leaves two copies. Crashes may come anywhere.
* `RunsOnceUntilLate` and `Once`: under the same conditions `OnceInv` and `NoDoubleRun` hold
  until then. That work on a later member does lead to a second run is the reclaim loop's
  sequential run of a batch (section 5).
* `WithinBudget`: nobody is handed an entry beyond its delivery budget, as long as the pending
  entries fit in the range of `XPENDING` (`InProbe`) and Redis answers: a lookup or a dead-lettering
  that raises is caught, and the entry is handed out whatever its count. `InProbe` is an assumption on
  the behaviour and not on a constant: the code asks for the counts of the first `ClaimCount`
  pending entries, and an entry behind them is taken as delivered once.

`ApprovalQueueProofs`, from `ApprovalConstants`:

* `Invariant`: `IInv` is inductive. `AppliedIsBacked` needs `ReplayInv` (while nothing failed,
  every write before the loop's position took effect, and past the audit step there is
  an audit row), which needs the loop's position (`PositionInv`); `CreatedOnce` is what the source's
  dedup of creates comes to.
* `TypeCorrect`.
* `ApplicationsAreBacked`: `AppliedIsBacked` if `Keyless = {}`; finding 1 is the
  other case.
* `ResolutionsAreFinal`: `ResolvedIsFinal`, however requests overlap: a request that comes to a settled row
  is turned away by what it reads, so a settled row stays settled.
* `Implements`: every behaviour of the queue is one of `Recommendations` (`KeepsTheRegister`), with
  no assumption on requests, verbs or keys. The invariant is taken before and after each step: what is
  audited is complete by `ReplayInv`, unless its writes share keys (`Keyed`), and a request that still writes is
  on an open or a contested row.

`TriggerRunnerProofs`, from `TriggerConstants`:

* `Invariant`: `IInv` is inductive. `ConsumedIsSettled` needs `PassInv`: what a pass read is
  settled, what it counts as good is, and a counter it read is strictly below the failures of a
  row it saw fail, so that a given-up row has really failed `MaxAttempts` times although
  several passes write the counters from old copies. `OnceWhenClean` needs `CleanInv` (one
  pass at a time, whose copy of `seen` is current, and every offer is on a list) and
  `RowsInv` (a row is on one list of a pass at a time and on none it has seen).
* `TypeCorrect`, `ConsumesTheSettled` (`ConsumedIsSettled`), `OffersOnce` (`OnceWhenClean`).

`LeaderElectionProofs`, from `LeaderConstants` (above all `Renew + Lag < TTL`):

* `Invariant`: `IInv` is inductive. `LeadersHoldTheLock` needs `LeaseInv`: what is left of a
  leader's key is more than what it may still take until its next renewal, and where another's
  late renewal took the key away, the time of trouble is longer than that.
* `LeadersHold`, and from it `OneLeader`: of the instances that are not stalled, one believes it
  leads. `OnlyFaults` needs `KnownInv`: without a failed command whoever holds the key knows it.

`KillSwitchProofs`, from `KillSwitchConstants`:

* `Invariant`: `IInv` is inductive. Its heart is that a reading n ticks old, in a cache or on its way
  to one, is what the store has held within the last n ticks (`HeldSince`).
* `HaltsTakeHold`, `LiftsTakeHold`: the bound is max(CacheTTL - 1, MaxRead) and not their sum, since
  a reading is stamped when it begins. `OwnHaltsHold`.

`ClauseMemoryProofs`, from `ClauseMemoryConstants`, for any number of passes, however they overlap
among themselves and with people's requests:

* `Invariant`: `IInv` is inductive. `ConsumedIsCited` needs `PassInv` (a clause about to be stamped on
  the corrections of a cluster cites them, unless it is torn) and that the provenance of a clause that
  is not torn only grows; `ActiveIsEarned` needs `AskInv` (a request that will set a clause to active saw
  the officers it needs); `HoldsStand` needs `HoldInv`.
* `Cited`, `Earned`, `Holding`. The first two do not speak of torn clauses, for which the code
  breaks them (section 5).

`SpecVersionsProofs`, from `SpecVersionsConstants`, with any overlaps and deaths:

* `Invariant`: `IInv` is inductive. Where requests take turns, what a request read is what is there
  (`CurrentInv`), no snapshot is ahead of the app (`AheadInv`), a snapshot of a released version is the
  release (`RevInv`), and the live version is untouched unless a promote is in its gap (`LiveInv`). The
  count of `Trim` is used once, in `NearIsSpared`: a version that is `Due` is among the `Keep`
  highest that are filed.
* `ReleasesKept`, `Restored`, `Shipped`, `Armed`, `TypeCorrect`.

Only model-checked: the four liveness properties `EveryJobSettles`, `EveryRowSettles`, `Failover` and
`EveryLessonLands`, as liveness under fairness is out of the prover's reach. Every other property
of a passing run is a theorem.

## 5. Findings

1. `main.py:9322`. Without plan keys two writes of one action share an apply key; the
   second is answered as a replay and the row is applied without it.
   `approvals_lost_write`.
2. `clause_store.py:1309`. `reinstate_clause` zeroes the counters, but the next pass recounts
   the whole ledger, overwrites the zeroes and parks the clause again without a new row; the
   docstring (1280-1286) promises "a genuine re-measurement window". `clauses_reinstate`.
3. `trigger_runner.py:549`. The seen keys are trimmed to 1000 members of an unordered set, so once more
   consumed rows than that are still on offer, keys of rows in front of the poll's result are dropped, are new
   again at the next tick, and fill its cap (805) before the rows behind them, for ever; the docstring promises that
   "a large backlog drains over successive ticks" (790) and that "capped-out rows are picked up next
   time" (794). `triggers_starved`.

### Found and not kept as runs

Each of these is a definition or a small change of a configuration away, and TLC finds
the violation.

* `queue.py:548`. `mark_failed` acknowledges and only then parks or dead-letters; a fault in
  between loses the job, although the module's docstring (line 25) says "so the job is
  retried, not lost". `NoJobLost` as the invariant of `queue_contract` with
  `GapFaults = TRUE`. `OnlyTheGapLosesJobs` says that nothing else does.
* `trigger_queue.py:123`. The reclaim loop runs up to 16 claimed jobs in sequence; those that wait
  outlive the visibility timeout and are run by a second process, although no run is longer than
  the timeout, which is all the comment (`queue.py:93`) asks for. `NoDoubleRun` in
  `queue_contract` with `MaxRetries = 3` and `MaxEntries = 2`. `OnlyLateRunsTwice` says that
  nothing else does it.
* `main.py:9475`. The row is read once; two overlapping approvals both pass the guards and the
  second fires writes of an applied row ("we should not even ATTEMPT a re-write", 9473).
  `AppliedFiresNoMore` as a property of `approvals`. The source answers a create that comes again as a
  replay; an update is executed again. A rejection that overlaps an approval (9619) is the same race:
  the row ends as rejected with its writes committed. `ResolvedIsFinal` says who may do so and for how long.
* `main.py:9574`. A row is approvable before its item findings are in the ledger the gate looks at,
  and writing them may fail silently, although the gate "must therefore be enforced HERE" (9558).
  `GateHolds` as a property of `approvals`.
* `trigger_runner.py:835`. An exception from the auto-process commit or from staging is not caught per
  row: gather raises, the tick ends before the counters are saved and the triggers behind this
  one wait. The row is run anew at every tick and never given up, although the commit's comment
  (`main.py:11003`) has it recorded, retried and eventually dead-lettered. `AttemptsBounded` in
  `triggers` with one pass (`Passes = Ticks = {p1}`), `SeenMax = 2`, `MaxFaults = 2`,
  `Crashes = FALSE`.
* `main.py:15669`. The run-now of the consolidation is not leader-gated and may overlap the loop's
  pass, in the same process or another: `reinforce` writes back provenance and officers as it read
  them, so a correction ends as consumed by a clause that does not cite it, and a clause as active on
  officers whose corrections it lost. `ConsumedIsCited` and `ActiveIsEarned` in `clauses` with
  `torn` dropped from them, `Passes = {loop, now}` and `MaxActs = 0`.
* `main.py:4746, 4777`. A promote that dies between the agent and the app leaves production with the
  new agent under the old app, and the snapshot of the next request, its retry included, files that
  pair as the old version, over the good snapshot if there was one ("we never silently overwrite a
  version we failed to preserve", 1797). `NoReleaseLost` in `versions` with `torn` dropped from `Orderly`.
* `main.py:5445, 5758, 16054`. Requests on one store that overlap write whole documents from what they
  read: version numbers are used twice and even go back ("the version counter never rewinds", 5649),
  a release is lost, a trigger that a rollback disabled is armed again by somebody's switch of another
  one. `NoReleaseLost` and `ArmedByHand` in `versions` with `MayOverlap = {"test", "prod"}` and
  `crowded` dropped from both.

### Read but not run

*Approvals*: the ghost-reference guard (`main.py:9807`) asks each planned write for a
`source_id`, which plans for app-owned overlay records never have, so such a
recommendation can only become stale and the overlay branch of the replay is unreachable;
and the dry-run re-validation that the staging comment relies on only happens for
overridden fields (`main.py:9325`), so a plan staged against an older record is committed as it stands.

*Triggers*: a write that auto-process failed to commit is only noted in its ledger, the run still
counts as `fired` and the row is consumed; the row-stable key guards a repeated auto-commit, but a
re-run after a crash may *stage* the write that the first run committed, and the officer's approval
then carries another key (`trigger_runner.py:592` only speaks of the former case); the key contains
the write's position among those committed, which another plan shifts; and `_fire_trigger_job`
returns normally when the agent's run failed, so a queued webhook is never retried for that.

*Leader*: a tick in progress is not stopped when the flag drops, so ticks of two instances may overlap
after a Redis error; on shutdown the lock is not given back, since its task is cancelled first.

*Kill switch*: the fires of the poll and cron scheduler are never checked, although the docstring
(`automation_control.py:11-12, 21-22`) says "before every run / autonomous write / trigger fire";
what they run is only stopped at an auto-process commit.

*Clause memory*: `record_dissent` never fires, for the projection of the aggregation
(`consolidation.py:1361`) leaves out the fields it is computed from (1376-1378), and the test's double
ignores projections; no conflict with an SOP is ever found, as the loop passes no checker; there is no
route out of quarantine (`main.py:12295` calls it reversible); a dissented clause never returns to
active; a pass reads the 500 oldest pending corrections, so that as many that are never consumed hide
everything newer; and a fold that matched a clause before somebody put it on hold still adds to it.

*Versions*: the trigger switch and changes of owner or audience write `app_spec` without a new version, although the
comment on confirming (`main.py:5540`) speaks of "every other write to app_spec"; an edit or a
rollback that read the app before an archive or a transfer of ownership takes that back; a request
that dies after its snapshot costs one version of history; a first publish that dies between app and
agent leaves an app whose agent is missing, and a promote ships it, although the comment (4735) says
"so the prod app never points at a missing agent".

*User lifecycle*: `lifecycle_queue.py:135, 170` match apps by a top-level `owner_id`, which
published apps do not have; inheritance by `_id` (122) may overwrite a transfer made by hand; nothing
sets a deletion request to "applied".

*Audit trail*: two audit rows of a tenant written at the same time read the same `prev_hash` and fork
the chain (`main.py:7962`). *Circuit breaker*: half open, it lets every concurrent call through, and a
late success of an old call closes it.

## 6. Not modelled

Inside the modelled parts: the trim of the dead-letter stream at 10000 entries, job
hash TTLs, depth gauges; tenant and role checks, the display hash (the plan of a row never
changes, a re-run makes a new row), overrides, the contents of writes and
records, which of several items is under review (one stands for all). The set of
writes that count as two actions of one kind is a parameter (`Keyless`), not computed
from arguments. Two pending rows of one case can exist, and the model has them;
what each means for the other is not stated as a property. Cron and interval slots
(`last_fired_at`). Selection and rendering of clauses, which only read, the migration of scopes
through aliases, the merging of texts. Archive and restore, transfer, audience, the validation
rules and the grounding gate of publishing, and the owner and text fields of the documents.

Outside: see `components` in `PROJECT.json`. LLM behaviour enters only as a
nondeterministic outcome; the renderer and its panels, the validation models, discovery, RAG chat,
user interfaces and deployment are I/O around stores and hold no decision state. They are most of
the repository's lines, so the share of lines that is modelled stays small. The user lifecycle is left out because
its handlers, as written, do nothing to published apps: a model of it would show only that.

## 7. Plan

Done: the queue and its contract, approvals, triggers, the leader lock, the kill switch, the clause
memory, the spec versions, the proofs of each, and two refinements (`JobLedger`, `Recommendations`).
What is left, in order of use:

1. `TriggerScheduler`, composing `TriggerRunner` with `LeaderElection` and `KillSwitch`: cron slots and
   `last_fired_at`, and `Overlap` given its cause.
2. A case-level property of the officer queue: two pending rows of one case, approved independently.
3. The audit chain and the circuit breaker, two small modules.
4. Clause memory with several buckets and the scope migration; a repaired `reinforce` under
   overlapping passes.
5. Archive, transfer and restore in `SpecVersions`, which write the same documents.
