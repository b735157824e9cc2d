----------------------------- MODULE DurableQueue -----------------------------
(***************************************************************************)
(* The Redis-Streams job queue of citra-common/citra-queue (queue.py) and   *)
(* the consumer the Smart App Service runs on it (trigger_queue.py).        *)
(*                                                                         *)
(* Each service process runs two asyncio tasks: "drain" reads one new job   *)
(* at a time (XREADGROUP), "reclaim" periodically takes over entries that   *)
(* sat unacknowledged past the visibility timeout (XAUTOCLAIM).  Every      *)
(* Redis command is a step of its own, so a crash, a Redis error or the     *)
(* other tasks can come between any two of them.                            *)
(*                                                                         *)
(* Abstractions.  XACK and the XDEL that follows it are one step: XDEL only *)
(* frees memory.  The result-signal key is written but carries no state.    *)
(* Backoff delays and idle times are nondeterministic: a parked retry may   *)
(* be due at any time, and MayBeIdle says which entries can be idle.  The   *)
(* dead-letter stream is the set of jobs it holds (its trim at 10000        *)
(* entries is not modelled).                                                *)
(***************************************************************************)
EXTENDS Naturals, FiniteSets

CONSTANTS
    Jobs,          \* jobs producers may enqueue
    Foreign,       \* those whose handler name is not this consumer's
    Procs,         \* service processes
    NoJob,         \* the job of a stream id not yet used
    NoTask,        \* owner of an entry nobody was delivered
    MaxRetries,    \* max_retries of every job (from_json reads a 0 as the default)
    ClaimCount,    \* count= of XAUTOCLAIM and of the XPENDING probe
    MaxEntries,    \* bound: stream ids handed out by XADD
    SlowRuns,      \* TRUE: a run may outlast CLAIM_MIN_IDLE_MS
    RedisErrors,   \* TRUE: a single Redis command may raise
    GapFaults      \* TRUE: a fault may strike between the ack and the park

ASSUME ConstantsOK ==
    /\ Foreign \subseteq Jobs
    /\ MaxRetries \in Nat \ {0}
    /\ ClaimCount \in Nat \ {0}
    /\ MaxEntries \in Nat
    /\ SlowRuns \in BOOLEAN /\ RedisErrors \in BOOLEAN /\ GapFaults \in BOOLEAN

Task == Procs \X {"drain", "reclaim"}

ASSUME NoTaskIsNoTask == NoTask \notin Task

Id == 1..MaxEntries
Retries == 0..MaxRetries

VARIABLES
    status,     \* job hash "status", the value get_status shows
    entry,      \* the stream and its PEL, by entry id
    nextId,     \* next stream id
    retry,      \* retry ZSET: <<job, retries>> blobs waiting for their delay
    dlq,        \* jobs on the dead-letter stream
    pc,         \* where each task is
    cur,        \* entry each task works on (0: none)
    outcome,    \* how the task's run ended
    batch,      \* reclaim: claimed entries still to be processed
    reap,       \* reclaim: claimed entries to be dead-lettered as crash loops
    late,       \* reclaim: TRUE once a batch member was processed before this one
    succeeded   \* jobs whose handler has returned a result (its effects exist)

queueVars == <<status, entry, nextId, retry, dlq>>
taskVars == <<pc, cur, outcome, batch, reap, late>>
vars == <<queueVars, taskVars, succeeded>>

JobStatus == {"absent", "queued", "running", "done", "failed"}
Outcome == {"ok", "transient", "permanent"}
PC == {"idle", "start", "fire", "done", "ackDone", "signal",
       "fail", "ackFail", "park", "reapAdd", "reapAck", "reapStatus"}

Entry == [job : Jobs \cup {NoJob}, retries : Retries, times : Nat,
          owner : Task \cup {NoTask},
          state : {"free", "unread", "pending", "acked"}]
FreeEntry == [job |-> NoJob, retries |-> 0, times |-> 0, owner |-> NoTask, state |-> "free"]

TypeOK ==
    /\ status \in [Jobs -> JobStatus]
    /\ nextId \in 1..(MaxEntries + 1)
    /\ entry \in [Id -> Entry]
    /\ retry \subseteq Jobs \X Retries
    /\ dlq \subseteq Jobs
    /\ pc \in [Task -> PC]
    /\ cur \in [Task -> Id \cup {0}]
    /\ outcome \in [Task -> Outcome]
    /\ batch \in [Task -> SUBSET Id]
    /\ reap \in [Task -> SUBSET Id]
    /\ late \in [Task -> BOOLEAN]
    /\ succeeded \subseteq Jobs

Init ==
    /\ status = [j \in Jobs |-> "absent"]
    /\ entry = [i \in Id |-> FreeEntry]
    /\ nextId = 1
    /\ retry = {}
    /\ dlq = {}
    /\ pc = [t \in Task |-> "idle"]
    /\ cur = [t \in Task |-> 0]
    /\ outcome = [t \in Task |-> "ok"]
    /\ batch = [t \in Task |-> {}]
    /\ reap = [t \in Task |-> {}]
    /\ late = [t \in Task |-> FALSE]
    /\ succeeded = {}

-----------------------------------------------------------------------------
(* Redis commands.                                                         *)

Pending(i) == entry[i].state = "pending"
InStream(i) == entry[i].state \in {"unread", "pending"}
FirstOf(i, S) == i \in S /\ \A k \in S : i <= k

XAdd(j, r) ==
    /\ nextId \in Id
    /\ entry' = [entry EXCEPT ![nextId] =
                    [job |-> j, retries |-> r, times |-> 0,
                     owner |-> NoTask, state |-> "unread"]]
    /\ nextId' = nextId + 1

XAck(i) ==
    IF Pending(i)
    THEN entry' = [entry EXCEPT ![i].state = "acked", ![i].owner = NoTask, ![i].times = 0]
    ELSE UNCHANGED entry

HSetStatus(j, s) == status' = [status EXCEPT ![j] = s]

\* A claimed batch is worked through sequentially while every member's idle
\* clock runs; only the first member starts right after the claim.
Holds(t, i) == i = cur[t] \/ i \in batch[t] \/ i \in reap[t]

\* Mutant: XAUTOCLAIM without its min-idle filter.
AnyPending(i) == Pending(i)

MayBeIdle(i) ==
    /\ Pending(i)
    /\ \/ SlowRuns
       \/ ~ Holds(entry[i].owner, i)
       \/ late[entry[i].owner]

-----------------------------------------------------------------------------
(* Producers and delayed retries.                                          *)

\* Mutant: only the XADD of enqueue's pipeline.
EnqueueUnseen(j) ==
    /\ status[j] = "absent"
    /\ XAdd(j, 0)
    /\ UNCHANGED <<status, retry, dlq, taskVars, succeeded>>

\* enqueue: HSET and XADD in one pipeline.
Enqueue(j) ==
    /\ status[j] = "absent"
    /\ XAdd(j, 0)
    /\ HSetStatus(j, "queued")
    /\ UNCHANGED <<retry, dlq, taskVars, succeeded>>

\* The promote script moves a due blob from the ZSET to the stream atomically.
Promote(j, r) ==
    /\ <<j, r>> \in retry
    /\ XAdd(j, r)
    /\ retry' = retry \ {<<j, r>>}
    /\ UNCHANGED <<status, dlq, taskVars, succeeded>>

-----------------------------------------------------------------------------
(* Consumers.                                                              *)

CurJob(t) == entry[cur[t]].job
At(t, p) == pc[t] = p
Goto(t, p) == pc' = [pc EXCEPT ![t] = p]
KeepHands(t) == UNCHANGED <<cur, batch, reap, late>>
KeepTask(t) == KeepHands(t) /\ UNCHANGED outcome

\* The task is between jobs again: the reclaim loop takes the next member of
\* its batch, the drain loop goes back to reading.
NextJob(t) ==
    /\ outcome' = [outcome EXCEPT ![t] = "ok"]
    /\ \/ /\ batch[t] = {}
          /\ Goto(t, "idle")
          /\ cur' = [cur EXCEPT ![t] = 0]
          /\ late' = [late EXCEPT ![t] = FALSE]
          /\ UNCHANGED <<batch, reap>>
       \/ \E i \in batch[t] :
          /\ FirstOf(i, batch[t])
          /\ Goto(t, "start")
          /\ cur' = [cur EXCEPT ![t] = i]
          /\ batch' = [batch EXCEPT ![t] = @ \ {i}]
          /\ late' = [late EXCEPT ![t] = TRUE]
          /\ UNCHANGED reap

\* An exception leaves _process: the drain loop logs it and reads on; the
\* reclaim loop abandons the rest of its batch.
Abandon(t) ==
    /\ Goto(t, "idle")
    /\ cur' = [cur EXCEPT ![t] = 0]
    /\ batch' = [batch EXCEPT ![t] = {}]
    /\ reap' = [reap EXCEPT ![t] = {}]
    /\ late' = [late EXCEPT ![t] = FALSE]
    /\ outcome' = [outcome EXCEPT ![t] = "ok"]

\* consume_one, and _drain's rule for a handler that is not ours.
Read(t) ==
    /\ t[2] = "drain" /\ At(t, "idle")
    /\ \E i \in Id :
       /\ FirstOf(i, {k \in Id : entry[k].state = "unread"})
       /\ entry' = [entry EXCEPT ![i].state = "pending", ![i].times = 1, ![i].owner = t]
       /\ cur' = [cur EXCEPT ![t] = i]
       /\ \/ /\ entry[i].job \in Foreign
             /\ Goto(t, "fail")
             /\ outcome' = [outcome EXCEPT ![t] = "permanent"]
          \/ /\ entry[i].job \notin Foreign
             /\ Goto(t, "start")
             /\ UNCHANGED outcome
    /\ UNCHANGED <<status, nextId, retry, dlq, batch, reap, late, succeeded>>

\* claim_stale: XAUTOCLAIM bumps the delivery count of up to ClaimCount idle
\* entries; the count is then looked up in a probe of the first ClaimCount
\* pending entries, an entry outside the probe counting as delivered once.
Budget == IF MaxRetries > 1 THEN MaxRetries ELSE 1

\* Mutant: XAUTOCLAIM with JUSTID, which does not count a delivery.
NoBump(n) == n

\* Counts past the budget are not told apart.
Bump(n) == IF n > Budget THEN n ELSE n + 1

\* Mutant: an exclusive end for the XPENDING range.
ShortProbe == {i \in Id : /\ Pending(i)
                          /\ Cardinality({k \in Id : Pending(k) /\ k <= i}) < ClaimCount}

Probe == {i \in Id : /\ Pending(i)
                     /\ Cardinality({k \in Id : Pending(k) /\ k <= i}) <= ClaimCount}

\* The entries whose counts the lookup returns: none, if it fails.
Counted == {Probe} \cup {none \in {{}} : RedisErrors}

Claim(t, S) ==
    /\ t[2] = "reclaim" /\ At(t, "idle")
    /\ S # {} /\ Cardinality(S) <= ClaimCount
    /\ \A i \in S : MayBeIdle(i)
    /\ entry' = [i \in Id |-> IF i \in S
                     THEN [entry[i] EXCEPT !.times = Bump(@), !.owner = t]
                     ELSE entry[i]]
    /\ \E counted \in Counted :
       LET over == {i \in S \cap counted : Bump(entry[i].times) > Budget}
           rest == S \ over
       IN  IF over # {}
           THEN /\ reap' = [reap EXCEPT ![t] = over]
                /\ batch' = [batch EXCEPT ![t] = rest]
                /\ Goto(t, "reapAdd")
                /\ UNCHANGED cur
           ELSE \E i \in rest :
                /\ FirstOf(i, rest)
                /\ Goto(t, "start")
                /\ cur' = [cur EXCEPT ![t] = i]
                /\ batch' = [batch EXCEPT ![t] = rest \ {i}]
                /\ UNCHANGED reap
    /\ UNCHANGED <<status, nextId, retry, dlq, outcome, late, succeeded>>

\* mark_running.
MarkRunning(t) ==
    /\ At(t, "start")
    /\ \/ /\ HSetStatus(CurJob(t), "running")
          /\ Goto(t, "fire")
          /\ KeepTask(t)
       \/ RedisErrors /\ Abandon(t) /\ UNCHANGED status
    /\ UNCHANGED <<entry, nextId, retry, dlq, succeeded>>

\* Mutant: a permanent failure is answered with mark_done.
FireSwallows(t) ==
    /\ At(t, "fire")
    /\ \E o \in Outcome :
       /\ CurJob(t) \in Foreign => o = "permanent"
       /\ outcome' = [outcome EXCEPT ![t] = o]
       /\ Goto(t, IF o = "transient" THEN "fail" ELSE "done")
       /\ succeeded' = IF o = "ok" THEN succeeded \cup {CurJob(t)} ELSE succeeded
    /\ UNCHANGED <<queueVars, cur, batch, reap, late>>

\* The handler runs: a result, JobPermanentFailure or any other exception.  A
\* foreign job that was reclaimed has no app to fire and fails permanently.
Fire(t) ==
    /\ At(t, "fire")
    /\ \E o \in Outcome :
       /\ CurJob(t) \in Foreign => o = "permanent"
       /\ outcome' = [outcome EXCEPT ![t] = o]
       /\ Goto(t, IF o = "ok" THEN "done" ELSE "fail")
       /\ succeeded' = IF o = "ok" THEN succeeded \cup {CurJob(t)} ELSE succeeded
    /\ UNCHANGED <<queueVars, cur, batch, reap, late>>

\* mark_done stands inside _process's try: if it raises, the job that just
\* succeeded is handed to mark_failed as a transient failure.
FailAfterSuccess(t) ==
    /\ RedisErrors
    /\ Goto(t, "fail")
    /\ outcome' = [outcome EXCEPT ![t] = "transient"]
    /\ KeepHands(t)

MarkDone(t) ==
    /\ At(t, "done")
    /\ \/ /\ HSetStatus(CurJob(t), "done")
          /\ Goto(t, "ackDone")
          /\ KeepTask(t)
       \/ FailAfterSuccess(t) /\ UNCHANGED status
    /\ UNCHANGED <<entry, nextId, retry, dlq, succeeded>>

\* _ack swallows its own errors.
AckDone(t) ==
    /\ At(t, "ackDone")
    /\ Goto(t, "signal")
    /\ XAck(cur[t]) \/ (RedisErrors /\ UNCHANGED entry)
    /\ KeepTask(t)
    /\ UNCHANGED <<status, nextId, retry, dlq, succeeded>>

Signal(t) ==
    /\ At(t, "signal")
    /\ NextJob(t) \/ FailAfterSuccess(t)
    /\ UNCHANGED <<queueVars, succeeded>>

\* mark_failed: status first, then the ack, and only then the retry ZSET or
\* the dead-letter stream.
WillRetry(t) == outcome[t] # "permanent" /\ entry[cur[t]].retries + 1 < MaxRetries

MarkFailed(t) ==
    /\ At(t, "fail")
    /\ \/ /\ HSetStatus(CurJob(t), IF WillRetry(t) THEN "queued" ELSE "failed")
          /\ Goto(t, "ackFail")
          /\ KeepTask(t)
       \/ RedisErrors /\ Abandon(t) /\ UNCHANGED status
    /\ UNCHANGED <<entry, nextId, retry, dlq, succeeded>>

AckFailed(t) ==
    /\ At(t, "ackFail")
    /\ Goto(t, "park")
    /\ XAck(cur[t]) \/ (RedisErrors /\ UNCHANGED entry)
    /\ KeepTask(t)
    /\ UNCHANGED <<status, nextId, retry, dlq, succeeded>>

\* Mutant: a job out of retries is dropped without a dead-letter entry.
ParkDrops(t) ==
    /\ At(t, "park")
    /\ \/ /\ WillRetry(t)
          /\ retry' = retry \cup {<<CurJob(t), entry[cur[t]].retries + 1>>}
          /\ NextJob(t)
       \/ /\ ~ WillRetry(t)
          /\ NextJob(t) /\ UNCHANGED retry
    /\ UNCHANGED <<status, entry, nextId, dlq, succeeded>>

Park(t) ==
    /\ At(t, "park")
    /\ \/ /\ WillRetry(t)
          /\ retry' = retry \cup {<<CurJob(t), entry[cur[t]].retries + 1>>}
          /\ NextJob(t) /\ UNCHANGED dlq
       \/ /\ ~ WillRetry(t)
          /\ dlq' = dlq \cup {CurJob(t)}
          /\ NextJob(t) /\ UNCHANGED retry
       \/ /\ RedisErrors /\ GapFaults
          /\ Abandon(t) /\ UNCHANGED <<retry, dlq>>
    /\ UNCHANGED <<status, entry, nextId, succeeded>>

-----------------------------------------------------------------------------
(* claim_stale's dead-lettering of crash loops: XADD to the dead-letter     *)
(* stream, XACK, HSET.  If one of the three raises, the entry is put back   *)
(* among the jobs to process.                                               *)

\* The reap set without i; when it is empty the batch is processed.
ReapNext(t, i, rest) ==
    /\ reap' = [reap EXCEPT ![t] = @ \ {i}]
    /\ UNCHANGED <<late, outcome>>
    /\ \/ /\ reap[t] # {i}
          /\ Goto(t, "reapAdd")
          /\ batch' = [batch EXCEPT ![t] = rest]
          /\ UNCHANGED cur
       \/ /\ reap[t] = {i} /\ rest = {}
          /\ Goto(t, "idle")
          /\ UNCHANGED <<cur, batch>>
       \/ /\ reap[t] = {i}
          /\ \E k \in rest :
             /\ FirstOf(k, rest)
             /\ Goto(t, "start")
             /\ cur' = [cur EXCEPT ![t] = k]
             /\ batch' = [batch EXCEPT ![t] = rest \ {k}]

ReapFails(t, i) == RedisErrors /\ ReapNext(t, i, batch[t] \cup {i})

\* Mutant: the crash loop is acknowledged without its dead-letter entry.
ReapAddNothing(t) ==
    /\ At(t, "reapAdd")
    /\ Goto(t, "reapAck") /\ KeepTask(t)
    /\ UNCHANGED <<queueVars, succeeded>>

ReapAdd(t) ==
    /\ At(t, "reapAdd")
    /\ \E i \in Id : /\ FirstOf(i, reap[t])
                     /\ \/ /\ dlq' = dlq \cup {entry[i].job}
                           /\ Goto(t, "reapAck")
                           /\ KeepTask(t)
                        \/ ReapFails(t, i) /\ UNCHANGED dlq
    /\ UNCHANGED <<status, entry, nextId, retry, succeeded>>

ReapAck(t) ==
    /\ At(t, "reapAck")
    /\ \E i \in Id : /\ FirstOf(i, reap[t])
                     /\ \/ XAck(i) /\ Goto(t, "reapStatus") /\ KeepTask(t)
                        \/ ReapFails(t, i) /\ UNCHANGED entry
    /\ UNCHANGED <<status, nextId, retry, dlq, succeeded>>

ReapStatus(t) ==
    /\ At(t, "reapStatus")
    /\ \E i \in Id : /\ FirstOf(i, reap[t])
                     /\ \/ /\ HSetStatus(entry[i].job, "failed")
                           /\ ReapNext(t, i, batch[t])
                        \/ ReapFails(t, i) /\ UNCHANGED status
    /\ UNCHANGED <<entry, nextId, retry, dlq, succeeded>>

-----------------------------------------------------------------------------
\* The process dies and is restarted: both its tasks forget what they held.
TasksOf(p) == {p} \X {"drain", "reclaim"}

Crash(p) ==
    /\ \E t \in TasksOf(p) : ~ At(t, "idle")
    /\ GapFaults \/ \A t \in TasksOf(p) : ~ At(t, "park")
    /\ pc' = [t \in Task |-> IF t \in TasksOf(p) THEN "idle" ELSE pc[t]]
    /\ cur' = [t \in Task |-> IF t \in TasksOf(p) THEN 0 ELSE cur[t]]
    /\ batch' = [t \in Task |-> IF t \in TasksOf(p) THEN {} ELSE batch[t]]
    /\ reap' = [t \in Task |-> IF t \in TasksOf(p) THEN {} ELSE reap[t]]
    /\ late' = [t \in Task |-> IF t \in TasksOf(p) THEN FALSE ELSE late[t]]
    /\ outcome' = [t \in Task |-> IF t \in TasksOf(p) THEN "ok" ELSE outcome[t]]
    /\ UNCHANGED <<queueVars, succeeded>>

Work(t) ==
    \/ MarkRunning(t) \/ Fire(t)
    \/ MarkDone(t) \/ AckDone(t) \/ Signal(t)
    \/ MarkFailed(t) \/ AckFailed(t) \/ Park(t)
    \/ ReapAdd(t) \/ ReapAck(t) \/ ReapStatus(t)

PromoteAny == \E j \in Jobs, r \in Retries : Promote(j, r)

Next ==
    \/ \E j \in Jobs : Enqueue(j)
    \/ PromoteAny
    \/ \E t \in Task : Read(t) \/ Work(t)
    \/ \E t \in Task, S \in SUBSET Id : Claim(t, S)
    \/ \E p \in Procs : Crash(p)

Spec == Init /\ [][Next]_vars

-----------------------------------------------------------------------------
(* Properties.                                                             *)

Accepted(j) == status[j] # "absent"

\* The queue still answers for job j: its handler completed, an entry will be
\* delivered or reclaimed, a retry is parked, it is dead-lettered, or a task is
\* about to park or dead-letter it.
Held(j) ==
    \/ j \in succeeded
    \/ j \in dlq
    \/ \E i \in Id : InStream(i) /\ entry[i].job = j
    \/ \E r \in Retries : <<j, r>> \in retry
    \/ \E t \in Task : At(t, "park") /\ CurJob(t) = j

\* No accepted job is ever lost (queue.py: "so the job is retried, not lost").
NoJobLost == \A j \in Jobs : Accepted(j) => Held(j)

\* Whatever crashes, Redis errors, reclaims and duplicate runs do, the one step
\* that can lose a job is a fault between mark_failed's ack and its park.
OnlyTheGapLosesJobs ==
    [][ \A j \in Jobs : Accepted(j) /\ Held(j) /\ ~ Held(j)' =>
            \E t \in Task : At(t, "park") /\ CurJob(t) = j /\ pc'[t] = "idle" ]_vars

\* The status a caller polls never claims a result nobody computed: "done" is
\* only shown for a job whose handler returned, and the queue never forgets it.
DoneMeansRan == \A j \in Jobs : status[j] = "done" => j \in succeeded

\* Two tasks are never in the same job's run at once.  queue.py says, on
\* CLAIM_MIN_IDLE_MS, that it takes a run longer than the visibility timeout for "a
\* slow-but-alive job" to be "reclaimed and DOUBLE-RUN"; a batch of short runs will do.
Running(t, j) == pc[t] \in {"start", "fire"} /\ CurJob(t) = j
NoDoubleRun ==
    \A j \in Jobs : \A t, u \in Task : Running(t, j) /\ Running(u, j) => t = u

\* A job that keeps killing its worker is handed out at most Budget times per
\* entry: whoever is processing an entry got it within the budget.
HandedOutWithinBudget ==
    \A t \in Task : \A i \in Id :
        (Pending(i) /\ entry[i].owner = t /\ (i = cur[t] \/ i \in batch[t]))
            => entry[i].times <= Budget

\* The inductive invariant behind the safety properties, by parts.
Used(i) == i \in Id /\ i < nextId
ReapPC == {"reapAdd", "reapAck", "reapStatus"}

StreamOK == \A i \in Id : /\ entry[i].state = "free" <=> nextId <= i
                          /\ Used(i) => entry[i].job \in Jobs

HandsOK == \A t \in Task :
    /\ cur[t] # 0 => Used(cur[t])
    /\ \A i \in batch[t] \cup reap[t] : Used(i)
    /\ pc[t] \notin ReapPC \cup {"idle"} => cur[t] # 0

RunsOK == \A t \in Task :
    /\ pc[t] \in {"done", "ackDone", "signal"} => CurJob(t) \in succeeded
    /\ pc[t] \in {"reapAck", "reapStatus"} =>
           \A i \in Id : FirstOf(i, reap[t]) => entry[i].job \in dlq

\* Nothing about a job exists before it is enqueued.
OnlyAccepted ==
    /\ \A j \in succeeded \cup dlq : Accepted(j)
    /\ \A j \in Jobs, r \in Retries : <<j, r>> \in retry => Accepted(j)
    /\ \A i \in Id : Used(i) => Accepted(entry[i].job)

IInv == TypeOK /\ StreamOK /\ HandsOK /\ RunsOK /\ OnlyAccepted /\ DoneMeansRan

\* Why no job runs twice where runs are short and Redis answers: a task between
\* jobs has empty hands, and what it holds it holds once.
TidyInv == \A t \in Task :
    /\ pc[t] \in ReapPC \cup {"idle"} => cur[t] = 0
    /\ pc[t] = "idle" => batch[t] = {}
    /\ pc[t] \notin ReapPC => reap[t] = {}
    /\ cur[t] \notin batch[t] /\ batch[t] \cap reap[t] = {}

\* An entry is held by one task, the one that Redis has as its owner, until it is
\* acknowledged ...
HolderInv == \A t \in Task : \A i \in Id : Holds(t, i) =>
    /\ entry[i].state \in {"pending", "acked"}
    /\ Pending(i) => entry[i].owner = t
    /\ \A u \in Task : Holds(u, i) => t = u
    /\ i = cur[t] /\ At(t, "park") => ~ Pending(i)

\* ... and of every job there is one copy: an entry, or a parked retry.
Alive(i) == InStream(i) \/ \E t \in Task : Holds(t, i)
Parked(j) == \E r \in Retries : <<j, r>> \in retry

CopyInv ==
    /\ \A i, k \in Id : Alive(i) /\ Alive(k) /\ entry[i].job = entry[k].job => i = k
    /\ \A i \in Id : Alive(i) => ~ Parked(entry[i].job)
    /\ \A j \in Jobs, r, s \in Retries : <<j, r>> \in retry /\ <<j, s>> \in retry => r = s

OnceInv == TidyInv /\ HolderInv /\ CopyInv

\* Nobody is at work on a later member of a batch it claimed.
NobodyLate == \A t \in Task : ~ late[t]

\* Where runs are shorter than the visibility timeout and Redis answers, the second
\* run of a job, and the second copy of it that it leads to, can only come about while
\* a task works on a later member of a batch it claimed.
OnlyLateRunsTwice ==
    [][OnceInv /\ NoDoubleRun /\ NobodyLate => OnceInv' /\ NoDoubleRun']_vars

\* What the queue's state says of each job in JobLedger's terms.
Standing == [j \in Jobs |->
    IF ~ Accepted(j) THEN "new"
    ELSE IF j \in succeeded THEN "done"
    ELSE IF j \in dlq THEN "dead"
    ELSE IF Held(j) THEN "owed" ELSE "lost"]

Ledger == INSTANCE JobLedger WITH ledger <- Standing

\* The queue implements JobLedger, whatever crashes, duplicates and retries: an
\* accepted job is owed until it is done or dead-lettered, and done is for good.
KeepsTheLedger == Ledger!Spec

\* Fairness: due retries are promoted, an up worker goes on with what it holds
\* and reads on, an idle entry is claimed (XAUTOCLAIM takes them in id order, and
\* those in front are acknowledged or dead-lettered in the end), and processes do
\* not for ever die between the same two commands of the dead-lettering, the one
\* place the delivery count does not bound.  Producers, crashes and Redis errors
\* are not fair.
ClaimEntry(i) == \E t \in Task, S \in SUBSET Id : i \in S /\ Claim(t, S)

Fairness ==
    /\ WF_vars(PromoteAny)
    /\ SF_vars(\E t \in Task : Read(t))
    /\ \A i \in Id : SF_vars(ClaimEntry(i))
    /\ \A t \in Task : WF_vars(Work(t))
    /\ SF_vars(\E t \in Task : ReapAdd(t))
    /\ SF_vars(\E t \in Task : ReapAck(t))

FairSpec == Spec /\ Fairness

\* Every accepted job is settled: completed or dead-lettered, crash loops and
\* misrouted jobs included.
Settled(j) == j \in succeeded \/ j \in dlq
EveryJobSettles == \A j \in Jobs : Accepted(j) ~> Settled(j)
=============================================================================
