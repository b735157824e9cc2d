-------------------------- MODULE DurableQueueProofs --------------------------
(***************************************************************************)
(* Proofs about DurableQueue.  IInv is inductive; its parts say which       *)
(* stream ids exist, that every task holds entries that exist, and that a   *)
(* task past the handler (or past the dead-lettering XADD) works on a job   *)
(* that has completed (or is dead-lettered).  OnceInv, which says who holds *)
(* which entry and that a job has one copy, is inductive beside it where    *)
(* no run is slow, Redis answers and no batch is worked through.            *)
(***************************************************************************)
EXTENDS DurableQueue, FiniteSetTheorems, TLAPS

\* Every stream id in use keeps its job, and stays in use.
EntriesKept == \A i \in Id : Used(i) => /\ Used(i)' /\ entry'[i].job = entry[i].job
                                        /\ entry'[i].state # "free"

\* Only task t moves.
OthersKept(t) == \A u \in Task : u # t =>
    /\ pc'[u] = pc[u] /\ cur'[u] = cur[u]
    /\ batch'[u] = batch[u] /\ reap'[u] = reap[u]

TasksTyped ==
    /\ pc \in [Task -> PC] /\ cur \in [Task -> Id \cup {0}]
    /\ outcome \in [Task -> Outcome]
    /\ batch \in [Task -> SUBSET Id] /\ reap \in [Task -> SUBSET Id]
    /\ late \in [Task -> BOOLEAN]

HandsOf(t) ==
    /\ cur[t] # 0 => Used(cur[t])
    /\ \A i \in batch[t] \cup reap[t] : Used(i)
    /\ pc[t] \notin ReapPC \cup {"idle"} => cur[t] # 0

-----------------------------------------------------------------------------
(* What the Redis commands do.                                             *)

\* XADD fills a fresh id and keeps every other entry.
LEMMA XAddEffect ==
  ASSUME TypeOK, StreamOK, NEW j \in Jobs, NEW r \in Retries, XAdd(j, r)
  PROVE  /\ entry' \in [Id -> Entry] /\ nextId' \in 1..(MaxEntries + 1)
         /\ StreamOK' /\ EntriesKept
         /\ nextId \in Id /\ nextId < nextId' /\ entry'[nextId].job = j
         /\ entry'[nextId].state = "unread"
         /\ \A i \in Id : i # nextId => entry'[i] = entry[i]
         /\ \A i \in Id : Used(i)' => Used(i) \/ i = nextId
<1>1. nextId \in Id /\ nextId' = nextId + 1 /\ MaxEntries \in Nat
  BY ConstantsOK DEF XAdd
<1>2. entry' \in [Id -> Entry]
  BY <1>1 DEF XAdd, TypeOK, Entry
<1>3. /\ entry'[nextId].job = j
      /\ entry'[nextId].state = "unread"
      /\ \A i \in Id : i # nextId => entry'[i] = entry[i]
  BY <1>1 DEF XAdd, TypeOK
<1>4. nextId' \in 1..(MaxEntries + 1) /\ nextId < nextId'
  BY <1>1 DEF Id
<1>5. \A i \in Id : (nextId' <= i) <=> (nextId <= i /\ i # nextId)
  BY <1>1 DEF Id
<1>6. StreamOK'
  BY <1>1, <1>2, <1>3, <1>5 DEF StreamOK, Used, Id
<1>7. EntriesKept
  BY <1>1, <1>3 DEF EntriesKept, StreamOK, Used, Id
<1>8. \A i \in Id : Used(i)' => Used(i) \/ i = nextId
  BY <1>1 DEF Used, Id
<1> QED BY <1>1, <1>2, <1>3, <1>4, <1>6, <1>7, <1>8

\* XACK only takes an entry out of the pending list.
LEMMA XAckEffect ==
  ASSUME TypeOK, StreamOK, NEW i \in Id, XAck(i), UNCHANGED nextId
  PROVE  /\ entry' \in [Id -> Entry] /\ StreamOK' /\ EntriesKept
         /\ \A k \in Id : k # i => entry'[k] = entry[k]
<1>0. entry \in [Id -> Entry]
  BY DEF TypeOK
<1>1. entry' \in [Id -> Entry]
  <2> DEFINE e == [entry[i] EXCEPT !.state = "acked", !.owner = NoTask, !.times = 0]
  <2>1. CASE ~ Pending(i)
    BY <1>0, <2>1 DEF XAck
  <2>2. CASE Pending(i)
    <3>1. entry[i] \in Entry
      BY <1>0
    <3>2. e \in Entry
      BY <3>1 DEF Entry
    <3>3. entry' = [entry EXCEPT ![i] = e]
      BY <1>0, <2>2 DEF XAck
    <3> QED BY <1>0, <3>2, <3>3
  <2> QED BY <2>1, <2>2
<1>2. \A k \in Id : entry'[k].job = entry[k].job
                    /\ (entry'[k].state = "free" <=> entry[k].state = "free")
                    /\ (k # i => entry'[k] = entry[k])
  BY DEF XAck, TypeOK, Entry, Pending
<1> QED BY <1>1, <1>2 DEF StreamOK, EntriesKept, Used, Id, TypeOK

\* A step that changes no entry's job, and neither fills nor frees one.
LEMMA SameJobs ==
  ASSUME TypeOK, StreamOK, UNCHANGED nextId,
         \A k \in Id : /\ entry'[k].job = entry[k].job
                       /\ \/ entry'[k].state = entry[k].state
                          \/ entry'[k].state # "free" /\ entry[k].state # "free"
  PROVE  StreamOK' /\ EntriesKept
BY DEF StreamOK, EntriesKept, Used, Id, TypeOK

-----------------------------------------------------------------------------
(* What the moves of one task do.                                          *)

LEMMA NextJobEffect ==
  ASSUME TypeOK, HandsOK, NEW t \in Task, NextJob(t), UNCHANGED nextId
  PROVE  /\ TasksTyped' /\ OthersKept(t) /\ HandsOf(t)'
         /\ pc'[t] \in {"idle", "start"}
<1>1. CASE batch[t] = {} /\ Goto(t, "idle") /\ cur' = [cur EXCEPT ![t] = 0]
           /\ late' = [late EXCEPT ![t] = FALSE] /\ UNCHANGED <<batch, reap>>
  BY <1>1 DEF NextJob, TypeOK, TasksTyped, Goto, PC, Outcome, OthersKept, HandsOf,
              HandsOK, Used
<1>2. ASSUME NEW i \in batch[t], Goto(t, "start"), cur' = [cur EXCEPT ![t] = i],
             batch' = [batch EXCEPT ![t] = @ \ {i}], late' = [late EXCEPT ![t] = TRUE],
             UNCHANGED reap
      PROVE  /\ TasksTyped' /\ OthersKept(t) /\ HandsOf(t)'
             /\ pc'[t] \in {"idle", "start"}
  <2>1. i \in Id /\ Used(i) /\ i # 0
    BY DEF HandsOK, TypeOK, Id
  <2>2. outcome' \in [Task -> Outcome] /\ late' \in [Task -> BOOLEAN]
        /\ pc' \in [Task -> PC] /\ reap' \in [Task -> SUBSET Id]
    BY <1>2 DEF NextJob, TypeOK, Goto, PC, Outcome
  <2>3. cur' \in [Task -> Id \cup {0}] /\ batch' \in [Task -> SUBSET Id]
    BY <1>2, <2>1 DEF TypeOK
  <2>4. OthersKept(t) /\ pc'[t] = "start" /\ cur'[t] = i /\ batch'[t] = batch[t] \ {i}
        /\ reap'[t] = reap[t]
    BY <1>2 DEF TypeOK, Goto, OthersKept
  <2>5. HandsOf(t)'
    BY <2>1, <2>4 DEF HandsOf, HandsOK, Used
  <2> QED BY <2>2, <2>3, <2>4, <2>5 DEF TasksTyped
<1> QED BY <1>1, <1>2 DEF NextJob

LEMMA AbandonEffect ==
  ASSUME TypeOK, NEW t \in Task, Abandon(t)
  PROVE  TasksTyped' /\ OthersKept(t) /\ HandsOf(t)' /\ pc'[t] = "idle"
<1>1. TasksTyped' /\ OthersKept(t)
  BY DEF Abandon, TypeOK, TasksTyped, Goto, PC, Outcome, OthersKept
<1>2. pc'[t] = "idle" /\ cur'[t] = 0 /\ batch'[t] = {} /\ reap'[t] = {}
  BY DEF Abandon, TypeOK, Goto
<1> QED BY <1>1, <1>2 DEF HandsOf

LEMMA ReapNextEffect ==
  ASSUME TypeOK, HandsOK, NEW t \in Task, NEW i \in reap[t],
         NEW rest \in SUBSET (batch[t] \cup {i}),
         ReapNext(t, i, rest), batch[t] \subseteq rest, UNCHANGED nextId
  PROVE  /\ TasksTyped' /\ OthersKept(t) /\ HandsOf(t)'
         /\ pc'[t] \in {"idle", "start", "reapAdd"}
<1>0. rest \in SUBSET Id /\ \A k \in rest : Used(k) /\ k # 0
  BY DEF TypeOK, HandsOK, Id
<1>1. reap' = [reap EXCEPT ![t] = @ \ {i}] /\ UNCHANGED <<late, outcome>>
  BY DEF ReapNext
<1>2. reap' \in [Task -> SUBSET Id] /\ late' \in [Task -> BOOLEAN]
      /\ outcome' \in [Task -> Outcome] /\ reap'[t] = reap[t] \ {i}
      /\ \A u \in Task : u # t => reap'[u] = reap[u]
  BY <1>1 DEF TypeOK
<1>3. \/ Goto(t, "reapAdd") /\ batch' = [batch EXCEPT ![t] = rest] /\ UNCHANGED cur
      \/ Goto(t, "idle") /\ UNCHANGED <<cur, batch>>
      \/ \E k \in rest : /\ Goto(t, "start") /\ cur' = [cur EXCEPT ![t] = k]
                         /\ batch' = [batch EXCEPT ![t] = rest \ {k}]
  BY DEF ReapNext
<1>4. /\ pc' \in [Task -> PC] /\ pc'[t] \in {"idle", "start", "reapAdd"}
      /\ \A u \in Task : u # t => pc'[u] = pc[u]
  BY <1>3 DEF Goto, TypeOK, PC
<1>5. /\ cur' \in [Task -> Id \cup {0}] /\ batch' \in [Task -> SUBSET Id]
      /\ \A u \in Task : u # t => cur'[u] = cur[u] /\ batch'[u] = batch[u]
  BY <1>0, <1>3 DEF TypeOK
<1>6. HandsOf(t)'
  BY <1>0, <1>2, <1>3 DEF Goto, TypeOK, HandsOf, HandsOK, Used, ReapPC
<1> QED BY <1>2, <1>4, <1>5, <1>6 DEF TasksTyped, OthersKept

-----------------------------------------------------------------------------
(* The invariant is carried over a step by showing what the step does to    *)
(* the queue and to the one task that moved.                                *)

RunOf(t) ==
    /\ pc[t] \in {"done", "ackDone", "signal"} => CurJob(t) \in succeeded
    /\ pc[t] \in {"reapAck", "reapStatus"} =>
           \A i \in Id : FirstOf(i, reap[t]) => entry[i].job \in dlq

QueueTyped ==
    /\ status \in [Jobs -> JobStatus] /\ nextId \in 1..(MaxEntries + 1)
    /\ entry \in [Id -> Entry] /\ retry \subseteq Jobs \X Retries
    /\ dlq \subseteq Jobs /\ succeeded \subseteq Jobs

QueueKept == EntriesKept /\ succeeded \subseteq succeeded' /\ dlq \subseteq dlq'

LEMMA Frame ==
  ASSUME IInv, NEW t \in Task, QueueTyped', StreamOK', QueueKept,
         TasksTyped', OthersKept(t), HandsOf(t)', RunOf(t)',
         OnlyAccepted', DoneMeansRan'
  PROVE  IInv'
<1>1. TypeOK'
  BY DEF TypeOK, QueueTyped, TasksTyped
<1>2. \A u \in Task : u # t => HandsOf(u)'
  BY DEF IInv, TypeOK, HandsOK, HandsOf, OthersKept, QueueKept, EntriesKept, Used
<1>3. HandsOK'
  BY <1>2 DEF HandsOK, HandsOf
<1>4. ASSUME NEW u \in Task, u # t PROVE RunOf(u)'
  <2>1. pc'[u] = pc[u] /\ cur'[u] = cur[u] /\ reap'[u] = reap[u]
    BY <1>4 DEF OthersKept
  <2>2. ASSUME pc[u] \in {"done", "ackDone", "signal"}
        PROVE  entry'[cur'[u]].job \in succeeded'
    <3>1. Used(cur[u]) /\ CurJob(u) \in succeeded
      BY <2>2 DEF IInv, HandsOK, RunsOK, ReapPC
    <3> QED BY <2>1, <3>1 DEF QueueKept, EntriesKept, CurJob, Used
  <2>3. ASSUME pc[u] \in {"reapAck", "reapStatus"}, NEW i \in Id, FirstOf(i, reap[u])
        PROVE  entry'[i].job \in dlq'
    <3>1. Used(i) /\ entry[i].job \in dlq
      BY <2>3 DEF IInv, HandsOK, RunsOK, FirstOf
    <3> QED BY <3>1 DEF QueueKept, EntriesKept
  <2> QED BY <2>1, <2>2, <2>3 DEF RunOf, CurJob, FirstOf
<1>5. RunsOK'
  BY <1>4 DEF RunsOK, RunOf
<1> QED BY <1>1, <1>3, <1>5 DEF IInv

\* A step that leaves the queue and the successes alone, but for statuses.
LEMMA StatusEffect ==
  ASSUME IInv, NEW j \in Jobs, NEW s \in JobStatus \ {"absent"}, HSetStatus(j, s),
         UNCHANGED <<entry, nextId, retry, dlq, succeeded>>,
         s = "done" => j \in succeeded
  PROVE  QueueTyped' /\ StreamOK' /\ QueueKept /\ OnlyAccepted' /\ DoneMeansRan'
<1>1. status' \in [Jobs -> JobStatus] /\ \A k \in Jobs : Accepted(k) => Accepted(k)'
  BY DEF HSetStatus, IInv, TypeOK, Accepted, JobStatus
<1>2. QueueTyped'
  BY <1>1 DEF IInv, TypeOK, QueueTyped
<1>3. StreamOK' /\ QueueKept
  BY DEF IInv, StreamOK, QueueKept, EntriesKept, Used, Id, TypeOK
<1>4. OnlyAccepted'
  BY <1>1 DEF IInv, OnlyAccepted, Used, TypeOK, StreamOK
<1>5. DoneMeansRan'
  BY DEF IInv, DoneMeansRan, HSetStatus, TypeOK
<1> QED BY <1>2, <1>3, <1>4, <1>5

LEMMA QueueSame ==
  ASSUME IInv, UNCHANGED <<status, entry, nextId, retry, dlq, succeeded>>
  PROVE  QueueTyped' /\ StreamOK' /\ QueueKept /\ OnlyAccepted' /\ DoneMeansRan'
<1>1. QueueTyped' /\ StreamOK' /\ QueueKept
  BY DEF IInv, TypeOK, QueueTyped, StreamOK, QueueKept, EntriesKept, Used, Id
<1>2. OnlyAccepted' /\ DoneMeansRan'
  BY DEF IInv, OnlyAccepted, DoneMeansRan, Accepted, Used
<1> QED BY <1>1, <1>2

\* A step that moves entries between stream states, and nothing else.
LEMMA EntrySame ==
  ASSUME IInv, entry' \in [Id -> Entry], StreamOK', EntriesKept,
         UNCHANGED <<status, nextId, retry, dlq, succeeded>>
  PROVE  QueueTyped' /\ QueueKept /\ OnlyAccepted' /\ DoneMeansRan'
<1>1. QueueTyped' /\ QueueKept
  BY DEF IInv, TypeOK, QueueTyped, QueueKept
<1>2. OnlyAccepted' /\ DoneMeansRan'
  BY DEF IInv, OnlyAccepted, DoneMeansRan, Accepted, Used, EntriesKept
<1> QED BY <1>1, <1>2

\* A task that goes on with the same entries in its hands.
LEMMA GotoEffect ==
  ASSUME IInv, NEW t \in Task, NEW p \in PC, Goto(t, p), KeepHands(t), UNCHANGED nextId,
         outcome' \in [Task -> Outcome],
         p \in ReapPC \cup {"idle"} \/ pc[t] \notin ReapPC \cup {"idle"}
  PROVE  /\ TasksTyped' /\ OthersKept(t) /\ HandsOf(t)'
         /\ pc'[t] = p /\ cur'[t] = cur[t] /\ reap'[t] = reap[t]
<1>1. pc' \in [Task -> PC] /\ pc'[t] = p /\ \A u \in Task : u # t => pc'[u] = pc[u]
  BY DEF Goto, IInv, TypeOK
<1>2. UNCHANGED <<cur, batch, reap, late>>
  BY DEF KeepHands
<1> QED BY <1>1, <1>2 DEF IInv, TypeOK, HandsOK, TasksTyped, OthersKept, HandsOf, Used

-----------------------------------------------------------------------------
(* The actions.                                                            *)

LEMMA CurJobIs ==
  ASSUME IInv, NEW t \in Task, pc[t] \notin ReapPC \cup {"idle"}
  PROVE  /\ cur[t] \in Id /\ Used(cur[t]) /\ CurJob(t) \in Jobs
  BY DEF IInv, HandsOK, StreamOK, CurJob, Used

LEMMA EnqueueKeeps == ASSUME IInv, NEW j \in Jobs, Enqueue(j) PROVE IInv'
<1>1. XAdd(j, 0) /\ 0 \in Retries /\ status' = [status EXCEPT ![j] = "queued"]
  BY ConstantsOK DEF Enqueue, HSetStatus, Retries
<1>2. /\ entry' \in [Id -> Entry] /\ nextId' \in 1..(MaxEntries + 1)
      /\ StreamOK' /\ EntriesKept /\ entry'[nextId].job = j
      /\ \A i \in Id : Used(i)' => Used(i) \/ i = nextId
  BY <1>1, XAddEffect DEF IInv
<1>3. UNCHANGED <<retry, dlq, pc, cur, outcome, batch, reap, late, succeeded>>
  BY DEF Enqueue, taskVars
<1>4. TypeOK'
  BY <1>1, <1>2, <1>3 DEF IInv, TypeOK, JobStatus
<1>5. HandsOK'
  BY <1>2, <1>3 DEF IInv, TypeOK, HandsOK, EntriesKept, Used
<1>6. RunsOK'
  BY <1>2, <1>3 DEF IInv, TypeOK, HandsOK, RunsOK, EntriesKept, Used, CurJob, FirstOf, ReapPC
<1>7. Accepted(j)' /\ \A k \in Jobs : Accepted(k) => Accepted(k)'
  BY <1>1 DEF IInv, TypeOK, Accepted
<1>8. OnlyAccepted'
  BY <1>2, <1>3, <1>7 DEF IInv, TypeOK, StreamOK, OnlyAccepted, EntriesKept
<1>9. DoneMeansRan'
  BY <1>1, <1>3 DEF IInv, TypeOK, DoneMeansRan
<1> QED BY <1>2, <1>4, <1>5, <1>6, <1>8, <1>9 DEF IInv

LEMMA PromoteKeeps ==
  ASSUME IInv, NEW j \in Jobs, NEW r \in Retries, Promote(j, r) PROVE IInv'
<1>1. XAdd(j, r) /\ <<j, r>> \in retry /\ retry' = retry \ {<<j, r>>}
  BY DEF Promote
<1>2. /\ entry' \in [Id -> Entry] /\ nextId' \in 1..(MaxEntries + 1)
      /\ StreamOK' /\ EntriesKept /\ entry'[nextId].job = j
      /\ \A i \in Id : Used(i)' => Used(i) \/ i = nextId
  BY <1>1, XAddEffect DEF IInv
<1>3. UNCHANGED <<status, dlq, pc, cur, outcome, batch, reap, late, succeeded>>
  BY DEF Promote, taskVars
<1>4. TypeOK'
  BY <1>1, <1>2, <1>3 DEF IInv, TypeOK
<1>5. HandsOK'
  BY <1>2, <1>3 DEF IInv, TypeOK, HandsOK, EntriesKept, Used
<1>6. RunsOK'
  BY <1>2, <1>3 DEF IInv, TypeOK, HandsOK, RunsOK, EntriesKept, Used, CurJob, FirstOf, ReapPC
<1>7. Accepted(j) /\ \A k \in Jobs : Accepted(k) <=> Accepted(k)'
  BY <1>1, <1>3 DEF IInv, OnlyAccepted, Accepted
<1>8. OnlyAccepted'
  BY <1>1, <1>2, <1>3, <1>7 DEF IInv, TypeOK, StreamOK, OnlyAccepted, EntriesKept
<1>9. DoneMeansRan'
  BY <1>3 DEF IInv, DoneMeansRan
<1> QED BY <1>2, <1>4, <1>5, <1>6, <1>8, <1>9 DEF IInv

LEMMA ReadKeeps == ASSUME IInv, NEW t \in Task, Read(t) PROVE IInv'
<1>1. PICK i \in Id :
        /\ FirstOf(i, {k \in Id : entry[k].state = "unread"})
        /\ entry' = [entry EXCEPT ![i].state = "pending", ![i].times = 1, ![i].owner = t]
        /\ cur' = [cur EXCEPT ![t] = i]
        /\ \/ Goto(t, "fail") /\ outcome' = [outcome EXCEPT ![t] = "permanent"]
           \/ Goto(t, "start") /\ UNCHANGED outcome
  BY DEF Read
<1>2. UNCHANGED <<status, nextId, retry, dlq, batch, reap, late, succeeded>>
  BY DEF Read
<1>3. entry[i].state = "unread" /\ Used(i) /\ i # 0
  BY <1>1 DEF FirstOf, IInv, StreamOK, Used, Id, TypeOK
<1>4. /\ entry' \in [Id -> Entry]
      /\ \A k \in Id : /\ entry'[k].job = entry[k].job
                        /\ \/ entry'[k].state = entry[k].state
                           \/ entry'[k].state # "free" /\ entry[k].state # "free"
  <2> DEFINE e == [entry[i] EXCEPT !.state = "pending", !.times = 1, !.owner = t]
  <2>1. entry' = [entry EXCEPT ![i] = e]
    BY <1>1 DEF IInv, TypeOK
  <2>2. e \in Entry /\ e.job = entry[i].job /\ e.state = "pending"
    <3>1. entry[i] \in Entry
      BY DEF IInv, TypeOK
    <3> QED BY ONLY <3>1, t \in Task DEF Entry
  <2> HIDE DEF e
  <2>3. entry \in [Id -> Entry]
    BY DEF IInv, TypeOK
  <2>4. entry' \in [Id -> Entry]
    BY ONLY <2>1, <2>2, <2>3
  <2>5. \A k \in Id : entry'[k] = IF k = i THEN e ELSE entry[k]
    BY ONLY <2>1, <2>3
  <2> QED BY ONLY <1>3, <2>2, <2>4, <2>5
<1>5. StreamOK' /\ EntriesKept
  BY <1>2, <1>4, SameJobs DEF IInv
<1>6. QueueTyped' /\ QueueKept /\ OnlyAccepted' /\ DoneMeansRan'
  BY <1>2, <1>4, <1>5, EntrySame
<1>7. /\ TasksTyped' /\ OthersKept(t)
      /\ cur'[t] = i /\ pc'[t] \in {"fail", "start"}
      /\ batch'[t] = batch[t] /\ reap'[t] = reap[t]
  BY <1>1, <1>2 DEF IInv, TypeOK, TasksTyped, OthersKept, Goto, PC, Outcome
<1>8. HandsOf(t)' /\ RunOf(t)'
  BY <1>2, <1>3, <1>7 DEF IInv, HandsOK, HandsOf, RunOf, Used, ReapPC
<1> QED BY <1>5, <1>6, <1>7, <1>8, Frame

\* A claim splits its entries into those to dead-letter, which the lookup has to have
\* counted, and those to process.
LEMMA ClaimSplits ==
  ASSUME NEW t \in Task, NEW S \in SUBSET Id, Claim(t, S)
  PROVE  \E over \in SUBSET S :
           /\ \A i \in S \ over : RedisErrors \/ i \notin Probe \/ ~ Bump(entry[i].times) > Budget
           /\ IF over # {}
              THEN /\ reap' = [reap EXCEPT ![t] = over]
                   /\ batch' = [batch EXCEPT ![t] = S \ over]
                   /\ Goto(t, "reapAdd") /\ UNCHANGED cur
              ELSE \E i \in S \ over :
                   /\ Goto(t, "start") /\ cur' = [cur EXCEPT ![t] = i]
                   /\ batch' = [batch EXCEPT ![t] = (S \ over) \ {i}] /\ UNCHANGED reap
<1> DEFINE over(c) == {i \in S \cap c : Bump(entry[i].times) > Budget}
<1>1. PICK c \in Counted :
        IF over(c) # {}
        THEN /\ reap' = [reap EXCEPT ![t] = over(c)]
             /\ batch' = [batch EXCEPT ![t] = S \ over(c)]
             /\ Goto(t, "reapAdd") /\ UNCHANGED cur
        ELSE \E i \in S \ over(c) :
             /\ FirstOf(i, S \ over(c)) /\ Goto(t, "start") /\ cur' = [cur EXCEPT ![t] = i]
             /\ batch' = [batch EXCEPT ![t] = (S \ over(c)) \ {i}] /\ UNCHANGED reap
  BY Zenon DEF Claim
<1>2. c = Probe \/ RedisErrors
  BY DEF Counted
<1>3. /\ over(c) \in SUBSET S
      /\ \A i \in S \ over(c) : RedisErrors \/ i \notin Probe \/ ~ Bump(entry[i].times) > Budget
  BY <1>2
<1> HIDE DEF over
<1> QED BY <1>1, <1>3, Zenon

LEMMA ClaimKeeps ==
  ASSUME IInv, NEW t \in Task, NEW S \in SUBSET Id, Claim(t, S) PROVE IInv'
<1>1. /\ entry' = [i \in Id |-> IF i \in S
                       THEN [entry[i] EXCEPT !.times = Bump(@), !.owner = t]
                       ELSE entry[i]]
      /\ \A i \in S : Pending(i)
      /\ UNCHANGED <<status, nextId, retry, dlq, outcome, late, succeeded>>
  BY DEF Claim, MayBeIdle
<1>2. \A i \in S : Used(i) /\ i # 0
  <2> SUFFICES ASSUME NEW i \in S PROVE Used(i) /\ i # 0
    OBVIOUS
  <2>1. i \in Id /\ entry[i].state # "free"
    BY <1>1 DEF Pending
  <2>2. ~ (nextId <= i)
    BY <2>1 DEF IInv, StreamOK
  <2> QED BY <2>1, <2>2 DEF IInv, TypeOK, Used, Id
<1>3. /\ entry' \in [Id -> Entry]
      /\ \A k \in Id : /\ entry'[k].job = entry[k].job
                        /\ entry'[k].state = entry[k].state
  <2>1. \A i \in Id : Bump(entry[i].times) \in Nat
    BY DEF Bump, IInv, TypeOK, Entry
  <2>2. entry \in [Id -> Entry]
    BY DEF IInv, TypeOK
  <2>3. \A k \in Id : k \in S => /\ entry'[k] = [entry[k] EXCEPT !.times = Bump(@), !.owner = t]
                                  /\ entry[k] \in Entry
    BY ONLY <1>1, <2>2
  <2>4. \A k \in Id : k \in S => /\ entry'[k] \in Entry /\ entry'[k].job = entry[k].job
                                  /\ entry'[k].state = entry[k].state
    <3> SUFFICES ASSUME NEW k \in S
                 PROVE  /\ entry'[k] \in Entry /\ entry'[k].job = entry[k].job
                        /\ entry'[k].state = entry[k].state
      OBVIOUS
    <3> DEFINE n == Bump(entry[k].times)
    <3>1. n \in Nat /\ entry[k] \in Entry /\ entry'[k] = [entry[k] EXCEPT !.times = n, !.owner = t]
      BY <2>1, <2>3
    <3> HIDE DEF n
    <3> QED BY ONLY <3>1, t \in Task DEF Entry
  <2>5. \A k \in Id : k \notin S => entry'[k] = entry[k] /\ entry[k] \in Entry
    BY ONLY <1>1, <2>2
  <2>6. entry' \in [Id -> Entry]
    BY ONLY <1>1, <2>4, <2>5
  <2> QED BY ONLY <2>4, <2>5, <2>6
<1>4. StreamOK' /\ EntriesKept
  BY <1>1, <1>3, SameJobs DEF IInv
<1>5. QueueTyped' /\ QueueKept /\ OnlyAccepted' /\ DoneMeansRan'
  BY <1>1, <1>3, <1>4, EntrySame
<1>6. \/ \E over, rest \in SUBSET S :
            /\ over # {}
            /\ reap' = [reap EXCEPT ![t] = over]
            /\ batch' = [batch EXCEPT ![t] = rest]
            /\ Goto(t, "reapAdd") /\ UNCHANGED cur
      \/ \E rest \in SUBSET S : \E i \in rest :
            /\ Goto(t, "start") /\ cur' = [cur EXCEPT ![t] = i]
            /\ batch' = [batch EXCEPT ![t] = rest \ {i}] /\ UNCHANGED reap
  <2> PICK over \in SUBSET S :
        IF over # {}
        THEN /\ reap' = [reap EXCEPT ![t] = over]
             /\ batch' = [batch EXCEPT ![t] = S \ over]
             /\ Goto(t, "reapAdd") /\ UNCHANGED cur
        ELSE \E i \in S \ over :
             /\ Goto(t, "start") /\ cur' = [cur EXCEPT ![t] = i]
             /\ batch' = [batch EXCEPT ![t] = (S \ over) \ {i}] /\ UNCHANGED reap
    BY ClaimSplits
  <2> DEFINE rest == S \ over
  <2>1. rest \in SUBSET S
    OBVIOUS
  <2> QED BY <2>1
<1>7. TasksTyped' /\ OthersKept(t) /\ HandsOf(t)' /\ pc'[t] \in {"reapAdd", "start"}
  <2>0. late' \in [Task -> BOOLEAN] /\ outcome' \in [Task -> Outcome] /\ nextId' = nextId
    BY <1>1 DEF IInv, TypeOK
  <2>1. ASSUME NEW over \in SUBSET S, NEW rest \in SUBSET S,
               reap' = [reap EXCEPT ![t] = over],
               batch' = [batch EXCEPT ![t] = rest],
               Goto(t, "reapAdd"), UNCHANGED cur
        PROVE  TasksTyped' /\ OthersKept(t) /\ HandsOf(t)' /\ pc'[t] = "reapAdd"
    <3>1. TasksTyped' /\ OthersKept(t)
      BY <2>0, <2>1 DEF IInv, TypeOK, TasksTyped, OthersKept, Goto, PC
    <3>2. pc'[t] = "reapAdd" /\ cur'[t] = cur[t] /\ batch'[t] = rest /\ reap'[t] = over
      BY <2>1 DEF IInv, TypeOK, Goto
    <3> QED BY <1>2, <2>0, <3>1, <3>2 DEF HandsOf, IInv, HandsOK, Used, ReapPC
  <2>2. ASSUME NEW rest \in SUBSET S, NEW i \in rest,
               Goto(t, "start"), cur' = [cur EXCEPT ![t] = i],
               batch' = [batch EXCEPT ![t] = rest \ {i}], UNCHANGED reap
        PROVE  TasksTyped' /\ OthersKept(t) /\ HandsOf(t)' /\ pc'[t] = "start"
    <3>1. TasksTyped' /\ OthersKept(t)
      BY <2>0, <2>2 DEF IInv, TypeOK, TasksTyped, OthersKept, Goto, PC
    <3>2. pc'[t] = "start" /\ cur'[t] = i /\ batch'[t] = rest \ {i} /\ reap'[t] = reap[t]
      BY <2>2 DEF IInv, TypeOK, Goto
    <3> QED BY <1>2, <2>0, <3>1, <3>2 DEF HandsOf, IInv, HandsOK, Used, ReapPC
  <2> QED BY <1>6, <2>1, <2>2
<1>8. RunOf(t)'
  BY <1>7 DEF RunOf
<1> QED BY <1>4, <1>5, <1>7, <1>8, Frame

LEMMA MarkRunningKeeps == ASSUME IInv, NEW t \in Task, MarkRunning(t) PROVE IInv'
<1>1. pc[t] = "start" /\ UNCHANGED <<entry, nextId, retry, dlq, succeeded>>
  BY DEF MarkRunning, At
<1>2. CASE HSetStatus(CurJob(t), "running") /\ Goto(t, "fire") /\ KeepTask(t)
  <2>1. QueueTyped' /\ StreamOK' /\ QueueKept /\ OnlyAccepted' /\ DoneMeansRan'
    BY <1>1, <1>2, CurJobIs, StatusEffect DEF ReapPC, JobStatus
  <2>2. TasksTyped' /\ OthersKept(t) /\ HandsOf(t)' /\ pc'[t] = "fire"
    <3>1. outcome' \in [Task -> Outcome] /\ KeepHands(t)
      BY <1>2 DEF KeepTask, IInv, TypeOK
    <3> QED BY <1>1, <1>2, <3>1, GotoEffect DEF PC, ReapPC
  <2>3. RunOf(t)'
    BY <2>2 DEF RunOf
  <2> QED BY <2>1, <2>2, <2>3, Frame
<1>3. CASE Abandon(t) /\ UNCHANGED status
  BY <1>1, <1>3, QueueSame, AbandonEffect, Frame DEF RunOf, IInv
<1> QED BY <1>2, <1>3 DEF MarkRunning

LEMMA FireKeeps == ASSUME IInv, NEW t \in Task, Fire(t) PROVE IInv'
<1>1. PICK o \in Outcome :
        /\ outcome' = [outcome EXCEPT ![t] = o]
        /\ Goto(t, IF o = "ok" THEN "done" ELSE "fail")
        /\ succeeded' = IF o = "ok" THEN succeeded \cup {CurJob(t)} ELSE succeeded
  BY DEF Fire
<1>2. pc[t] = "fire" /\ UNCHANGED <<queueVars, cur, batch, reap, late>>
  BY DEF Fire, At
<1>3. Used(cur[t]) /\ CurJob(t) \in Jobs
  BY <1>2, CurJobIs DEF ReapPC
<1>4. QueueTyped' /\ StreamOK' /\ QueueKept
  BY <1>1, <1>2, <1>3 DEF queueVars, IInv, TypeOK, QueueTyped, StreamOK, QueueKept,
                          EntriesKept, Used, Id
<1>5. OnlyAccepted'
  <2>1. Accepted(CurJob(t))
    BY <1>3 DEF IInv, OnlyAccepted, CurJob, Used
  <2>2. \A j \in succeeded' : Accepted(j)
    BY <1>1, <2>1 DEF IInv, OnlyAccepted
  <2> QED BY <1>2, <2>2 DEF queueVars, IInv, OnlyAccepted, Accepted, Used
<1>6. DoneMeansRan'
  BY <1>1, <1>2 DEF queueVars, IInv, DoneMeansRan
<1>7. TasksTyped' /\ OthersKept(t) /\ HandsOf(t)'
      /\ pc'[t] = (IF o = "ok" THEN "done" ELSE "fail") /\ cur'[t] = cur[t]
  <2>1. outcome' \in [Task -> Outcome] /\ KeepHands(t) /\ UNCHANGED nextId
    BY <1>1, <1>2 DEF queueVars, KeepHands, IInv, TypeOK
  <2>2. (IF o = "ok" THEN "done" ELSE "fail") \in PC
    BY DEF PC
  <2> QED BY <1>1, <1>2, <2>1, <2>2, GotoEffect DEF ReapPC
<1>8. RunOf(t)'
  <2>1. pc'[t] \in {"done", "ackDone", "signal"} => o = "ok"
    BY <1>7
  <2>2. entry' = entry
    BY <1>2 DEF queueVars
  <2> QED BY <1>1, <1>7, <2>1, <2>2 DEF RunOf, CurJob
<1> QED BY <1>4, <1>5, <1>6, <1>7, <1>8, Frame

LEMMA FailAfterSuccessKeeps ==
  ASSUME IInv, NEW t \in Task, pc[t] \notin ReapPC \cup {"idle"}, FailAfterSuccess(t),
         UNCHANGED <<status, entry, nextId, retry, dlq, succeeded>>
  PROVE  IInv'
<1>1. /\ Goto(t, "fail") /\ KeepHands(t) /\ outcome' \in [Task -> Outcome]
      /\ UNCHANGED nextId
  BY DEF FailAfterSuccess, IInv, TypeOK, Outcome
<1>2. TasksTyped' /\ OthersKept(t) /\ HandsOf(t)' /\ pc'[t] = "fail"
  BY <1>1, GotoEffect DEF PC
<1> QED BY <1>2, QueueSame, Frame DEF RunOf, IInv

LEMMA MarkDoneKeeps == ASSUME IInv, NEW t \in Task, MarkDone(t) PROVE IInv'
<1>1. pc[t] = "done" /\ UNCHANGED <<entry, nextId, retry, dlq, succeeded>>
  BY DEF MarkDone, At
<1>2. Used(cur[t]) /\ CurJob(t) \in Jobs /\ CurJob(t) \in succeeded
  BY <1>1, CurJobIs DEF ReapPC, IInv, RunsOK
<1>3. CASE HSetStatus(CurJob(t), "done") /\ Goto(t, "ackDone") /\ KeepTask(t)
  <2>1. QueueTyped' /\ StreamOK' /\ QueueKept /\ OnlyAccepted' /\ DoneMeansRan'
    BY <1>1, <1>2, <1>3, StatusEffect DEF JobStatus
  <2>2. /\ TasksTyped' /\ OthersKept(t) /\ HandsOf(t)'
        /\ pc'[t] = "ackDone" /\ cur'[t] = cur[t]
    <3>1. outcome' \in [Task -> Outcome] /\ KeepHands(t)
      BY <1>3 DEF KeepTask, IInv, TypeOK
    <3> QED BY <1>1, <1>3, <3>1, GotoEffect DEF PC, ReapPC
  <2>3. RunOf(t)'
    BY <1>1, <1>2, <2>2 DEF RunOf, CurJob
  <2> QED BY <2>1, <2>2, <2>3, Frame
<1>4. CASE FailAfterSuccess(t) /\ UNCHANGED status
  BY <1>1, <1>4, FailAfterSuccessKeeps DEF ReapPC
<1> QED BY <1>3, <1>4 DEF MarkDone

\* The two acks of the consumer, which may or may not take effect.
LEMMA AckEffect ==
  ASSUME IInv, NEW t \in Task, pc[t] \notin ReapPC \cup {"idle"},
         XAck(cur[t]) \/ UNCHANGED entry,
         UNCHANGED <<status, nextId, retry, dlq, succeeded>>
  PROVE  QueueTyped' /\ StreamOK' /\ QueueKept /\ OnlyAccepted' /\ DoneMeansRan'
<1>1. cur[t] \in Id
  BY CurJobIs
<1>2. entry' \in [Id -> Entry] /\ StreamOK' /\ EntriesKept
  <2>1. CASE XAck(cur[t])
    BY <1>1, <2>1, XAckEffect DEF IInv
  <2>2. CASE UNCHANGED entry
    BY <2>2, SameJobs DEF IInv, TypeOK
  <2> QED BY <2>1, <2>2
<1> QED BY <1>2, EntrySame

LEMMA AckDoneKeeps == ASSUME IInv, NEW t \in Task, AckDone(t) PROVE IInv'
<1>1. /\ pc[t] = "ackDone" /\ Goto(t, "signal") /\ KeepTask(t)
      /\ XAck(cur[t]) \/ UNCHANGED entry
      /\ UNCHANGED <<status, nextId, retry, dlq, succeeded>>
  BY DEF AckDone, At
<1>2. Used(cur[t]) /\ CurJob(t) \in succeeded
  BY <1>1, CurJobIs DEF ReapPC, IInv, RunsOK
<1>3. QueueTyped' /\ StreamOK' /\ QueueKept /\ OnlyAccepted' /\ DoneMeansRan'
  BY <1>1, AckEffect DEF ReapPC
<1>4. /\ TasksTyped' /\ OthersKept(t) /\ HandsOf(t)'
      /\ pc'[t] = "signal" /\ cur'[t] = cur[t]
  <2>1. outcome' \in [Task -> Outcome] /\ KeepHands(t)
    BY <1>1 DEF KeepTask, IInv, TypeOK
  <2> QED BY <1>1, <2>1, GotoEffect DEF PC, ReapPC
<1>5. RunOf(t)'
  BY <1>2, <1>3, <1>4 DEF RunOf, CurJob, QueueKept, EntriesKept, Used
<1> QED BY <1>3, <1>4, <1>5, Frame

LEMMA SignalKeeps == ASSUME IInv, NEW t \in Task, Signal(t) PROVE IInv'
<1>1. pc[t] = "signal" /\ UNCHANGED <<status, entry, nextId, retry, dlq, succeeded>>
  BY DEF Signal, At, queueVars
<1>2. CASE NextJob(t)
  BY <1>1, <1>2, QueueSame, NextJobEffect, Frame DEF RunOf, IInv
<1>3. CASE FailAfterSuccess(t)
  BY <1>1, <1>3, FailAfterSuccessKeeps DEF ReapPC
<1> QED BY <1>2, <1>3 DEF Signal

LEMMA MarkFailedKeeps == ASSUME IInv, NEW t \in Task, MarkFailed(t) PROVE IInv'
<1>1. pc[t] = "fail" /\ UNCHANGED <<entry, nextId, retry, dlq, succeeded>>
  BY DEF MarkFailed, At
<1>2. ASSUME NEW s \in {"queued", "failed"}, HSetStatus(CurJob(t), s),
             Goto(t, "ackFail"), KeepTask(t)
      PROVE  IInv'
  <2>1. QueueTyped' /\ StreamOK' /\ QueueKept /\ OnlyAccepted' /\ DoneMeansRan'
    BY <1>1, <1>2, CurJobIs, StatusEffect DEF ReapPC, JobStatus
  <2>2. TasksTyped' /\ OthersKept(t) /\ HandsOf(t)' /\ pc'[t] = "ackFail"
    <3>1. outcome' \in [Task -> Outcome] /\ KeepHands(t)
      BY <1>2 DEF KeepTask, IInv, TypeOK
    <3> QED BY <1>1, <1>2, <3>1, GotoEffect DEF PC, ReapPC
  <2> QED BY <2>1, <2>2, Frame DEF RunOf
<1>3. CASE Abandon(t) /\ UNCHANGED status
  BY <1>1, <1>3, QueueSame, AbandonEffect, Frame DEF RunOf, IInv
<1> QED BY <1>2, <1>3 DEF MarkFailed

LEMMA AckFailedKeeps == ASSUME IInv, NEW t \in Task, AckFailed(t) PROVE IInv'
<1>1. /\ pc[t] = "ackFail" /\ Goto(t, "park") /\ KeepTask(t)
      /\ XAck(cur[t]) \/ UNCHANGED entry
      /\ UNCHANGED <<status, nextId, retry, dlq, succeeded>>
  BY DEF AckFailed, At
<1>2. QueueTyped' /\ StreamOK' /\ QueueKept /\ OnlyAccepted' /\ DoneMeansRan'
  BY <1>1, AckEffect DEF ReapPC
<1>3. TasksTyped' /\ OthersKept(t) /\ HandsOf(t)' /\ pc'[t] = "park"
  <2>1. outcome' \in [Task -> Outcome] /\ KeepHands(t)
    BY <1>1 DEF KeepTask, IInv, TypeOK
  <2> QED BY <1>1, <2>1, GotoEffect DEF PC, ReapPC
<1> QED BY <1>2, <1>3, Frame DEF RunOf

\* Adding an accepted job to the dead-letter stream or to the retry set.
LEMMA DlqEffect ==
  ASSUME IInv, NEW j \in Jobs, Accepted(j), dlq' = dlq \cup {j},
         UNCHANGED <<status, entry, nextId, retry, succeeded>>
  PROVE  QueueTyped' /\ StreamOK' /\ QueueKept /\ OnlyAccepted' /\ DoneMeansRan'
<1>1. QueueTyped' /\ StreamOK' /\ QueueKept
  BY DEF IInv, TypeOK, QueueTyped, StreamOK, QueueKept, EntriesKept, Used, Id
<1>2. OnlyAccepted' /\ DoneMeansRan'
  BY DEF IInv, OnlyAccepted, DoneMeansRan, Accepted, Used
<1> QED BY <1>1, <1>2

LEMMA RetryEffect ==
  ASSUME IInv, NEW j \in Jobs, Accepted(j), NEW r \in Retries, retry' = retry \cup {<<j, r>>},
         UNCHANGED <<status, entry, nextId, dlq, succeeded>>
  PROVE  QueueTyped' /\ StreamOK' /\ QueueKept /\ OnlyAccepted' /\ DoneMeansRan'
<1>1. QueueTyped' /\ StreamOK' /\ QueueKept
  BY DEF IInv, TypeOK, QueueTyped, StreamOK, QueueKept, EntriesKept, Used, Id
<1>2. OnlyAccepted' /\ DoneMeansRan'
  BY DEF IInv, OnlyAccepted, DoneMeansRan, Accepted, Used
<1> QED BY <1>1, <1>2

LEMMA ParkKeeps == ASSUME IInv, NEW t \in Task, Park(t) PROVE IInv'
<1>1. pc[t] = "park" /\ UNCHANGED <<status, entry, nextId, succeeded>>
  BY DEF Park, At
<1>2. cur[t] \in Id /\ CurJob(t) \in Jobs /\ Accepted(CurJob(t))
  BY <1>1, CurJobIs DEF ReapPC, IInv, OnlyAccepted, CurJob
<1>3. CASE WillRetry(t) /\ retry' = retry \cup {<<CurJob(t), entry[cur[t]].retries + 1>>}
           /\ NextJob(t) /\ UNCHANGED dlq
  <2>1. entry[cur[t]].retries + 1 \in Retries
    BY <1>2, <1>3, ConstantsOK DEF WillRetry, IInv, TypeOK, Entry, Retries
  <2>2. QueueTyped' /\ StreamOK' /\ QueueKept /\ OnlyAccepted' /\ DoneMeansRan'
    BY <1>1, <1>2, <1>3, <2>1, RetryEffect
  <2> QED BY <1>1, <1>3, <2>2, NextJobEffect, Frame DEF RunOf, IInv
<1>4. CASE dlq' = dlq \cup {CurJob(t)} /\ NextJob(t) /\ UNCHANGED retry
  <2>1. QueueTyped' /\ StreamOK' /\ QueueKept /\ OnlyAccepted' /\ DoneMeansRan'
    BY <1>1, <1>2, <1>4, DlqEffect
  <2> QED BY <1>1, <1>4, <2>1, NextJobEffect, Frame DEF RunOf, IInv
<1>5. CASE Abandon(t) /\ UNCHANGED <<retry, dlq>>
  BY <1>1, <1>5, QueueSame, AbandonEffect, Frame DEF RunOf, IInv
<1> QED BY <1>3, <1>4, <1>5 DEF Park

\* Giving up on dead-lettering an entry: it goes back among the jobs to process.
LEMMA ReapFailsKeeps ==
  ASSUME IInv, NEW t \in Task, NEW i \in Id, FirstOf(i, reap[t]), ReapFails(t, i),
         UNCHANGED <<status, entry, nextId, retry, dlq, succeeded>>
  PROVE  IInv'
<1>1. i \in reap[t] /\ ReapNext(t, i, batch[t] \cup {i})
  BY DEF FirstOf, ReapFails
<1>2. /\ TasksTyped' /\ OthersKept(t) /\ HandsOf(t)'
      /\ pc'[t] \in {"idle", "start", "reapAdd"}
  <2>1. batch[t] \cup {i} \in SUBSET (batch[t] \cup {i}) /\ batch[t] \subseteq batch[t] \cup {i}
    OBVIOUS
  <2> QED BY <1>1, <2>1, ReapNextEffect DEF IInv
<1> QED BY <1>2, QueueSame, Frame DEF RunOf

LEMMA ReapAddKeeps == ASSUME IInv, NEW t \in Task, ReapAdd(t) PROVE IInv'
<1>1. /\ pc[t] = "reapAdd" /\ UNCHANGED <<status, entry, nextId, retry, succeeded>>
  BY DEF ReapAdd, At
<1>2. PICK i \in Id : /\ FirstOf(i, reap[t])
                      /\ \/ /\ dlq' = dlq \cup {entry[i].job}
                            /\ Goto(t, "reapAck")
                            /\ KeepTask(t)
                         \/ ReapFails(t, i) /\ UNCHANGED dlq
  BY DEF ReapAdd
<1>3. Used(i) /\ entry[i].job \in Jobs /\ Accepted(entry[i].job)
  BY <1>2 DEF FirstOf, IInv, HandsOK, StreamOK, OnlyAccepted
<1>4. CASE dlq' = dlq \cup {entry[i].job} /\ Goto(t, "reapAck") /\ KeepTask(t)
  <2>1. QueueTyped' /\ StreamOK' /\ QueueKept /\ OnlyAccepted' /\ DoneMeansRan'
    BY <1>1, <1>3, <1>4, DlqEffect
  <2>2. /\ TasksTyped' /\ OthersKept(t) /\ HandsOf(t)'
        /\ pc'[t] = "reapAck" /\ reap'[t] = reap[t]
    <3>1. outcome' \in [Task -> Outcome] /\ KeepHands(t)
      BY <1>4 DEF KeepTask, IInv, TypeOK
    <3> QED BY <1>1, <1>4, <3>1, GotoEffect DEF PC, ReapPC
  <2>3. \A k \in Id : FirstOf(k, reap[t]) => k = i
    BY <1>2 DEF FirstOf, Id
  <2>4. RunOf(t)'
    BY <1>1, <1>4, <2>2, <2>3 DEF RunOf, FirstOf
  <2> QED BY <2>1, <2>2, <2>4, Frame
<1>5. CASE ReapFails(t, i) /\ UNCHANGED dlq
  BY <1>1, <1>2, <1>5, ReapFailsKeeps
<1> QED BY <1>2, <1>4, <1>5

LEMMA ReapAckKeeps == ASSUME IInv, NEW t \in Task, ReapAck(t) PROVE IInv'
<1>1. /\ pc[t] = "reapAck" /\ UNCHANGED <<status, nextId, retry, dlq, succeeded>>
  BY DEF ReapAck, At
<1>2. PICK i \in Id : /\ FirstOf(i, reap[t])
                      /\ \/ XAck(i) /\ Goto(t, "reapStatus") /\ KeepTask(t)
                         \/ ReapFails(t, i) /\ UNCHANGED entry
  BY DEF ReapAck
<1>3. CASE XAck(i) /\ Goto(t, "reapStatus") /\ KeepTask(t)
  <2>1. entry' \in [Id -> Entry] /\ StreamOK' /\ EntriesKept
    BY <1>1, <1>3, XAckEffect DEF IInv
  <2>2. QueueTyped' /\ QueueKept /\ OnlyAccepted' /\ DoneMeansRan'
    BY <1>1, <2>1, EntrySame
  <2>3. /\ TasksTyped' /\ OthersKept(t) /\ HandsOf(t)'
        /\ pc'[t] = "reapStatus" /\ reap'[t] = reap[t]
    <3>1. outcome' \in [Task -> Outcome] /\ KeepHands(t)
      BY <1>3 DEF KeepTask, IInv, TypeOK
    <3> QED BY <1>1, <1>3, <3>1, GotoEffect DEF PC, ReapPC
  <2>4. ASSUME NEW k \in Id, FirstOf(k, reap[t]) PROVE entry'[k].job \in dlq'
    BY <1>1, <2>1, <2>4 DEF IInv, RunsOK, HandsOK, EntriesKept, FirstOf
  <2>5. RunOf(t)'
    BY <2>3, <2>4 DEF RunOf, FirstOf
  <2> QED BY <2>1, <2>2, <2>3, <2>5, Frame
<1>4. CASE ReapFails(t, i) /\ UNCHANGED entry
  BY <1>1, <1>2, <1>4, ReapFailsKeeps
<1> QED BY <1>2, <1>3, <1>4

LEMMA ReapStatusKeeps == ASSUME IInv, NEW t \in Task, ReapStatus(t) PROVE IInv'
<1>1. /\ pc[t] = "reapStatus" /\ UNCHANGED <<entry, nextId, retry, dlq, succeeded>>
  BY DEF ReapStatus, At
<1>2. PICK i \in Id : /\ FirstOf(i, reap[t])
                      /\ \/ HSetStatus(entry[i].job, "failed") /\ ReapNext(t, i, batch[t])
                         \/ ReapFails(t, i) /\ UNCHANGED status
  BY DEF ReapStatus
<1>3. i \in reap[t] /\ entry[i].job \in Jobs
  BY <1>2 DEF FirstOf, IInv, HandsOK, StreamOK
<1>4. CASE HSetStatus(entry[i].job, "failed") /\ ReapNext(t, i, batch[t])
  <2>1. QueueTyped' /\ StreamOK' /\ QueueKept /\ OnlyAccepted' /\ DoneMeansRan'
    BY <1>1, <1>3, <1>4, StatusEffect DEF JobStatus
  <2>2. /\ TasksTyped' /\ OthersKept(t) /\ HandsOf(t)'
        /\ pc'[t] \in {"idle", "start", "reapAdd"}
    <3>1. batch[t] \in SUBSET (batch[t] \cup {i}) /\ batch[t] \subseteq batch[t]
      OBVIOUS
    <3> QED BY <1>1, <1>3, <1>4, <3>1, ReapNextEffect DEF IInv
  <2> QED BY <2>1, <2>2, Frame DEF RunOf
<1>5. CASE ReapFails(t, i) /\ UNCHANGED status
  BY <1>1, <1>2, <1>5, ReapFailsKeeps
<1> QED BY <1>2, <1>4, <1>5

LEMMA CrashKeeps == ASSUME IInv, NEW p \in Procs, Crash(p) PROVE IInv'
<1>1. UNCHANGED <<status, entry, nextId, retry, dlq, succeeded>>
  BY DEF Crash, queueVars
<1>2. TasksTyped'
  BY DEF Crash, IInv, TypeOK, TasksTyped, PC, Outcome
<1>3. \A u \in Task : \/ /\ pc'[u] = pc[u] /\ cur'[u] = cur[u]
                         /\ batch'[u] = batch[u] /\ reap'[u] = reap[u]
                      \/ /\ pc'[u] = "idle" /\ cur'[u] = 0
                         /\ batch'[u] = {} /\ reap'[u] = {}
  BY DEF Crash
<1>4. QueueTyped' /\ StreamOK' /\ OnlyAccepted' /\ DoneMeansRan'
  BY <1>1, QueueSame
<1>5. HandsOK'
  BY <1>1, <1>3 DEF IInv, HandsOK, Used
<1>6. RunsOK'
  BY <1>1, <1>3 DEF IInv, RunsOK, CurJob, FirstOf
<1> QED BY <1>2, <1>4, <1>5, <1>6 DEF IInv, TypeOK, QueueTyped, TasksTyped

-----------------------------------------------------------------------------

LEMMA InitOK == Init => IInv
<1> SUFFICES ASSUME Init PROVE IInv
  OBVIOUS
<1>1. MaxEntries \in Nat /\ MaxRetries \in Nat
  BY ConstantsOK
<1>2. FreeEntry \in Entry
  BY <1>1 DEF FreeEntry, Entry, Retries
<1>3. TypeOK
  BY <1>1, <1>2 DEF Init, TypeOK, JobStatus, PC, Outcome
<1>4. StreamOK /\ HandsOK
  BY <1>1 DEF Init, StreamOK, HandsOK, FreeEntry, Used, Id
<1>5. RunsOK /\ OnlyAccepted /\ DoneMeansRan
  BY <1>1 DEF Init, RunsOK, OnlyAccepted, DoneMeansRan, Used, Id
<1> QED BY <1>3, <1>4, <1>5 DEF IInv

LEMMA StutterKeeps == ASSUME IInv, UNCHANGED vars PROVE IInv'
<1>1. UNCHANGED <<status, entry, nextId, retry, dlq, pc, cur, outcome, batch, reap,
                  late, succeeded>>
  BY DEF vars, queueVars, taskVars
<1>2. QueueTyped' /\ StreamOK' /\ OnlyAccepted' /\ DoneMeansRan'
  BY <1>1, QueueSame
<1>3. HandsOK' /\ RunsOK'
  BY <1>1 DEF IInv, HandsOK, RunsOK, Used, CurJob, FirstOf
<1> QED BY <1>1, <1>2, <1>3 DEF IInv, TypeOK, QueueTyped

LEMMA StepKeeps == IInv /\ [Next]_vars => IInv'
<1> SUFFICES ASSUME IInv, [Next]_vars PROVE IInv'
  OBVIOUS
<1>1. ASSUME NEW j \in Jobs, Enqueue(j) PROVE IInv'
  BY <1>1, EnqueueKeeps
<1>2. CASE PromoteAny
  BY <1>2, PromoteKeeps DEF PromoteAny
<1>3. ASSUME NEW t \in Task, Read(t) PROVE IInv'
  BY <1>3, ReadKeeps
<1>4. ASSUME NEW t \in Task, Work(t) PROVE IInv'
  BY <1>4, MarkRunningKeeps, FireKeeps, MarkDoneKeeps, AckDoneKeeps, SignalKeeps,
     MarkFailedKeeps, AckFailedKeeps, ParkKeeps, ReapAddKeeps, ReapAckKeeps,
     ReapStatusKeeps DEF Work
<1>5. ASSUME NEW t \in Task, NEW S \in SUBSET Id, Claim(t, S) PROVE IInv'
  BY <1>5, ClaimKeeps
<1>6. ASSUME NEW p \in Procs, Crash(p) PROVE IInv'
  BY <1>6, CrashKeeps
<1>7. CASE UNCHANGED vars
  BY <1>7, StutterKeeps
<1> QED BY <1>1, <1>2, <1>3, <1>4, <1>5, <1>6, <1>7 DEF Next

\* The inductive invariant holds of every run, whatever the number of workers,
\* jobs and stream ids, with slow runs, crashes and Redis errors anywhere.
THEOREM Invariant == Spec => []IInv
BY InitOK, StepKeeps, PTL DEF Spec

\* The queue's state stays within its types.
THEOREM TypeCorrect == Spec => []TypeOK
BY Invariant, PTL DEF IInv

\* A job shown as "done" (get_status) has had its handler return a result.
THEOREM DoneIsTrue == Spec => []DoneMeansRan
BY Invariant, PTL DEF IInv

-----------------------------------------------------------------------------
(* No step but the fault between mark_failed's ack and its park loses a job. *)

\* A step that takes nothing away from what a job can be held by.
Grows ==
    /\ succeeded \subseteq succeeded' /\ dlq \subseteq dlq' /\ retry \subseteq retry'
    /\ \A i \in Id : InStream(i) => InStream(i)' /\ entry'[i].job = entry[i].job
    /\ \A t \in Task : At(t, "park") => At(t, "park")' /\ CurJob(t)' = CurJob(t)

LEMMA GrowsHolds == ASSUME Grows, NEW j \in Jobs, Held(j) PROVE Held(j)'
BY DEF Grows, Held, InStream, At, CurJob

\* A step of a task that is not parking, and leaves the queue alone or adds to it.
LEMMA MoveGrows ==
  ASSUME IInv, NEW t \in Task, ~ At(t, "park"), UNCHANGED entry,
         succeeded \subseteq succeeded', dlq \subseteq dlq', retry \subseteq retry',
         \A u \in Task : u # t => pc'[u] = pc[u] /\ cur'[u] = cur[u]
  PROVE  Grows
BY DEF Grows, InStream, At, CurJob

\* The fault that loses a job: a task forgets it between the ack and the park.
Gap(j) == \E t \in Task : /\ At(t, "park") /\ CurJob(t) = j
                          /\ pc'[t] = "idle" /\ GapFaults

LEMMA ReapNextMoves ==
  ASSUME IInv, NEW t \in Task, NEW i \in Id, NEW rest, ReapNext(t, i, rest)
  PROVE  \A u \in Task : u # t => pc'[u] = pc[u] /\ cur'[u] = cur[u]
BY DEF ReapNext, Goto, IInv, TypeOK

LEMMA NextJobMoves ==
  ASSUME IInv, NEW t \in Task, NextJob(t)
  PROVE  \A u \in Task : u # t => pc'[u] = pc[u] /\ cur'[u] = cur[u]
BY DEF NextJob, Goto, IInv, TypeOK

LEMMA QuietGrows ==
  ASSUME IInv, NEW t \in Task,
         \/ MarkRunning(t) \/ Fire(t) \/ MarkDone(t) \/ Signal(t) \/ MarkFailed(t)
         \/ ReapAdd(t) \/ ReapStatus(t)
  PROVE  Grows
<1> DEFINE OnlyT == \A u \in Task : u # t => pc'[u] = pc[u] /\ cur'[u] = cur[u]
<1>1. CASE MarkRunning(t)
  <2>1. OnlyT
    BY <1>1 DEF MarkRunning, Goto, KeepTask, KeepHands, Abandon, IInv, TypeOK
  <2> QED BY <1>1, <2>1, MoveGrows DEF MarkRunning, At
<1>2. CASE Fire(t)
  <2>1. OnlyT /\ succeeded \subseteq succeeded'
    BY <1>2 DEF Fire, Goto, IInv, TypeOK
  <2> QED BY <1>2, <2>1, MoveGrows DEF Fire, At, queueVars
<1>3. CASE MarkDone(t)
  <2>1. OnlyT
    BY <1>3 DEF MarkDone, Goto, KeepTask, KeepHands, FailAfterSuccess, IInv, TypeOK
  <2> QED BY <1>3, <2>1, MoveGrows DEF MarkDone, At
<1>4. CASE Signal(t)
  <2>1. OnlyT
    BY <1>4, NextJobMoves DEF Signal, Goto, KeepHands, FailAfterSuccess, IInv, TypeOK
  <2> QED BY <1>4, <2>1, MoveGrows DEF Signal, At, queueVars
<1>5. CASE MarkFailed(t)
  <2>1. OnlyT
    BY <1>5 DEF MarkFailed, Goto, KeepTask, KeepHands, Abandon, IInv, TypeOK
  <2> QED BY <1>5, <2>1, MoveGrows DEF MarkFailed, At
<1>6. CASE ReapAdd(t)
  <2>1. OnlyT /\ dlq \subseteq dlq'
    BY <1>6, ReapNextMoves DEF ReapAdd, ReapFails, Goto, KeepTask, KeepHands, IInv, TypeOK
  <2> QED BY <1>6, <2>1, MoveGrows DEF ReapAdd, At
<1>7. CASE ReapStatus(t)
  <2>1. OnlyT
    BY <1>7, ReapNextMoves DEF ReapStatus, ReapFails, IInv, TypeOK
  <2> QED BY <1>7, <2>1, MoveGrows DEF ReapStatus, At
<1> QED BY <1>1, <1>2, <1>3, <1>4, <1>5, <1>6, <1>7

\* XADD: every used entry stays, and so does every task.
LEMMA XAddHolds ==
  ASSUME IInv, NEW j \in Jobs, NEW r \in Retries, XAdd(j, r),
         UNCHANGED <<dlq, taskVars, succeeded>>, NEW k \in Jobs, Held(k),
         \A q \in Retries : <<k, q>> \in retry => <<k, q>> \in retry' \/ k = j
  PROVE  Held(k)'
<1>1. /\ \A i \in Id : i # nextId => entry'[i] = entry[i]
      /\ nextId \in Id /\ entry[nextId].state = "free" /\ EntriesKept
      /\ entry'[nextId].job = j /\ entry'[nextId].state = "unread"
  <2>1. entry[nextId].state = "free"
    BY DEF XAdd, IInv, StreamOK, Id, TypeOK
  <2> QED BY <2>1, XAddEffect DEF IInv
<1>2. Held(j)'
  BY <1>1 DEF Held, InStream
<1>3. CASE \E i \in Id : InStream(i) /\ entry[i].job = k
  BY <1>1, <1>3 DEF Held, InStream
<1>4. CASE \E t \in Task : At(t, "park") /\ CurJob(t) = k
  <2> PICK t \in Task : At(t, "park") /\ CurJob(t) = k
    BY <1>4
  <2>1. Used(cur[t])
    BY CurJobIs DEF At, ReapPC
  <2>2. CurJob(t)' = k /\ At(t, "park")'
    BY <1>1, <2>1 DEF CurJob, EntriesKept, At, taskVars, Used
  <2> QED BY <2>2 DEF Held
<1>5. CASE k \in succeeded \/ k \in dlq
  BY <1>5 DEF Held
<1>6. CASE \E q \in Retries : <<k, q>> \in retry
  BY <1>2, <1>6 DEF Held
<1> QED BY <1>3, <1>4, <1>5, <1>6 DEF Held

\* A step that takes one entry i off the pending list.
LEMMA XAckHolds ==
  ASSUME IInv, NEW t \in Task, pc[t] # "idle", NEW i \in Id, Used(i),
         XAck(i) \/ UNCHANGED entry, UNCHANGED <<nextId, retry, dlq, succeeded, cur>>,
         \A u \in Task : At(u, "park") => At(u, "park")',
         Held(entry[i].job)', NEW j \in Jobs, Held(j)
  PROVE  Held(j)'
<1>1. /\ \A k \in Id : k # i => entry'[k] = entry[k]
      /\ \A k \in Id : Used(k) => entry'[k].job = entry[k].job
  <2>1. CASE XAck(i)
    BY <2>1, XAckEffect DEF IInv, EntriesKept
  <2> QED BY <2>1
<1>2. CASE \E k \in Id : InStream(k) /\ entry[k].job = j
  BY <1>1, <1>2 DEF Held, InStream
<1>3. CASE \E u \in Task : At(u, "park") /\ CurJob(u) = j
  <2> PICK u \in Task : At(u, "park") /\ CurJob(u) = j
    BY <1>3
  <2>1. Used(cur[u])
    BY CurJobIs DEF At, ReapPC
  <2>2. CurJob(u)' = j /\ At(u, "park")'
    BY <1>1, <2>1 DEF CurJob, Used
  <2> QED BY <2>2 DEF Held
<1> QED BY <1>2, <1>3 DEF Held

LEMMA AckDoneHolds ==
  ASSUME IInv, NEW t \in Task, AckDone(t), NEW j \in Jobs, Held(j) PROVE Held(j)'
<1>1. /\ pc[t] = "ackDone" /\ UNCHANGED <<nextId, retry, dlq, succeeded, cur>>
      /\ XAck(cur[t]) \/ UNCHANGED entry
  BY DEF AckDone, At, KeepTask, KeepHands
<1>2. Used(cur[t]) /\ cur[t] \in Id /\ CurJob(t) \in succeeded
  BY <1>1, CurJobIs DEF ReapPC, IInv, RunsOK
<1>3. Held(entry[cur[t]].job)'
  <2>1. entry'[cur'[t]].job = entry[cur[t]].job
    BY <1>1, <1>2, XAckEffect DEF IInv, EntriesKept
  <2> QED BY <1>1, <1>2, <2>1 DEF Held, CurJob
<1>4. \A u \in Task : At(u, "park") => At(u, "park")'
  BY <1>1 DEF AckDone, At, Goto, IInv, TypeOK
<1> QED BY <1>1, <1>2, <1>3, <1>4, XAckHolds

LEMMA AckFailedHolds ==
  ASSUME IInv, NEW t \in Task, AckFailed(t), NEW j \in Jobs, Held(j) PROVE Held(j)'
<1>1. /\ pc[t] = "ackFail" /\ UNCHANGED <<nextId, retry, dlq, succeeded, cur>>
      /\ XAck(cur[t]) \/ UNCHANGED entry
      /\ Goto(t, "park")
  BY DEF AckFailed, At, KeepTask, KeepHands
<1>2. Used(cur[t]) /\ cur[t] \in Id
  BY <1>1, CurJobIs DEF ReapPC
<1>3. \A u \in Task : At(u, "park") => At(u, "park")'
  BY <1>1 DEF At, Goto, IInv, TypeOK
<1>4. Held(entry[cur[t]].job)'
  <2>1. entry'[cur[t]].job = entry[cur[t]].job
    BY <1>1, <1>2, XAckEffect DEF IInv, EntriesKept
  <2>2. At(t, "park")'
    BY <1>1 DEF At, Goto, IInv, TypeOK
  <2> QED BY <1>1, <2>1, <2>2 DEF Held, CurJob
<1> QED BY <1>1, <1>2, <1>3, <1>4, XAckHolds

LEMMA ReapAckHolds ==
  ASSUME IInv, NEW t \in Task, ReapAck(t), NEW j \in Jobs, Held(j) PROVE Held(j)'
<1>1. pc[t] = "reapAck" /\ UNCHANGED <<nextId, retry, dlq, succeeded>>
  BY DEF ReapAck, At
<1>2. PICK i \in Id : /\ FirstOf(i, reap[t])
                      /\ \/ XAck(i) /\ Goto(t, "reapStatus") /\ KeepTask(t)
                         \/ ReapFails(t, i) /\ UNCHANGED entry
  BY DEF ReapAck
<1>3. Used(i) /\ entry[i].job \in dlq
  BY <1>1, <1>2 DEF IInv, RunsOK, HandsOK, FirstOf
<1>4. CASE XAck(i) /\ Goto(t, "reapStatus") /\ KeepTask(t)
  <2>1. entry'[i].job = entry[i].job
    BY <1>1, <1>3, <1>4, XAckEffect DEF IInv, EntriesKept
  <2>2. Held(entry[i].job)'
    BY <1>1, <1>3, <2>1 DEF Held
  <2>3. \A u \in Task : At(u, "park") => At(u, "park")'
    BY <1>1, <1>4 DEF At, Goto, IInv, TypeOK
  <2> QED BY <1>1, <1>3, <1>4, <2>2, <2>3, XAckHolds DEF KeepTask, KeepHands
<1>5. CASE ReapFails(t, i) /\ UNCHANGED entry
  <2>1. \A u \in Task : u # t => pc'[u] = pc[u] /\ cur'[u] = cur[u]
    BY <1>5, ReapNextMoves DEF ReapFails
  <2> QED BY <1>1, <1>5, <2>1, MoveGrows, GrowsHolds DEF At
<1> QED BY <1>2, <1>4, <1>5

LEMMA ParkHolds ==
  ASSUME IInv, NEW t \in Task, Park(t), NEW j \in Jobs, Held(j)
  PROVE  Held(j)' \/ Gap(j)
<1>1. pc[t] = "park" /\ UNCHANGED <<status, entry, nextId, succeeded>>
  BY DEF Park, At
<1>2. /\ dlq \subseteq dlq' /\ retry \subseteq retry'
      /\ \A u \in Task : u # t => pc'[u] = pc[u] /\ cur'[u] = cur[u]
  <2>1. NextJob(t) \/ Abandon(t)
    BY DEF Park
  <2>2. \A u \in Task : u # t => pc'[u] = pc[u] /\ cur'[u] = cur[u]
    BY <2>1, NextJobMoves DEF Abandon, Goto, IInv, TypeOK
  <2> QED BY <2>2 DEF Park
<1>3. CASE CurJob(t) = j
  <2>1. CASE WillRetry(t) /\ retry' = retry \cup {<<CurJob(t), entry[cur[t]].retries + 1>>}
    <3>1. entry[cur[t]].retries + 1 \in Retries
      <4>1. cur[t] \in Id
        BY <1>1, CurJobIs DEF ReapPC
      <4> QED BY <2>1, <4>1, ConstantsOK DEF WillRetry, IInv, TypeOK, Entry, Retries
    <3> QED BY <1>3, <2>1, <3>1 DEF Held
  <2>2. CASE dlq' = dlq \cup {CurJob(t)}
    BY <1>3, <2>2 DEF Held
  <2>3. CASE GapFaults /\ Abandon(t)
    BY <1>1, <1>3, <2>3 DEF Gap, Abandon, At, Goto, IInv, TypeOK
  <2> QED BY <2>1, <2>2, <2>3 DEF Park
<1>4. CASE CurJob(t) # j
  BY <1>1, <1>2, <1>4 DEF Held, InStream, At, CurJob
<1> QED BY <1>3, <1>4

LEMMA CrashHolds ==
  ASSUME IInv, NEW p \in Procs, Crash(p), NEW j \in Jobs, Held(j)
  PROVE  Held(j)' \/ Gap(j)
<1>1. UNCHANGED <<status, entry, nextId, retry, dlq, succeeded>>
  BY DEF Crash, queueVars
<1>2. CASE \E t \in Task : At(t, "park") /\ CurJob(t) = j
  <2> PICK t \in Task : At(t, "park") /\ CurJob(t) = j
    BY <1>2
  <2>1. CASE t \in TasksOf(p)
    <3>1. GapFaults
      BY <2>1 DEF Crash
    <3> QED BY <2>1, <3>1 DEF Crash, Gap
  <2>2. CASE t \notin TasksOf(p)
    BY <1>1, <2>2 DEF Crash, Held, At, CurJob
  <2> QED BY <2>1, <2>2
<1>3. CASE ~ \E t \in Task : At(t, "park") /\ CurJob(t) = j
  BY <1>1, <1>3 DEF Held, InStream
<1> QED BY <1>2, <1>3

LEMMA EnqueueHolds ==
  ASSUME IInv, NEW j \in Jobs, Enqueue(j), NEW k \in Jobs, Held(k) PROVE Held(k)'
<1>1. 0 \in Retries /\ XAdd(j, 0) /\ UNCHANGED <<retry, dlq, taskVars, succeeded>>
  BY ConstantsOK DEF Enqueue, Retries
<1> QED BY <1>1, XAddHolds

LEMMA PromoteHolds ==
  ASSUME IInv, NEW j \in Jobs, NEW r \in Retries, Promote(j, r), NEW k \in Jobs, Held(k)
  PROVE  Held(k)'
<1>1. /\ XAdd(j, r) /\ UNCHANGED <<dlq, taskVars, succeeded>>
      /\ retry' = retry \ {<<j, r>>}
  BY DEF Promote
<1> QED BY <1>1, XAddHolds

LEMMA ReadHolds ==
  ASSUME IInv, NEW t \in Task, Read(t), NEW k \in Jobs, Held(k) PROVE Held(k)'
<1>1. PICK i \in Id :
        /\ entry' = [entry EXCEPT ![i].state = "pending", ![i].times = 1, ![i].owner = t]
        /\ cur' = [cur EXCEPT ![t] = i]
        /\ Goto(t, "fail") \/ Goto(t, "start")
  BY DEF Read
<1>2. pc[t] = "idle" /\ UNCHANGED <<retry, dlq, succeeded>>
  BY DEF Read, At
<1>3. \A n \in Id : /\ entry'[n].job = entry[n].job
                    /\ entry'[n].state = IF n = i THEN "pending" ELSE entry[n].state
  BY <1>1 DEF IInv, TypeOK, Entry
<1>4. \A u \in Task : u # t => pc'[u] = pc[u] /\ cur'[u] = cur[u]
  BY <1>1 DEF Goto, IInv, TypeOK
<1>5. \A n \in Id : InStream(n) => InStream(n)' /\ entry'[n].job = entry[n].job
  BY <1>3 DEF InStream
<1>6. \A u \in Task : At(u, "park") => At(u, "park")' /\ CurJob(u)' = CurJob(u)
  BY <1>2, <1>3, <1>4, CurJobIs DEF At, CurJob, ReapPC
<1> QED BY <1>2, <1>5, <1>6, GrowsHolds DEF Grows

LEMMA ClaimHolds ==
  ASSUME IInv, NEW t \in Task, NEW S \in SUBSET Id, Claim(t, S), NEW k \in Jobs, Held(k)
  PROVE  Held(k)'
<1>1. /\ entry' = [i \in Id |-> IF i \in S
                       THEN [entry[i] EXCEPT !.times = Bump(@), !.owner = t]
                       ELSE entry[i]]
      /\ pc[t] = "idle" /\ UNCHANGED <<retry, dlq, succeeded>>
  BY DEF Claim, At
<1>2. \A n \in Id : entry'[n].job = entry[n].job /\ entry'[n].state = entry[n].state
  BY <1>1 DEF IInv, TypeOK, Entry
<1>3. \A u \in Task : u # t => pc'[u] = pc[u] /\ cur'[u] = cur[u]
  <2>1. \E p \in PC : Goto(t, p)
    BY DEF Claim, PC
  <2>2. UNCHANGED cur \/ \E i : cur' = [cur EXCEPT ![t] = i]
    BY DEF Claim
  <2> QED BY <2>1, <2>2 DEF Goto, IInv, TypeOK
<1>4. \A n \in Id : InStream(n) => InStream(n)' /\ entry'[n].job = entry[n].job
  BY <1>2 DEF InStream
<1>5. \A u \in Task : At(u, "park") => At(u, "park")' /\ CurJob(u)' = CurJob(u)
  BY <1>1, <1>2, <1>3, CurJobIs DEF At, CurJob, ReapPC
<1> QED BY <1>1, <1>4, <1>5, GrowsHolds DEF Grows

LEMMA StepHolds ==
  ASSUME IInv, [Next]_vars, NEW j \in Jobs, Held(j)
  PROVE  Held(j)' \/ Gap(j)
<1>1. ASSUME NEW k \in Jobs, Enqueue(k) PROVE Held(j)'
  BY <1>1, EnqueueHolds
<1>2. CASE PromoteAny
  BY <1>2, PromoteHolds DEF PromoteAny
<1>3. ASSUME NEW t \in Task, Read(t) PROVE Held(j)'
  BY <1>3, ReadHolds
<1>4. ASSUME NEW t \in Task, Work(t) PROVE Held(j)' \/ Gap(j)
  <2>1. \/ MarkRunning(t) \/ Fire(t) \/ MarkDone(t) \/ Signal(t) \/ MarkFailed(t)
        \/ ReapAdd(t) \/ ReapStatus(t) \/ AckDone(t) \/ AckFailed(t) \/ Park(t)
        \/ ReapAck(t)
    BY <1>4 DEF Work
  <2> QED BY <2>1, QuietGrows, GrowsHolds, AckDoneHolds, AckFailedHolds, ParkHolds,
             ReapAckHolds
<1>5. ASSUME NEW t \in Task, NEW S \in SUBSET Id, Claim(t, S) PROVE Held(j)'
  BY <1>5, ClaimHolds
<1>6. ASSUME NEW p \in Procs, Crash(p) PROVE Held(j)' \/ Gap(j)
  BY <1>6, CrashHolds
<1>7. CASE UNCHANGED vars
  <2>1. Held(j)'
    BY <1>7 DEF vars, queueVars, taskVars, Held, InStream, At, CurJob
  <2> QED BY <2>1
<1> QED BY <1>1, <1>2, <1>3, <1>4, <1>5, <1>6, <1>7 DEF Next

\* Whatever crashes, Redis errors, slow runs and duplicate deliveries do, an
\* accepted job is only ever lost by a fault between mark_failed's ack and its park.
THEOREM OnlyTheGap == Spec => OnlyTheGapLosesJobs
<1>1. IInv /\ [Next]_vars =>
        [ \A j \in Jobs : Accepted(j) /\ Held(j) /\ ~ Held(j)' =>
            \E t \in Task : At(t, "park") /\ CurJob(t) = j /\ pc'[t] = "idle" ]_vars
  BY StepHolds DEF Gap
<1> QED BY <1>1, Invariant, PTL DEF Spec, OnlyTheGapLosesJobs

-----------------------------------------------------------------------------
(* Without that fault the queue implements JobLedger.                      *)

\* What a step does to the three things the ledger is about.
SameAccepted == \A k \in Jobs : Accepted(k)' <=> Accepted(k)

AcceptStep(j) ==
    /\ ~ Accepted(j) /\ Accepted(j)' /\ Held(j)'
    /\ \A k \in Jobs : k # j => (Accepted(k)' <=> Accepted(k))
    /\ UNCHANGED <<succeeded, dlq>>
CompleteStep(j) ==
    SameAccepted /\ Accepted(j) /\ succeeded' = succeeded \cup {j} /\ UNCHANGED dlq
GiveUpStep(j) ==
    SameAccepted /\ Accepted(j) /\ dlq' = dlq \cup {j} /\ UNCHANGED succeeded
QuietStep == SameAccepted /\ UNCHANGED <<succeeded, dlq>>

LedgerStep ==
    QuietStep \/ \E j \in Jobs : AcceptStep(j) \/ CompleteStep(j) \/ GiveUpStep(j)

LEMMA StatusSameAccepted ==
  ASSUME IInv, NEW j \in Jobs, Accepted(j), NEW s \in JobStatus \ {"absent"},
         HSetStatus(j, s)
  PROVE  SameAccepted
BY DEF SameAccepted, Accepted, HSetStatus, IInv, TypeOK

LEMMA HandIsAccepted ==
  ASSUME IInv, NEW t \in Task, pc[t] \notin ReapPC \cup {"idle"}
  PROVE  CurJob(t) \in Jobs /\ Accepted(CurJob(t))
BY CurJobIs DEF IInv, OnlyAccepted, CurJob

LEMMA ReapIsAccepted ==
  ASSUME IInv, NEW t \in Task, NEW i \in Id, FirstOf(i, reap[t])
  PROVE  entry[i].job \in Jobs /\ Accepted(entry[i].job)
BY DEF FirstOf, IInv, HandsOK, StreamOK, OnlyAccepted

LEMMA WorkShape == ASSUME IInv, NEW t \in Task, Work(t) PROVE LedgerStep
<1>0. (UNCHANGED status) => SameAccepted
  BY DEF SameAccepted, Accepted
<1>1. CASE MarkRunning(t)
  <2>1. CurJob(t) \in Jobs /\ Accepted(CurJob(t))
    BY <1>1, HandIsAccepted DEF MarkRunning, At, ReapPC
  <2>2. SameAccepted
    BY <1>0, <1>1, <2>1, StatusSameAccepted DEF MarkRunning, JobStatus
  <2> QED BY <1>1, <2>2 DEF MarkRunning, LedgerStep, QuietStep
<1>2. CASE Fire(t)
  <2>1. CurJob(t) \in Jobs /\ Accepted(CurJob(t)) /\ SameAccepted
    BY <1>0, <1>2, HandIsAccepted DEF Fire, At, ReapPC, queueVars
  <2>2. UNCHANGED dlq /\ (UNCHANGED succeeded \/ succeeded' = succeeded \cup {CurJob(t)})
    BY <1>2 DEF Fire, queueVars
  <2> QED BY <2>1, <2>2 DEF LedgerStep, QuietStep, CompleteStep
<1>3. CASE MarkDone(t)
  <2>1. CurJob(t) \in Jobs /\ Accepted(CurJob(t))
    BY <1>3, HandIsAccepted DEF MarkDone, At, ReapPC
  <2>2. SameAccepted
    BY <1>0, <1>3, <2>1, StatusSameAccepted DEF MarkDone, JobStatus
  <2> QED BY <1>3, <2>2 DEF MarkDone, LedgerStep, QuietStep
<1>4. CASE AckDone(t) \/ Signal(t) \/ AckFailed(t) \/ ReapAck(t)
  <2>1. UNCHANGED <<status, succeeded, dlq>>
    BY <1>4 DEF AckDone, Signal, AckFailed, ReapAck, queueVars
  <2> QED BY <1>0, <2>1 DEF LedgerStep, QuietStep
<1>5. CASE MarkFailed(t)
  <2>1. CurJob(t) \in Jobs /\ Accepted(CurJob(t))
    BY <1>5, HandIsAccepted DEF MarkFailed, At, ReapPC
  <2>2. SameAccepted
    BY <1>0, <1>5, <2>1, StatusSameAccepted DEF MarkFailed, JobStatus
  <2> QED BY <1>5, <2>2 DEF MarkFailed, LedgerStep, QuietStep
<1>6. CASE Park(t)
  <2>1. CurJob(t) \in Jobs /\ Accepted(CurJob(t)) /\ SameAccepted
    BY <1>0, <1>6, HandIsAccepted DEF Park, At, ReapPC
  <2>2. UNCHANGED succeeded /\ (UNCHANGED dlq \/ dlq' = dlq \cup {CurJob(t)})
    BY <1>6 DEF Park
  <2> QED BY <2>1, <2>2 DEF LedgerStep, QuietStep, GiveUpStep
<1>7. CASE ReapAdd(t)
  <2>1. PICK i \in Id : /\ FirstOf(i, reap[t])
                        /\ dlq' = dlq \cup {entry[i].job} \/ UNCHANGED dlq
    BY <1>7 DEF ReapAdd
  <2>2. entry[i].job \in Jobs /\ Accepted(entry[i].job) /\ SameAccepted
    BY <1>0, <1>7, <2>1, ReapIsAccepted DEF ReapAdd
  <2> QED BY <1>7, <2>1, <2>2 DEF ReapAdd, LedgerStep, QuietStep, GiveUpStep
<1>8. CASE ReapStatus(t)
  <2>1. PICK i \in Id : /\ FirstOf(i, reap[t])
                        /\ HSetStatus(entry[i].job, "failed") \/ UNCHANGED status
    BY <1>8 DEF ReapStatus
  <2>2. entry[i].job \in Jobs /\ Accepted(entry[i].job)
    BY <2>1, ReapIsAccepted
  <2>3. SameAccepted
    BY <1>0, <2>1, <2>2, StatusSameAccepted DEF JobStatus
  <2> QED BY <1>8, <2>3 DEF ReapStatus, LedgerStep, QuietStep
<1> QED BY <1>1, <1>2, <1>3, <1>4, <1>5, <1>6, <1>7, <1>8 DEF Work

LEMMA StepShape == ASSUME IInv, [Next]_vars PROVE LedgerStep
<1>0. UNCHANGED <<status, succeeded, dlq>> => LedgerStep
  BY DEF SameAccepted, Accepted, LedgerStep, QuietStep
<1>1. ASSUME NEW j \in Jobs, Enqueue(j) PROVE LedgerStep
  <2>1. Held(j)'
    <3>1. 0 \in Retries /\ XAdd(j, 0)
      BY <1>1, ConstantsOK DEF Enqueue, Retries
    <3>2. nextId \in Id /\ entry'[nextId].job = j /\ entry'[nextId].state = "unread"
      BY <3>1, XAddEffect DEF IInv
    <3> QED BY <3>2 DEF Held, InStream
  <2>2. AcceptStep(j)
    BY <1>1, <2>1 DEF Enqueue, HSetStatus, AcceptStep, Accepted, IInv, TypeOK
  <2> QED BY <2>2 DEF LedgerStep
<1>2. CASE PromoteAny
  BY <1>0, <1>2 DEF PromoteAny, Promote
<1>3. ASSUME NEW t \in Task, Read(t) PROVE LedgerStep
  BY <1>0, <1>3 DEF Read
<1>4. ASSUME NEW t \in Task, Work(t) PROVE LedgerStep
  BY <1>4, WorkShape
<1>5. ASSUME NEW t \in Task, NEW S \in SUBSET Id, Claim(t, S) PROVE LedgerStep
  BY <1>0, <1>5 DEF Claim
<1>6. ASSUME NEW p \in Procs, Crash(p) PROVE LedgerStep
  BY <1>0, <1>6 DEF Crash, queueVars
<1>7. CASE UNCHANGED vars
  BY <1>0, <1>7 DEF vars, queueVars
<1> QED BY <1>1, <1>2, <1>3, <1>4, <1>5, <1>6, <1>7 DEF Next

LEMMA InitHolds == Init => NoJobLost
BY DEF Init, NoJobLost, Accepted

LEMMA StepLosesNone ==
  ASSUME IInv, NoJobLost, [Next]_vars, GapFaults = FALSE PROVE NoJobLost'
<1> SUFFICES ASSUME NEW j \in Jobs, Accepted(j)' PROVE Held(j)'
  BY DEF NoJobLost
<1>1. CASE Accepted(j)
  <2>1. Held(j)' \/ Gap(j)
    BY <1>1, StepHolds DEF NoJobLost
  <2> QED BY <2>1 DEF Gap
<1>2. CASE ~ Accepted(j)
  <2>1. AcceptStep(j)
    <3>1. LedgerStep
      BY StepShape
    <3> QED BY <1>2, <3>1 DEF LedgerStep, QuietStep, AcceptStep, CompleteStep, GiveUpStep,
                              SameAccepted
  <2> QED BY <2>1 DEF AcceptStep
<1> QED BY <1>1, <1>2

\* The documented promise, under the assumption it needs: no accepted job is lost
\* if no crash or Redis error strikes between mark_failed's ack and its park.
THEOREM NoneLost == ASSUME GapFaults = FALSE PROVE Spec => []NoJobLost
<1>1. IInv /\ NoJobLost /\ [Next]_vars => NoJobLost'
  BY StepLosesNone
<1> QED BY <1>1, InitHolds, Invariant, PTL DEF Spec

\* Where no job is lost, an accepted one is done, dead or owed.
Plain == [j \in Jobs |->
    IF ~ Accepted(j) THEN "new"
    ELSE IF j \in succeeded THEN "done"
    ELSE IF j \in dlq THEN "dead" ELSE "owed"]

LEMMA PlainStanding == NoJobLost => Standing = Plain
BY DEF NoJobLost, Standing, Plain

LEMMA LedgerMoves ==
  ASSUME IInv, LedgerStep, Standing = Plain, (Standing = Plain)'
  PROVE  [Ledger!Next]_Standing
<1>0. \A j \in Jobs : j \in succeeded \/ j \in dlq => Accepted(j)
  BY DEF IInv, OnlyAccepted
<1>1. CASE QuietStep
  <2>1. Plain' = Plain
    BY <1>1 DEF QuietStep, SameAccepted, Plain
  <2> QED BY <2>1
<1>2. ASSUME NEW j \in Jobs, AcceptStep(j) PROVE [Ledger!Next]_Standing
  <2>1. Plain[j] = "new"
    BY <1>2 DEF AcceptStep, Plain
  <2>2. Plain' = [Plain EXCEPT ![j] = "owed"]
    BY <1>0, <1>2 DEF AcceptStep, Plain
  <2> QED BY <2>1, <2>2 DEF Ledger!Next, Ledger!Accept, Ledger!Move
<1>3. ASSUME NEW j \in Jobs, CompleteStep(j) PROVE [Ledger!Next]_Standing
  <2>1. CASE j \in succeeded
    <3>1. Plain' = Plain
      BY <1>3, <2>1 DEF CompleteStep, SameAccepted, Plain
    <3> QED BY <3>1
  <2>2. CASE j \notin succeeded
    <3>1. Plain[j] \in {"owed", "dead"}
      BY <1>3, <2>2 DEF CompleteStep, Plain
    <3>2. Plain' = [Plain EXCEPT ![j] = "done"]
      BY <1>3, <2>2 DEF CompleteStep, SameAccepted, Plain
    <3> QED BY <3>1, <3>2 DEF Ledger!Next, Ledger!Complete, Ledger!Move
  <2> QED BY <2>1, <2>2
<1>4. ASSUME NEW j \in Jobs, GiveUpStep(j) PROVE [Ledger!Next]_Standing
  <2>1. CASE j \in succeeded \/ j \in dlq
    <3>1. Plain' = Plain
      BY <1>4, <2>1 DEF GiveUpStep, SameAccepted, Plain
    <3> QED BY <3>1
  <2>2. CASE j \notin succeeded /\ j \notin dlq
    <3>1. Plain[j] = "owed"
      BY <1>4, <2>2 DEF GiveUpStep, Plain
    <3>2. Plain' = [Plain EXCEPT ![j] = "dead"]
      BY <1>4, <2>2 DEF GiveUpStep, SameAccepted, Plain
    <3> QED BY <3>1, <3>2 DEF Ledger!Next, Ledger!GiveUp, Ledger!Move
  <2> QED BY <2>1, <2>2
<1> QED BY <1>1, <1>2, <1>3, <1>4 DEF LedgerStep

\* The queue implements JobLedger: crashes, redeliveries, duplicate runs, retries
\* and dead-lettering move a job only as the ledger allows.
THEOREM Implements == ASSUME GapFaults = FALSE PROVE Spec => KeepsTheLedger
<1>1. Init => Ledger!Init
  BY DEF Init, Ledger!Init, Standing, Accepted
<1>2. IInv /\ NoJobLost /\ NoJobLost' /\ [Next]_vars => [Ledger!Next]_Standing
  <2> SUFFICES ASSUME IInv, NoJobLost, NoJobLost', [Next]_vars
               PROVE  [Ledger!Next]_Standing
    OBVIOUS
  <2>1. LedgerStep
    BY StepShape
  <2>2. Standing = Plain /\ (Standing = Plain)'
    <3>1. (NoJobLost => Standing = Plain)'
      BY PlainStanding, PTL
    <3> QED BY <3>1, PlainStanding
  <2> QED BY <2>1, <2>2, LedgerMoves
<1>3. Spec => []NoJobLost
  BY NoneLost
<1> QED BY <1>1, <1>2, <1>3, Invariant, PTL DEF Spec, KeepsTheLedger, Ledger!Spec

-----------------------------------------------------------------------------
(* Who holds what.                                                         *)

TidyOf(t) ==
    /\ pc[t] \in ReapPC \cup {"idle"} => cur[t] = 0
    /\ pc[t] = "idle" => batch[t] = {}
    /\ pc[t] \notin ReapPC => reap[t] = {}
    /\ cur[t] \notin batch[t] /\ batch[t] \cap reap[t] = {}

Working(t, i) == i = cur[t] \/ i \in batch[t]

\* A task's hands at most lose entries, and it goes on to process one that was to
\* be dead-lettered only because Redis failed.
HandsShrink(t) == \A i \in Id :
    /\ i \in reap'[t] => i \in reap[t]
    /\ Working(t, i)' => Working(t, i) \/ (RedisErrors /\ i \in reap[t])

\* Entries keep their job, and at most go from pending to acknowledged.
EntriesShrink == \A i \in Id :
    \/ entry'[i] = entry[i]
    \/ /\ Pending(i) /\ entry'[i].state = "acked"
       /\ entry'[i].job = entry[i].job

LEMMA NextJobHands ==
  ASSUME IInv, TidyInv, NEW t \in Task, pc[t] \notin ReapPC, NextJob(t)
  PROVE  OthersKept(t) /\ HandsShrink(t) /\ TidyOf(t)' /\ pc'[t] \in {"idle", "start"}
         /\ \A i \in Id : i = cur[t] => ~ Holds(t, i)'
<1>0. reap[t] = {} /\ cur[t] \notin batch[t] /\ 0 \notin batch[t]
  BY DEF TidyInv, IInv, TypeOK, Id
<1>1. CASE batch[t] = {} /\ Goto(t, "idle") /\ cur' = [cur EXCEPT ![t] = 0]
           /\ late' = [late EXCEPT ![t] = FALSE] /\ UNCHANGED <<batch, reap>>
  <2>1. OthersKept(t) /\ pc'[t] = "idle" /\ cur'[t] = 0 /\ batch'[t] = {} /\ reap'[t] = {}
    BY <1>0, <1>1 DEF IInv, TypeOK, Goto, OthersKept
  <2> QED BY <1>0, <2>1 DEF HandsShrink, Working, Holds, TidyOf, ReapPC, Id
<1>2. ASSUME NEW i \in batch[t], Goto(t, "start"), cur' = [cur EXCEPT ![t] = i],
             batch' = [batch EXCEPT ![t] = @ \ {i}], UNCHANGED reap
      PROVE  OthersKept(t) /\ HandsShrink(t) /\ TidyOf(t)' /\ pc'[t] \in {"idle", "start"}
             /\ \A k \in Id : k = cur[t] => ~ Holds(t, k)'
  <2>1. /\ OthersKept(t) /\ pc'[t] = "start" /\ cur'[t] = i
        /\ batch'[t] = batch[t] \ {i} /\ reap'[t] = {}
    BY <1>0, <1>2 DEF IInv, TypeOK, Goto, OthersKept
  <2> QED BY <1>0, <2>1 DEF HandsShrink, Working, Holds, TidyOf, ReapPC
<1> QED BY <1>1, <1>2 DEF NextJob

LEMMA AbandonHands ==
  ASSUME IInv, NEW t \in Task, Abandon(t)
  PROVE  OthersKept(t) /\ HandsShrink(t) /\ TidyOf(t)' /\ pc'[t] = "idle"
<1>1. /\ OthersKept(t) /\ pc'[t] = "idle" /\ cur'[t] = 0
      /\ batch'[t] = {} /\ reap'[t] = {}
  BY DEF Abandon, IInv, TypeOK, Goto, OthersKept
<1> QED BY <1>1 DEF HandsShrink, Working, Holds, TidyOf, ReapPC, Id

LEMMA GotoHands ==
  ASSUME IInv, TidyInv, NEW t \in Task, NEW p \in PC, Goto(t, p), KeepHands(t),
         p # "idle", pc[t] # "idle", p \in ReapPC <=> pc[t] \in ReapPC
  PROVE  OthersKept(t) /\ HandsShrink(t) /\ TidyOf(t)' /\ pc'[t] = p
<1>1. /\ OthersKept(t) /\ pc'[t] = p /\ cur'[t] = cur[t]
      /\ batch'[t] = batch[t] /\ reap'[t] = reap[t]
  BY DEF KeepHands, Goto, IInv, TypeOK, OthersKept
<1> QED BY <1>1 DEF HandsShrink, Working, Holds, TidyOf, TidyInv

\* ReapNext, whether the entry was dead-lettered or goes back to be processed.
LEMMA ReapNextHands ==
  ASSUME IInv, TidyInv, NEW t \in Task, pc[t] \in ReapPC, NEW i \in reap[t],
         NEW rest, rest = batch[t] \/ (RedisErrors /\ rest = batch[t] \cup {i}),
         ReapNext(t, i, rest)
  PROVE  OthersKept(t) /\ HandsShrink(t) /\ TidyOf(t)'
         /\ pc'[t] \in {"idle", "start", "reapAdd"}
<1>0. /\ cur[t] = 0 /\ batch[t] \cap reap[t] = {}
      /\ batch[t] \subseteq Id /\ reap[t] \subseteq Id /\ 0 \notin Id
  BY DEF TidyInv, IInv, TypeOK, Id
<1>1. reap' = [reap EXCEPT ![t] = @ \ {i}]
  BY DEF ReapNext
<1>2. CASE reap[t] # {i} /\ Goto(t, "reapAdd") /\ batch' = [batch EXCEPT ![t] = rest]
           /\ UNCHANGED cur
  <2>1. /\ OthersKept(t) /\ pc'[t] = "reapAdd" /\ cur'[t] = 0 /\ batch'[t] = rest
        /\ reap'[t] = reap[t] \ {i}
    BY <1>0, <1>1, <1>2 DEF Goto, IInv, TypeOK, OthersKept
  <2> QED BY <1>0, <2>1 DEF HandsShrink, Working, Holds, TidyOf, ReapPC
<1>3. CASE reap[t] = {i} /\ rest = {} /\ Goto(t, "idle") /\ UNCHANGED <<cur, batch>>
  <2>1. /\ OthersKept(t) /\ pc'[t] = "idle" /\ cur'[t] = 0 /\ batch'[t] = {}
        /\ reap'[t] = {}
    BY <1>0, <1>1, <1>3 DEF Goto, IInv, TypeOK, OthersKept
  <2> QED BY <1>0, <2>1 DEF HandsShrink, Working, Holds, TidyOf, ReapPC
<1>4. ASSUME NEW k \in rest, reap[t] = {i}, Goto(t, "start"),
             cur' = [cur EXCEPT ![t] = k], batch' = [batch EXCEPT ![t] = rest \ {k}]
      PROVE  OthersKept(t) /\ HandsShrink(t) /\ TidyOf(t)'
             /\ pc'[t] \in {"idle", "start", "reapAdd"}
  <2>1. /\ OthersKept(t) /\ pc'[t] = "start" /\ cur'[t] = k /\ batch'[t] = rest \ {k}
        /\ reap'[t] = {}
    BY <1>0, <1>1, <1>4 DEF Goto, IInv, TypeOK, OthersKept
  <2> QED BY <1>0, <2>1 DEF HandsShrink, Working, Holds, TidyOf, ReapPC
<1> QED BY <1>2, <1>3, <1>4 DEF ReapNext

\* Whatever a working task does, it lets go of entries and takes up no new one;
\* it comes to the park only by the ack before it.
WorkHands(t) ==
    /\ OthersKept(t) /\ HandsShrink(t) /\ TidyOf(t)'
    /\ At(t, "park")' => AckFailed(t)

LEMMA WorkShrinks ==
  ASSUME IInv, TidyInv, NEW t \in Task, Work(t) PROVE WorkHands(t)
<1> DEFINE Free(p) == OthersKept(t) /\ HandsShrink(t) /\ TidyOf(t)' /\ pc'[t] = p
<1>1. ASSUME NEW p \in PC \ {"park"}, Free(p) PROVE WorkHands(t)
  BY <1>1 DEF WorkHands, At
<1>2. ASSUME Abandon(t) PROVE WorkHands(t)
  BY <1>2, AbandonHands DEF WorkHands, At
<1>3. ASSUME FailAfterSuccess(t), pc[t] \in {"done", "signal"} PROVE WorkHands(t)
  <2>1. Free("fail")
    BY <1>3, GotoHands DEF FailAfterSuccess, PC, ReapPC
  <2> QED BY <1>1, <2>1 DEF PC
<1>4. ASSUME NextJob(t), pc[t] \notin ReapPC PROVE WorkHands(t)
  BY <1>4, NextJobHands DEF WorkHands, At
<1>5. ASSUME NEW i \in Id, FirstOf(i, reap[t]), pc[t] \in ReapPC,
             ReapNext(t, i, batch[t]) \/ ReapFails(t, i)
      PROVE  WorkHands(t)
  <2>1. i \in reap[t]
    BY <1>5 DEF FirstOf
  <2>2. PICK rest \in {batch[t], batch[t] \cup {i}} :
            /\ rest = batch[t] \/ (RedisErrors /\ rest = batch[t] \cup {i})
            /\ ReapNext(t, i, rest)
    BY <1>5 DEF ReapFails
  <2>3. /\ OthersKept(t) /\ HandsShrink(t) /\ TidyOf(t)'
        /\ pc'[t] \in {"idle", "start", "reapAdd"}
    BY <1>5, <2>1, <2>2, ReapNextHands
  <2> QED BY <2>3 DEF WorkHands, At
<1>6. CASE MarkRunning(t)
  <2>1. ASSUME Goto(t, "fire"), KeepTask(t) PROVE WorkHands(t)
    <3>1. Free("fire")
      BY <1>6, <2>1, GotoHands DEF MarkRunning, At, KeepTask, PC, ReapPC
    <3> QED BY <1>1, <3>1 DEF PC
  <2> QED BY <1>2, <1>6, <2>1 DEF MarkRunning
<1>7. CASE Fire(t)
  <2>1. PICK p \in {"done", "fail"} : Goto(t, p)
    BY <1>7 DEF Fire
  <2>2. Free(p)
    BY <1>7, <2>1, GotoHands DEF Fire, At, KeepHands, PC, ReapPC
  <2> QED BY <1>1, <2>2 DEF PC
<1>8. CASE MarkDone(t)
  <2>1. ASSUME Goto(t, "ackDone"), KeepTask(t) PROVE WorkHands(t)
    <3>1. Free("ackDone")
      BY <1>8, <2>1, GotoHands DEF MarkDone, At, KeepTask, PC, ReapPC
    <3> QED BY <1>1, <3>1 DEF PC
  <2> QED BY <1>3, <1>8, <2>1 DEF MarkDone, At
<1>9. CASE AckDone(t)
  <2>1. Free("signal")
    BY <1>9, GotoHands DEF AckDone, At, KeepTask, PC, ReapPC
  <2> QED BY <1>1, <2>1 DEF PC
<1>10. CASE Signal(t)
  BY <1>3, <1>4, <1>10 DEF Signal, At, ReapPC
<1>11. CASE MarkFailed(t)
  <2>1. ASSUME Goto(t, "ackFail"), KeepTask(t) PROVE WorkHands(t)
    <3>1. Free("ackFail")
      BY <1>11, <2>1, GotoHands DEF MarkFailed, At, KeepTask, PC, ReapPC
    <3> QED BY <1>1, <3>1 DEF PC
  <2> QED BY <1>2, <1>11, <2>1 DEF MarkFailed
<1>12. CASE AckFailed(t)
  <2>1. Free("park")
    BY <1>12, GotoHands DEF AckFailed, At, KeepTask, PC, ReapPC
  <2> QED BY <1>12, <2>1 DEF WorkHands
<1>13. CASE Park(t)
  BY <1>2, <1>4, <1>13 DEF Park, At, ReapPC
<1>14. CASE ReapAdd(t)
  <2>1. ASSUME Goto(t, "reapAck"), KeepTask(t) PROVE WorkHands(t)
    <3>1. Free("reapAck")
      BY <1>14, <2>1, GotoHands DEF ReapAdd, At, KeepTask, PC, ReapPC
    <3> QED BY <1>1, <3>1 DEF PC
  <2> QED BY <1>5, <1>14, <2>1 DEF ReapAdd, At, ReapPC
<1>15. CASE ReapAck(t)
  <2>1. ASSUME Goto(t, "reapStatus"), KeepTask(t) PROVE WorkHands(t)
    <3>1. Free("reapStatus")
      BY <1>15, <2>1, GotoHands DEF ReapAck, At, KeepTask, PC, ReapPC
    <3> QED BY <1>1, <3>1 DEF PC
  <2> QED BY <1>5, <1>15, <2>1 DEF ReapAck, At, ReapPC
<1>16. CASE ReapStatus(t)
  BY <1>5, <1>16 DEF ReapStatus, At, ReapPC
<1> QED BY <1>6, <1>7, <1>8, <1>9, <1>10, <1>11, <1>12, <1>13, <1>14, <1>15, <1>16 DEF Work
LEMMA TidyFrame ==
  ASSUME TidyInv, NEW t \in Task, OthersKept(t), TidyOf(t)' PROVE TidyInv'
BY DEF TidyInv, TidyOf, OthersKept

LEMMA ReadHands ==
  ASSUME IInv, TidyInv, NEW t \in Task, Read(t)
  PROVE  /\ OthersKept(t) /\ TidyOf(t)' /\ pc'[t] \in {"start", "fail"}
         /\ \A i \in Id : Holds(t, i)' => i = cur'[t]
<1>1. PICK i \in Id, p \in {"start", "fail"} :
         cur' = [cur EXCEPT ![t] = i] /\ Goto(t, p) /\ UNCHANGED <<batch, reap>>
  BY DEF Read
<1>2. batch[t] = {} /\ reap[t] = {}
  BY DEF Read, At, TidyInv, ReapPC
<1>3. /\ OthersKept(t) /\ pc'[t] = p /\ cur'[t] = i
      /\ batch'[t] = {} /\ reap'[t] = {}
  BY <1>1, <1>2 DEF Goto, IInv, TypeOK, OthersKept
<1> QED BY <1>3 DEF TidyOf, ReapPC, Holds

Spent(i) == Bump(entry[i].times) > Budget

\* What a claim puts into the task's hands: the entries to dead-letter are apart
\* from those to process.
LEMMA ClaimHands ==
  ASSUME IInv, TidyInv, NEW t \in Task, NEW S \in SUBSET Id, Claim(t, S)
  PROVE  /\ OthersKept(t) /\ TidyOf(t)' /\ pc'[t] \in {"start", "reapAdd"}
         /\ \A i \in Id : Holds(t, i)' => i \in S
         /\ \A i \in Id : i = cur'[t] \/ i \in batch'[t] =>
                i \in S /\ (RedisErrors \/ i \notin Probe \/ ~ Spent(i))
<1> PICK over \in SUBSET S :
      /\ \A i \in S \ over : RedisErrors \/ i \notin Probe \/ ~ Spent(i)
      /\ IF over # {}
         THEN /\ reap' = [reap EXCEPT ![t] = over]
              /\ batch' = [batch EXCEPT ![t] = S \ over]
              /\ Goto(t, "reapAdd") /\ UNCHANGED cur
         ELSE \E i \in S \ over :
              /\ Goto(t, "start") /\ cur' = [cur EXCEPT ![t] = i]
              /\ batch' = [batch EXCEPT ![t] = (S \ over) \ {i}] /\ UNCHANGED reap
  BY ClaimSplits DEF Spent
<1> DEFINE rest == S \ over
<1>0. pc[t] = "idle"
  BY DEF Claim, At
<1>1. cur[t] = 0 /\ batch[t] = {} /\ reap[t] = {} /\ 0 \notin Id
  BY <1>0 DEF TidyInv, ReapPC, Id
<1>2. over \subseteq S /\ rest \subseteq S /\ over \cap rest = {}
      /\ \A i \in rest : RedisErrors \/ i \notin Probe \/ ~ Spent(i)
  OBVIOUS
<1>3. IF over # {}
      THEN /\ reap' = [reap EXCEPT ![t] = over]
           /\ batch' = [batch EXCEPT ![t] = rest]
           /\ Goto(t, "reapAdd") /\ UNCHANGED cur
      ELSE \E i \in rest :
           /\ Goto(t, "start") /\ cur' = [cur EXCEPT ![t] = i]
           /\ batch' = [batch EXCEPT ![t] = rest \ {i}] /\ UNCHANGED reap
  OBVIOUS
<1> HIDE DEF rest
<1>4. CASE over # {}
  <2>1. /\ OthersKept(t) /\ pc'[t] = "reapAdd" /\ cur'[t] = 0
        /\ batch'[t] = rest /\ reap'[t] = over
    BY <1>1, <1>3, <1>4 DEF Goto, IInv, TypeOK, OthersKept
  <2> QED BY <1>1, <1>2, <2>1 DEF TidyOf, ReapPC, Holds
<1>5. ASSUME NEW i \in rest, Goto(t, "start"), cur' = [cur EXCEPT ![t] = i],
             batch' = [batch EXCEPT ![t] = rest \ {i}], UNCHANGED reap
      PROVE  /\ OthersKept(t) /\ TidyOf(t)' /\ pc'[t] \in {"start", "reapAdd"}
             /\ \A k \in Id : Holds(t, k)' => k \in S
             /\ \A k \in Id : k = cur'[t] \/ k \in batch'[t] =>
                    k \in S /\ (RedisErrors \/ k \notin Probe \/ ~ Spent(k))
  <2>1. /\ OthersKept(t) /\ pc'[t] = "start" /\ cur'[t] = i
        /\ batch'[t] = rest \ {i} /\ reap'[t] = {}
    BY <1>1, <1>5 DEF Goto, IInv, TypeOK, OthersKept
  <2> QED BY <1>1, <1>2, <2>1 DEF TidyOf, ReapPC, Holds
<1> QED BY <1>3, <1>4, <1>5

\* A crash empties the hands of both the process's tasks.
LEMMA CrashHands ==
  ASSUME NEW p \in Procs, Crash(p)
  PROVE  \A u \in Task : \/ /\ pc'[u] = pc[u] /\ cur'[u] = cur[u]
                            /\ batch'[u] = batch[u] /\ reap'[u] = reap[u]
                         \/ /\ pc'[u] = "idle" /\ cur'[u] = 0
                            /\ batch'[u] = {} /\ reap'[u] = {}
BY DEF Crash

LEMMA TidyKeeps == ASSUME IInv, TidyInv, [Next]_vars PROVE TidyInv'
<1>1. ASSUME UNCHANGED <<pc, cur, batch, reap>> PROVE TidyInv'
  BY <1>1 DEF TidyInv
<1>2. ASSUME NEW j \in Jobs, Enqueue(j) PROVE TidyInv'
  BY <1>1, <1>2 DEF Enqueue, taskVars
<1>3. CASE PromoteAny
  BY <1>1, <1>3 DEF PromoteAny, Promote, taskVars
<1>4. ASSUME NEW t \in Task, Read(t) PROVE TidyInv'
  BY <1>4, ReadHands, TidyFrame
<1>5. ASSUME NEW t \in Task, Work(t) PROVE TidyInv'
  BY <1>5, WorkShrinks, TidyFrame DEF WorkHands
<1>6. ASSUME NEW t \in Task, NEW S \in SUBSET Id, Claim(t, S) PROVE TidyInv'
  BY <1>6, ClaimHands, TidyFrame
<1>7. ASSUME NEW p \in Procs, Crash(p) PROVE TidyInv'
  BY <1>7, CrashHands DEF TidyInv, ReapPC, IInv, TypeOK, Id
<1>8. CASE UNCHANGED vars
  BY <1>1, <1>8 DEF vars, taskVars
<1> QED BY <1>2, <1>3, <1>4, <1>5, <1>6, <1>7, <1>8 DEF Next

LEMMA InitTidy == Init => OnceInv
BY DEF Init, OnceInv, TidyInv, HolderInv, CopyInv, Holds, Alive, InStream, Parked, FreeEntry,
       Id, ReapPC

\* Whatever goes wrong, a task between jobs has empty hands, and what it holds it
\* holds once.
THEOREM Tidy == Spec => []TidyInv
<1>1. Init => TidyInv
  BY InitTidy DEF OnceInv
<1>2. IInv /\ TidyInv /\ [Next]_vars => TidyInv'
  BY TidyKeeps
<1> QED BY <1>1, <1>2, Invariant, PTL DEF Spec

-----------------------------------------------------------------------------
(* What a working task does to the entries.                                *)

LEMMA AckShrinks ==
  ASSUME IInv, NEW i \in Id, XAck(i)
  PROVE  EntriesShrink /\ entry'[i].state # "pending"
BY DEF XAck, EntriesShrink, IInv, TypeOK, Entry, Pending

LEMMA WorkAcks ==
  ASSUME IInv, TidyInv, NEW t \in Task, Work(t) PROVE EntriesShrink
<1>1. CASE UNCHANGED entry
  BY <1>1 DEF EntriesShrink
<1>2. CASE AckDone(t) \/ AckFailed(t)
  <2>1. cur[t] \in Id
    BY <1>2, CurJobIs DEF AckDone, AckFailed, At, ReapPC
  <2> QED BY <1>1, <1>2, <2>1, AckShrinks DEF AckDone, AckFailed
<1>3. CASE ReapAck(t)
  BY <1>1, <1>3, AckShrinks DEF ReapAck
<1>4. \/ MarkRunning(t) \/ Fire(t) \/ MarkDone(t) \/ Signal(t) \/ MarkFailed(t) \/ Park(t)
      \/ ReapAdd(t) \/ ReapStatus(t)
      => UNCHANGED entry
  BY DEF MarkRunning, Fire, MarkDone, Signal, MarkFailed, Park, ReapAdd, ReapStatus, queueVars
<1> QED BY <1>1, <1>2, <1>3, <1>4 DEF Work

LEMMA ReadEntries ==
  ASSUME IInv, NEW t \in Task, Read(t)
  PROVE  /\ cur'[t] \in Id /\ entry[cur'[t]].state = "unread"
         /\ entry'[cur'[t]].state = "pending" /\ entry'[cur'[t]].owner = t
         /\ entry'[cur'[t]].times = 1 /\ entry'[cur'[t]].job = entry[cur'[t]].job
         /\ \A i \in Id : i # cur'[t] => entry'[i] = entry[i]
<1>1. PICK i \in Id :
        /\ FirstOf(i, {k \in Id : entry[k].state = "unread"})
        /\ entry' = [entry EXCEPT ![i].state = "pending", ![i].times = 1, ![i].owner = t]
        /\ cur' = [cur EXCEPT ![t] = i]
  BY DEF Read
<1>2. cur'[t] = i /\ entry[i].state = "unread"
  BY <1>1 DEF IInv, TypeOK, FirstOf
<1>3. /\ entry'[i].state = "pending" /\ entry'[i].owner = t /\ entry'[i].times = 1
      /\ entry'[i].job = entry[i].job
      /\ \A k \in Id : k # i => entry'[k] = entry[k]
  BY <1>1 DEF IInv, TypeOK, Entry
<1> QED BY <1>2, <1>3

LEMMA ClaimEntries ==
  ASSUME IInv, NEW t \in Task, NEW S \in SUBSET Id, Claim(t, S)
  PROVE  \A i \in Id :
           /\ entry'[i].job = entry[i].job /\ entry'[i].state = entry[i].state
           /\ i \in S => /\ Pending(i) /\ MayBeIdle(i) /\ entry'[i].owner = t
                         /\ entry'[i].times = Bump(entry[i].times)
           /\ i \notin S => entry'[i] = entry[i]
<1>1. /\ entry' = [i \in Id |-> IF i \in S
                       THEN [entry[i] EXCEPT !.times = Bump(@), !.owner = t]
                       ELSE entry[i]]
      /\ \A i \in S : Pending(i) /\ MayBeIdle(i)
  BY Zenon DEF Claim, MayBeIdle
<1> SUFFICES ASSUME NEW i \in Id
    PROVE /\ entry'[i].job = entry[i].job /\ entry'[i].state = entry[i].state
          /\ i \in S => entry'[i].owner = t /\ entry'[i].times = Bump(entry[i].times)
          /\ i \notin S => entry'[i] = entry[i]
  BY <1>1
<1>2. CASE i \in S
  <2>1. entry[i] \in Entry /\ entry'[i] = [entry[i] EXCEPT !.times = Bump(@), !.owner = t]
    BY <1>1, <1>2 DEF IInv, TypeOK
  <2> QED BY <1>2, <2>1 DEF Entry
<1>3. CASE i \notin S
  BY <1>1, <1>3
<1> QED BY <1>2, <1>3

-----------------------------------------------------------------------------
(* A job that keeps killing its worker is not handed out past its budget,   *)
(* where the delivery count of every pending entry is looked up.            *)

InProbe == \A i \in Id : Pending(i) => i \in Probe

LEMMA BudgetKeeps ==
  ASSUME RedisErrors = FALSE, IInv, TidyInv, HandedOutWithinBudget, InProbe, [Next]_vars
  PROVE  HandedOutWithinBudget'
<1>0. Budget \in Nat /\ 1 <= Budget
  BY ConstantsOK DEF Budget
<1> DEFINE B(u, i) == Pending(i) /\ entry[i].owner = u /\ Working(u, i)
                          => entry[i].times <= Budget
<1> SUFFICES ASSUME NEW u \in Task, NEW i \in Id PROVE B(u, i)'
  BY <1>0 DEF HandedOutWithinBudget, Working, Budget
<1>1. B(u, i)
  BY DEF HandedOutWithinBudget, Working
<1>2. ASSUME entry'[i] = entry[i] \/ entry'[i].state # "pending",
             Working(u, i)' => Working(u, i)
      PROVE  B(u, i)'
  BY <1>1, <1>2 DEF Pending, Budget
<1>3. ASSUME NEW j \in Jobs, NEW r \in Retries, XAdd(j, r), UNCHANGED taskVars
      PROVE  B(u, i)'
  <2>1. entry'[i] = entry[i] \/ entry'[i].state = "unread"
    BY <1>3, XAddEffect DEF IInv
  <2> QED BY <1>2, <1>3, <2>1 DEF taskVars, Working
<1>4. ASSUME NEW j \in Jobs, Enqueue(j) PROVE B(u, i)'
  BY <1>3, <1>4, ConstantsOK DEF Enqueue, Retries
<1>5. CASE PromoteAny
  BY <1>3, <1>5 DEF PromoteAny, Promote
<1>6. ASSUME NEW t \in Task, Read(t) PROVE B(u, i)'
  <2>1. OthersKept(t) /\ (Working(t, i)' => i = cur'[t])
    BY <1>6, ReadHands DEF Holds, Working
  <2>2. CASE i = cur'[t]
    BY <1>0, <1>6, <2>2, ReadEntries DEF Budget
  <2>3. CASE i # cur'[t]
    <3>1. Working(u, i)' => Working(u, i)
      BY <2>1, <2>3 DEF OthersKept, Working
    <3> QED BY <1>2, <1>6, <2>3, <3>1, ReadEntries
  <2> QED BY <2>2, <2>3
<1>7. ASSUME NEW t \in Task, Work(t) PROVE B(u, i)'
  <2>1. Working(u, i)' => Working(u, i)
    BY <1>7, WorkShrinks DEF WorkHands, HandsShrink, OthersKept, Working
  <2> QED BY <1>2, <1>7, <2>1, WorkAcks DEF EntriesShrink
<1>8. ASSUME NEW t \in Task, NEW S \in SUBSET Id, Claim(t, S) PROVE B(u, i)'
  <2>1. /\ OthersKept(t)
        /\ Working(t, i)' => i \in S /\ (i \notin Probe \/ ~ Spent(i))
    BY <1>8, ClaimHands DEF Working
  <2>2. CASE i \in S
    <3>1. i \in Probe /\ entry'[i].owner = t /\ entry'[i].times = Bump(entry[i].times)
      BY <1>8, <2>2, ClaimEntries DEF InProbe
    <3>2. Bump(entry[i].times) \in Nat
      BY DEF Bump, IInv, TypeOK, Entry
    <3> QED BY <1>0, <2>1, <3>1, <3>2 DEF Spent, Budget
  <2>3. CASE i \notin S
    <3>1. Working(u, i)' => Working(u, i)
      BY <2>1, <2>3 DEF OthersKept, Working
    <3> QED BY <1>2, <1>8, <2>3, <3>1, ClaimEntries
  <2> QED BY <2>2, <2>3
<1>9. ASSUME NEW p \in Procs, Crash(p) PROVE B(u, i)'
  <2>1. Working(u, i)' => Working(u, i)
    BY <1>9, CrashHands DEF Working, Id
  <2> QED BY <1>2, <1>9, <2>1 DEF Crash, queueVars
<1>10. CASE UNCHANGED vars
  BY <1>2, <1>10 DEF vars, queueVars, taskVars, Working
<1> QED BY <1>4, <1>5, <1>6, <1>7, <1>8, <1>9, <1>10 DEF Next

\* As long as the pending entries fit in the XPENDING probe and Redis answers, no
\* task ever processes an entry that was delivered more often than its budget.
THEOREM WithinBudget ==
  ASSUME RedisErrors = FALSE PROVE Spec /\ []InProbe => []HandedOutWithinBudget
<1>1. Init => HandedOutWithinBudget
  BY DEF Init, HandedOutWithinBudget, Pending, FreeEntry
<1>2. IInv /\ TidyInv /\ HandedOutWithinBudget /\ InProbe /\ [Next]_vars
        => HandedOutWithinBudget'
  BY BudgetKeeps
<1> QED BY <1>1, <1>2, Invariant, Tidy, PTL DEF Spec

-----------------------------------------------------------------------------
(* No job is in two runs at once, as long as no batch is worked through so    *)
(* slowly that a member of it looks idle.                                     *)

\* An unread entry is in nobody's hands, and neither is one not yet written.
LEMMA FreeHands ==
  ASSUME HolderInv, StreamOK, TypeOK, NEW t \in Task, NEW i \in Id,
         entry[i].state = "unread" \/ ~ Used(i)
  PROVE  ~ Holds(t, i)
<1>1. entry[i].state \in {"unread", "free"}
  BY DEF StreamOK, TypeOK, Used, Id
<1> QED BY <1>1 DEF HolderInv

HolderOf(t, i) ==
    /\ entry[i].state \in {"pending", "acked"}
    /\ Pending(i) => entry[i].owner = t
    /\ \A u \in Task : Holds(u, i) => t = u
    /\ i = cur[t] /\ At(t, "park") => ~ Pending(i)

\* Steps that only take from hands, and only acknowledge.
LEMMA HolderShrinks ==
  ASSUME HolderInv, EntriesShrink,
         \A u \in Task, i \in Id : Holds(u, i)' => Holds(u, i),
         NEW v \in Task, NEW k \in Id, Holds(v, k)',
         k = cur'[v] /\ At(v, "park")' => ~ Pending(k)'
  PROVE  HolderOf(v, k)'
<1>1. /\ entry[k].state \in {"pending", "acked"}
      /\ Pending(k) => entry[k].owner = v
      /\ \A u \in Task : Holds(u, k) => v = u
  BY DEF HolderInv
<1>2. /\ entry'[k].state \in {"pending", "acked"}
      /\ Pending(k)' => entry'[k].owner = v
  BY <1>1 DEF EntriesShrink, Pending
<1> QED BY <1>1, <1>2 DEF HolderOf

LEMMA WorkHolders ==
  ASSUME RedisErrors = FALSE, IInv, TidyInv, HolderInv, NEW t \in Task, Work(t)
  PROVE  HolderInv'
<1>1. WorkHands(t) /\ EntriesShrink
  BY WorkShrinks, WorkAcks
<1>2. \A u \in Task, i \in Id : Holds(u, i)' => Holds(u, i)
  BY <1>1 DEF WorkHands, HandsShrink, Working, Holds, OthersKept
<1>3. ASSUME NEW v \in Task, NEW k \in Id, Holds(v, k)', k = cur'[v], At(v, "park")'
      PROVE  ~ Pending(k)'
  <2>1. CASE v = t
    <3>1. AckFailed(t)
      BY <1>1, <1>3, <2>1 DEF WorkHands
    <3>2. XAck(k) /\ k = cur[t]
      BY <1>3, <2>1, <3>1 DEF AckFailed, KeepTask, KeepHands
    <3> QED BY <3>2, AckShrinks DEF Pending
  <2>2. CASE v # t
    <3>1. k = cur[v] /\ At(v, "park")
      BY <1>1, <1>3, <2>2 DEF WorkHands, OthersKept, At
    <3>2. ~ Pending(k)
      BY <3>1 DEF HolderInv, Holds
    <3> QED BY <1>1, <3>2 DEF EntriesShrink, Pending
  <2> QED BY <2>1, <2>2
<1>4. ASSUME NEW v \in Task, NEW k \in Id, Holds(v, k)' PROVE HolderOf(v, k)'
  BY <1>1, <1>2, <1>3, <1>4, HolderShrinks
<1> QED BY <1>4 DEF HolderInv, HolderOf

\* Taking up entries that nobody holds.
LEMMA TakingUp ==
  ASSUME HolderInv, NEW t \in Task, NEW S \in SUBSET Id, OthersKept(t),
         \A i \in Id : Holds(t, i)' => i \in S,
         \A i \in S, u \in Task : ~ Holds(u, i),
         \A i \in S : entry'[i].state = "pending" /\ entry'[i].owner = t,
         \A i \in Id \ S : entry'[i] = entry[i],
         ~ At(t, "park")'
  PROVE  HolderInv'
<1>1. ASSUME NEW v \in Task, NEW k \in Id, Holds(v, k)' PROVE HolderOf(v, k)'
  <2>1. CASE k \in S
    <3>1. \A u \in Task : Holds(u, k)' => u = t
      BY <2>1 DEF OthersKept, Holds
    <3> QED BY <1>1, <2>1, <3>1 DEF HolderOf
  <2>2. CASE k \notin S
    <3>1. v # t /\ Holds(v, k)
      BY <1>1, <2>2 DEF OthersKept, Holds
    <3>2. \A u \in Task : Holds(u, k)' => Holds(u, k)
      BY <2>2 DEF OthersKept, Holds
    <3>3. HolderOf(v, k) /\ entry'[k] = entry[k]
      BY <2>2, <3>1 DEF HolderInv, HolderOf
    <3>4. cur'[v] = cur[v] /\ pc'[v] = pc[v]
      BY <3>1 DEF OthersKept
    <3> QED BY <3>2, <3>3, <3>4 DEF HolderOf, Pending, At
  <2> QED BY <2>1, <2>2
<1> QED BY <1>1 DEF HolderInv, HolderOf

LEMMA HolderKeeps ==
  ASSUME SlowRuns = FALSE, RedisErrors = FALSE, NobodyLate, IInv, TidyInv, HolderInv,
         [Next]_vars
  PROVE  HolderInv'
<1>1. ASSUME NEW j \in Jobs, NEW r \in Retries, XAdd(j, r), UNCHANGED taskVars
      PROVE  HolderInv'
  <2>1. \A u \in Task, i \in Id : Holds(u, i)' <=> Holds(u, i)
    BY <1>1 DEF taskVars, Holds
  <2>2. ~ Used(nextId)
    BY DEF Used, IInv, TypeOK
  <2>3. \A u \in Task, i \in Id : Holds(u, i) => i # nextId
    BY <2>2, FreeHands DEF IInv
  <2>4. \A i \in Id : i # nextId => entry'[i] = entry[i]
    BY <1>1, XAddEffect DEF IInv
  <2> QED BY <1>1, <2>1, <2>3, <2>4 DEF HolderInv, Pending, At, taskVars
<1>2. ASSUME NEW j \in Jobs, Enqueue(j) PROVE HolderInv'
  BY <1>1, <1>2, ConstantsOK DEF Enqueue, Retries
<1>3. CASE PromoteAny
  BY <1>1, <1>3 DEF PromoteAny, Promote
<1>4. ASSUME NEW t \in Task, Read(t) PROVE HolderInv'
  <2>1. /\ cur'[t] \in Id /\ entry[cur'[t]].state = "unread"
        /\ entry'[cur'[t]].state = "pending" /\ entry'[cur'[t]].owner = t
        /\ \A i \in Id : i # cur'[t] => entry'[i] = entry[i]
    BY <1>4, ReadEntries
  <2>2. /\ OthersKept(t) /\ pc'[t] \in {"start", "fail"}
        /\ \A i \in Id : Holds(t, i)' => i = cur'[t]
    BY <1>4, ReadHands
  <2>3. \A u \in Task : ~ Holds(u, cur'[t])
    BY <2>1, FreeHands DEF IInv
  <2> DEFINE S == {cur'[t]}
  <2>4. /\ S \in SUBSET Id /\ \A i \in Id : Holds(t, i)' => i \in S
        /\ \A i \in S, u \in Task : ~ Holds(u, i)
        /\ \A i \in S : entry'[i].state = "pending" /\ entry'[i].owner = t
        /\ \A i \in Id \ S : entry'[i] = entry[i]
    BY <2>1, <2>2, <2>3
  <2> HIDE DEF S
  <2> QED BY <2>2, <2>4, TakingUp DEF At
<1>5. ASSUME NEW t \in Task, Work(t) PROVE HolderInv'
  BY <1>5, WorkHolders
<1>6. ASSUME NEW t \in Task, NEW S \in SUBSET Id, Claim(t, S) PROVE HolderInv'
  <2>1. /\ OthersKept(t) /\ pc'[t] \in {"start", "reapAdd"}
        /\ \A i \in Id : Holds(t, i)' => i \in S
    BY <1>6, ClaimHands
  <2>2. /\ \A i \in S : /\ Pending(i) /\ MayBeIdle(i)
                        /\ entry'[i].state = "pending" /\ entry'[i].owner = t
        /\ \A i \in Id \ S : entry'[i] = entry[i]
    BY <1>6, ClaimEntries DEF Pending
  <2>3. ASSUME NEW i \in S, NEW u \in Task, Holds(u, i) PROVE FALSE
    <3>1. Pending(i) /\ entry[i].owner = u /\ ~ late[u]
      BY <2>2, <2>3 DEF HolderInv, NobodyLate
    <3> QED BY <2>2, <2>3, <3>1 DEF MayBeIdle
  <2> QED BY <2>1, <2>2, <2>3, TakingUp DEF At
<1>7. ASSUME NEW p \in Procs, Crash(p) PROVE HolderInv'
  <2>1. entry' = entry
    BY <1>7 DEF Crash, queueVars
  <2>2. EntriesShrink /\ \A u \in Task, i \in Id : Holds(u, i)' => Holds(u, i)
    BY <1>7, <2>1, CrashHands DEF EntriesShrink, Holds, Id
  <2>3. \A v \in Task, k \in Id : k = cur'[v] /\ At(v, "park")' => ~ Pending(k)'
    BY <1>7, <2>1, CrashHands DEF HolderInv, Holds, At, Pending
  <2>4. ASSUME NEW v \in Task, NEW k \in Id, Holds(v, k)' PROVE HolderOf(v, k)'
    BY <2>2, <2>3, <2>4, HolderShrinks
  <2> QED BY <2>4 DEF HolderInv, HolderOf
<1>8. CASE UNCHANGED vars
  BY <1>8 DEF vars, queueVars, taskVars, HolderInv, Holds, Pending, At
<1> QED BY <1>2, <1>3, <1>4, <1>5, <1>6, <1>7, <1>8 DEF Next


\* A step that adds no copy of a job keeps the copies apart.
LEMMA CopyShrinks ==
  ASSUME CopyInv, retry' \subseteq retry,
         \A i \in Id : Alive(i)' => Alive(i) /\ entry'[i].job = entry[i].job
  PROVE  CopyInv'
<1>1. \A j \in Jobs : Parked(j)' => Parked(j)
  BY DEF Parked
<1>2. \A i, k \in Id : Alive(i)' /\ Alive(k)' /\ entry'[i].job = entry'[k].job => i = k
  BY DEF CopyInv
<1>3. \A i \in Id : Alive(i)' => ~ Parked(entry[i].job)'
  BY DEF CopyInv, Parked
<1>4. \A j \in Jobs, r, s \in Retries : <<j, r>> \in retry' /\ <<j, s>> \in retry' => r = s
  BY DEF CopyInv
<1> QED BY <1>2, <1>3, <1>4 DEF CopyInv

\* A new entry of a job that has no copy yet.
LEMMA CopyAdded ==
  ASSUME IInv, HolderInv, CopyInv, NEW j \in Jobs, NEW r \in Retries, XAdd(j, r),
         UNCHANGED taskVars, retry' \subseteq retry,
         \A i \in Id : Alive(i) => entry[i].job # j,
         ~ Parked(j)'
  PROVE  CopyInv'
<1>1. /\ nextId \in Id /\ entry'[nextId].job = j
      /\ \A i \in Id : i # nextId => entry'[i] = entry[i]
  BY XAddEffect DEF IInv
<1>2. \A i \in Id : i # nextId /\ Alive(i)' => Alive(i)
  BY <1>1 DEF Alive, Holds, InStream, taskVars
<1>3. \A k \in Jobs : Parked(k)' => Parked(k)
  BY DEF Parked
<1>4. \A i, k \in Id : Alive(i)' /\ Alive(k)' /\ entry'[i].job = entry'[k].job => i = k
  BY <1>1, <1>2 DEF CopyInv
<1>5. \A i \in Id : Alive(i)' => ~ Parked(entry[i].job)'
  BY <1>1, <1>2 DEF CopyInv, Parked
<1>6. \A k \in Jobs, p, q \in Retries : <<k, p>> \in retry' /\ <<k, q>> \in retry' => p = q
  BY DEF CopyInv
<1> QED BY <1>4, <1>5, <1>6 DEF CopyInv

\* The entry a task lets go of when it parks its job is gone for good.
LEMMA ParkLetsGo ==
  ASSUME IInv, TidyInv, HolderInv, NEW t \in Task, Park(t), WorkHands(t), EntriesShrink,
         NextJob(t), UNCHANGED entry, NEW c \in Id, c = cur[t]
  PROVE  Alive(c) /\ ~ Alive(c)'
<1>1. At(t, "park") /\ pc[t] \notin ReapPC
  BY DEF Park, At, ReapPC
<1>2. Holds(t, c) /\ ~ InStream(c)
  BY <1>1 DEF Holds, HolderInv, InStream, Pending
<1>3. ASSUME NEW u \in Task, Holds(u, c)' PROVE FALSE
  <2>1. CASE u = t
    BY <1>1, <1>3, <2>1, NextJobHands
  <2>2. CASE u # t
    <3>1. Holds(u, c)
      BY <1>3, <2>2 DEF WorkHands, OthersKept, Holds
    <3> QED BY <1>2, <2>2, <3>1 DEF HolderInv
  <2> QED BY <2>1, <2>2
<1> QED BY <1>2, <1>3 DEF Alive, InStream

LEMMA WorkCopies ==
  ASSUME IInv, TidyInv, HolderInv, CopyInv, NEW t \in Task, Work(t)
  PROVE  CopyInv'
<1>1. WorkHands(t) /\ EntriesShrink
  BY WorkShrinks, WorkAcks
<1>2. \A i \in Id : /\ Alive(i)' => Alive(i)
                    /\ entry'[i].job = entry[i].job
  BY <1>1 DEF WorkHands, HandsShrink, Working, Holds, OthersKept, Alive, InStream,
              EntriesShrink, Pending
<1>3. CASE retry' \subseteq retry
  BY <1>2, <1>3, CopyShrinks
<1>4. CASE Park(t) /\ WillRetry(t) /\ NextJob(t)
           /\ retry' = retry \cup {<<CurJob(t), entry[cur[t]].retries + 1>>}
  <2>1. PICK c \in Id : c = cur[t] /\ CurJob(t) = entry[c].job /\ UNCHANGED entry
    BY <1>4, CurJobIs DEF Park, At, ReapPC, CurJob
  <2>2. Alive(c) /\ ~ Alive(c)'
    BY <1>1, <1>4, <2>1, ParkLetsGo
  <2>3. \A i \in Id : Alive(i)' => entry[i].job # entry[c].job
    BY <1>2, <2>1, <2>2 DEF CopyInv
  <2>4. ~ Parked(entry[c].job)
    BY <2>1, <2>2 DEF CopyInv
  <2>5. \A i \in Id : Alive(i)' => ~ Parked(entry[i].job)'
    <3>1. \A i \in Id : Alive(i)' => Alive(i) /\ entry[i].job # entry[c].job
      BY <1>2, <2>3
    <3>2. \A i \in Id : Alive(i)' => ~ Parked(entry[i].job)
      BY <3>1 DEF CopyInv
    <3> QED BY <1>4, <2>1, <3>1, <3>2 DEF Parked
  <2>6. \A k \in Jobs, r, s \in Retries :
            <<k, r>> \in retry' /\ <<k, s>> \in retry' => r = s
    BY <1>4, <2>1, <2>4 DEF CopyInv, Parked
  <2>7. \A i, k \in Id : Alive(i)' /\ Alive(k)' /\ entry'[i].job = entry'[k].job => i = k
    BY <1>2 DEF CopyInv
  <2> QED BY <2>5, <2>6, <2>7 DEF CopyInv
<1>5. retry' \subseteq retry \/ (Park(t) /\ WillRetry(t) /\ NextJob(t)
           /\ retry' = retry \cup {<<CurJob(t), entry[cur[t]].retries + 1>>})
  <2>1. CASE Park(t)
    BY <2>1 DEF Park
  <2>2. CASE ~ Park(t)
    BY <2>2 DEF Work, MarkRunning, Fire, MarkDone, AckDone, Signal, MarkFailed, AckFailed,
                ReapAdd, ReapAck, ReapStatus, queueVars
  <2> QED BY <2>1, <2>2
<1> QED BY <1>3, <1>4, <1>5

LEMMA CopyKeeps ==
  ASSUME IInv, TidyInv, HolderInv, CopyInv, [Next]_vars PROVE CopyInv'
<1>1. ASSUME NEW j \in Jobs, Enqueue(j) PROVE CopyInv'
  <2>1. XAdd(j, 0) /\ 0 \in Retries /\ retry' = retry /\ UNCHANGED taskVars
    BY <1>1, ConstantsOK DEF Enqueue, Retries
  <2>2. \A i \in Id : Used(i) => entry[i].job # j
    BY <1>1 DEF Enqueue, IInv, OnlyAccepted, Accepted
  <2>3. \A i \in Id : Alive(i) => Used(i)
    BY FreeHands DEF Alive, InStream, IInv, StreamOK, TypeOK, Used, Id
  <2>4. ~ Parked(j)'
    BY <1>1, <2>1 DEF Enqueue, IInv, OnlyAccepted, Accepted, Parked
  <2> QED BY <2>1, <2>2, <2>3, <2>4, CopyAdded
<1>2. CASE PromoteAny
  <2>1. PICK j \in Jobs, r \in Retries : Promote(j, r)
    BY <1>2 DEF PromoteAny
  <2>2. /\ <<j, r>> \in retry /\ XAdd(j, r) /\ retry' = retry \ {<<j, r>>}
        /\ UNCHANGED taskVars
    BY <2>1 DEF Promote
  <2>3. \A i \in Id : Alive(i) => entry[i].job # j
    BY <2>2 DEF CopyInv, Parked
  <2>4. ~ Parked(j)'
    BY <2>2 DEF CopyInv, Parked
  <2> QED BY <2>2, <2>3, <2>4, CopyAdded
<1>3. ASSUME NEW t \in Task, Read(t) PROVE CopyInv'
  <2>1. \A i \in Id : Holds(t, i)' => i = cur'[t]
    BY <1>3, ReadHands
  <2>2. OthersKept(t) /\ retry' = retry
    BY <1>3, ReadHands DEF Read
  <2>3. \A i \in Id : /\ Alive(i)' => Alive(i)
                      /\ entry'[i].job = entry[i].job
    BY <1>3, <2>1, <2>2, ReadEntries DEF Alive, InStream, Holds, OthersKept
  <2> QED BY <2>2, <2>3, CopyShrinks
<1>4. ASSUME NEW t \in Task, Work(t) PROVE CopyInv'
  BY <1>4, WorkCopies
<1>5. ASSUME NEW t \in Task, NEW S \in SUBSET Id, Claim(t, S) PROVE CopyInv'
  <2>1. OthersKept(t) /\ \A i \in Id : Holds(t, i)' => i \in S
    BY <1>5, ClaimHands
  <2>2. \A i \in Id : /\ entry'[i].job = entry[i].job /\ entry'[i].state = entry[i].state
                      /\ i \in S => Pending(i)
    BY <1>5, ClaimEntries
  <2>3. \A i \in Id : Alive(i)' => Alive(i)
    BY <2>1, <2>2 DEF Alive, InStream, Pending, Holds, OthersKept
  <2>4. retry' = retry
    BY <1>5, Zenon DEF Claim
  <2> QED BY <2>2, <2>3, <2>4, CopyShrinks
<1>6. ASSUME NEW p \in Procs, Crash(p) PROVE CopyInv'
  <2>1. entry' = entry /\ retry' = retry
    BY <1>6 DEF Crash, queueVars
  <2>2. \A i \in Id : Alive(i)' => Alive(i)
    BY <1>6, <2>1, CrashHands DEF Alive, InStream, Holds, Id
  <2> QED BY <2>1, <2>2, CopyShrinks
<1>7. CASE UNCHANGED vars
  BY <1>7, CopyShrinks DEF vars, queueVars, taskVars, Alive, InStream, Holds
<1> QED BY <1>1, <1>2, <1>3, <1>4, <1>5, <1>6, <1>7 DEF Next


LEMMA OneRun == ASSUME IInv, OnceInv PROVE NoDoubleRun
<1> SUFFICES ASSUME NEW j \in Jobs, NEW t \in Task, NEW u \in Task,
                    Running(t, j), Running(u, j)
             PROVE  t = u
  BY DEF NoDoubleRun
<1>1. PICK i \in Id, k \in Id : i = cur[t] /\ k = cur[u]
  BY CurJobIs DEF Running, ReapPC
<1>2. entry[i].job = j /\ entry[k].job = j
  BY <1>1 DEF Running, CurJob
<1>3. Holds(t, i) /\ Holds(u, k)
  BY <1>1 DEF Holds
<1>4. i = k
  BY <1>2, <1>3 DEF OnceInv, CopyInv, Alive
<1> QED BY <1>3, <1>4 DEF OnceInv, HolderInv

LEMMA OnceKeeps ==
  ASSUME SlowRuns = FALSE, RedisErrors = FALSE, NobodyLate, IInv, OnceInv, [Next]_vars
  PROVE  OnceInv'
<1>1. TidyInv' /\ HolderInv' /\ CopyInv'
  BY TidyKeeps, HolderKeeps, CopyKeeps DEF OnceInv
<1> QED BY <1>1 DEF OnceInv

\* Where runs are shorter than the visibility timeout and Redis answers, a job has one
\* copy and an entry one holder, until a task works on a later member of a batch.
THEOREM Once ==
  ASSUME SlowRuns = FALSE, RedisErrors = FALSE
  PROVE  Spec /\ []NobodyLate => []OnceInv
<1>1. Init => OnceInv
  BY InitTidy
<1>2. IInv /\ OnceInv /\ NobodyLate /\ [Next]_vars => OnceInv'
  BY OnceKeeps
<1> QED BY <1>1, <1>2, Invariant, PTL DEF Spec

\* Where runs are shorter than the visibility timeout and Redis answers, no job is run
\* twice until a task works on an entry it claimed together with others, whatever
\* crashes and is reclaimed.
THEOREM RunsOnceUntilLate ==
  ASSUME SlowRuns = FALSE, RedisErrors = FALSE
  PROVE  Spec /\ []NobodyLate => []NoDoubleRun
<1>1. IInv /\ OnceInv => NoDoubleRun
  BY OneRun
<1> QED BY <1>1, Invariant, Once, PTL

\* There the only step that leads to a second run of a job, or to the second copy of it
\* that brings one about, is taken while a task is at a later member of a batch; the
\* size of the batches is left open (trigger_queue.py claims up to 16).
THEOREM LateRunsTwice ==
  ASSUME SlowRuns = FALSE, RedisErrors = FALSE
  PROVE  Spec => OnlyLateRunsTwice
<1>1. IInv /\ [Next]_vars => (OnceInv /\ NobodyLate => OnceInv')
  BY OnceKeeps
<1>2. IInv /\ OnceInv => NoDoubleRun
  BY OneRun
<1>3. ASSUME OnceInv /\ NobodyLate => OnceInv', IInv', OnceInv' => NoDoubleRun'
      PROVE  [OnceInv /\ NoDoubleRun /\ NobodyLate => OnceInv' /\ NoDoubleRun']_vars
  BY <1>3
<1> QED BY <1>1, <1>2, <1>3, Invariant, PTL DEF Spec, OnlyLateRunsTwice
=============================================================================
