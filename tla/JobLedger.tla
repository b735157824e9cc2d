------------------------------- MODULE JobLedger -------------------------------
(***************************************************************************)
(* What the job queue promises its producers: an accepted job stays owed    *)
(* until its handler has returned a result or the job is on the dead-letter *)
(* stream for inspection.  A dead-lettered job may still complete (a worker *)
(* that was given up on was merely slow); a completed one never becomes     *)
(* owed again, whatever is redelivered.                                     *)
(***************************************************************************)
CONSTANT Jobs
VARIABLE ledger

State == {"new", "owed", "done", "dead"}

Init == ledger = [j \in Jobs |-> "new"]

Move(j, from, to) ==
    /\ ledger[j] \in from
    /\ ledger' = [ledger EXCEPT ![j] = to]

Accept(j) == Move(j, {"new"}, "owed")
Complete(j) == Move(j, {"owed", "dead"}, "done")
GiveUp(j) == Move(j, {"owed"}, "dead")

Next == \E j \in Jobs : Accept(j) \/ Complete(j) \/ GiveUp(j)

Spec == Init /\ [][Next]_ledger
=============================================================================
