---------------------------- MODULE Recommendations ----------------------------
(***************************************************************************)
(* What the officer queue promises of each recommendation.  While it is     *)
(* open its planned writes may take effect, a create once; it is shown as   *)
(* applied only when all of them have and an audit row says so.  It is then *)
(* closed for good, unless somebody was at work on it when it was closed:   *)
(* such a contested recommendation may still be written for, and closed     *)
(* again in another way, until the last of those at work has ended.  A      *)
(* recommendation that a re-run replaced is gone, and stays gone.           *)
(***************************************************************************)
EXTENDS Naturals

CONSTANTS
    Runs,     \* the runs, each with its recommendation
    Write,    \* planned writes of a recommendation
    Creates,  \* those that create a record
    Keyed     \* runs whose writes the system of record can tell apart
VARIABLES
    standing,  \* of each run's recommendation
    writes,    \* times each planned write has taken effect (2: twice or more)
    trail,     \* runs whose application is on the audit trail
    contested  \* closed or replaced while somebody was at work on them

Closed == {"applied", "rejected", "cancelled", "expired", "stale"}

Init ==
    /\ standing = [r \in Runs |-> "none"]
    /\ writes = [r \in Runs |-> [w \in Write |-> 0]]
    /\ trail = {} /\ contested = {}

Stage(r) ==
    /\ standing[r] = "none"
    /\ standing' = [standing EXCEPT ![r] = "open"]
    /\ UNCHANGED <<writes, trail, contested>>

Replace(r, s) ==
    /\ standing[r] = "none" /\ standing[s] = "open"
    /\ standing' = [standing EXCEPT ![s] = "gone", ![r] = "open"]
    /\ contested' \in {contested, contested \cup {s}}
    /\ UNCHANGED <<writes, trail>>

Underway(r) == standing[r] = "open" \/ r \in contested
Complete(r) == r \in Keyed => \A w \in Write : writes[r][w] > 0

Commit(r, w) ==
    /\ Underway(r)
    /\ w \in Creates => writes[r][w] = 0
    /\ writes' = [writes EXCEPT ![r][w] = IF @ = 0 THEN 1 ELSE 2]
    /\ UNCHANGED <<standing, trail, contested>>

Audit(r) ==
    /\ Underway(r) /\ Complete(r)
    /\ trail' = trail \cup {r}
    /\ UNCHANGED <<standing, writes, contested>>

Close(r, how) ==
    /\ Underway(r) /\ standing[r] # "gone"
    /\ how = "applied" => Complete(r) /\ r \in trail
    /\ standing' = [standing EXCEPT ![r] = how]
    /\ contested' \in {contested \cup {r}, contested \ {r}}
    /\ UNCHANGED <<writes, trail>>

\* The last of those at work on it has ended.
Settle(r) ==
    /\ contested' = contested \ {r}
    /\ UNCHANGED <<standing, writes, trail>>

Next ==
    \E r \in Runs :
        \/ Settle(r) \/ Stage(r) \/ Audit(r)
        \/ \E s \in Runs : Replace(r, s)
        \/ \E w \in Write : Commit(r, w)
        \/ \E how \in Closed : Close(r, how)

Spec == Init /\ [][Next]_<<standing, writes, trail, contested>>
=============================================================================
