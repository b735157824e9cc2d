-------------------------- MODULE TriggerRunnerProofs --------------------------
(***************************************************************************)
(* Proofs about a poll trigger, for any number of rows, calls, attempts and  *)
(* faults.                                                                  *)
(***************************************************************************)
EXTENDS TriggerRunner, TLAPS

-----------------------------------------------------------------------------
(* Facts that several steps need.                                          *)

\* What has been dealt with stays so: the outcomes only grow.
LEMMA StaysConsumable ==
  ASSUME TypeOK, TypeOK', settled \subseteq settled', dead \subseteq dead',
         \A r \in Row : failures[r] <= failures'[r],
         NEW S \in SUBSET Row, Consumable(S)
  PROVE  \A r \in S : r \in settled' \/ (r \in dead' /\ failures'[r] = MaxAttempts)
<1> SUFFICES ASSUME NEW r \in S, r \notin settled'
             PROVE  r \in dead' /\ failures'[r] = MaxAttempts
  OBVIOUS
<1>1. r \in Row /\ r \in dead /\ failures[r] = MaxAttempts
  BY DEF Consumable
<1>2. failures'[r] \in 0..MaxAttempts /\ failures[r] <= failures'[r]
  BY <1>1 DEF TypeOK
<1> QED
  BY <1>1, <1>2, TriggerConstants

\* A tick's failed run raises the count of its row, up to MaxAttempts, and no other.
LEMMA CountFacts ==
  ASSUME TypeOK, NEW p \in Passes, row[p] \in Row, CountFailure(p)
  PROVE  /\ failures' \in [Row -> 0..MaxAttempts]
         /\ \A r \in Row : failures[r] <= failures'[r]
         /\ p \in Ticks => \A k \in 0..(MaxAttempts - 1) :
                k <= failures[row[p]] => k < failures'[row[p]]
<1> USE TriggerConstants
<1>1. CASE failures' = failures /\ (p \in Ticks => failures[row[p]] >= MaxAttempts)
  BY <1>1 DEF TypeOK
<1>2. CASE /\ failures[row[p]] < MaxAttempts
           /\ failures' = [failures EXCEPT ![row[p]] = @ + 1]
  <2>1. failures[row[p]] \in 0..MaxAttempts /\ failures'[row[p]] = failures[row[p]] + 1
    BY <1>2 DEF TypeOK
  <2>2. \A r \in Row \ {row[p]} : failures'[r] = failures[r]
    BY <1>2 DEF TypeOK
  <2>3. failures' \in [Row -> 0..MaxAttempts]
    BY <1>2, <2>1 DEF TypeOK
  <2> QED
    BY <1>2, <2>1, <2>2, <2>3 DEF TypeOK
<1> QED
  BY <1>1, <1>2 DEF CountFailure, TypeOK

\* What a pass consumes is settled or has used up its attempts.
LEMMA ConsumedFacts ==
  ASSUME TypeOK, PassInv, NEW p \in Passes
  PROVE  /\ Consumed(p) \subseteq Row /\ good[p] \subseteq Consumed(p)
         /\ p \notin Ticks => Consumed(p) \subseteq settled
         /\ p \in Ticks => \A r \in Consumed(p) :
                r \in settled \/ (r \in GivenUp(p) /\ failures[r] = MaxAttempts)
<1> USE TriggerConstants
<1>1. Consumed(p) \subseteq Row /\ good[p] \subseteq Consumed(p)
  BY DEF Consumed, GivenUp, TypeOK
<1>2. p \notin Ticks => Consumed(p) \subseteq settled
  BY DEF Consumed, PassInv
<1>3. ASSUME p \in Ticks, NEW r \in GivenUp(p)
      PROVE  failures[r] = MaxAttempts
  <2>1. r \in bad[p] /\ r \in Row /\ snapAttempts[p][r] + 1 >= MaxAttempts
    BY DEF GivenUp, TypeOK
  <2>2. snapAttempts[p][r] < failures[r]
    BY <1>3, <2>1 DEF PassInv
  <2>3. snapAttempts[p][r] \in 0..(MaxAttempts - 1) /\ failures[r] \in 0..MaxAttempts
    BY <2>1 DEF TypeOK
  <2> QED
    BY <2>1, <2>2, <2>3
<1> QED
  BY <1>1, <1>2, <1>3 DEF Consumed, PassInv

\* The attempts that a pass leaves behind are counted failures.
LEMMA AttemptsFacts ==
  ASSUME TypeOK, PassInv, \A r \in Row : attempts[r] <= failures[r], NEW p \in Passes
  PROVE  /\ NewAttempts(p) \in [Row -> 0..(MaxAttempts - 1)]
         /\ \A r \in Row : NewAttempts(p)[r] <= failures[r]
<1> USE TriggerConstants
<1>1. CASE p \notin Ticks
  BY <1>1 DEF NewAttempts, TypeOK
<1>2. CASE p \in Ticks
  <2> DEFINE new(r) == IF r \in Consumed(p) THEN 0
                       ELSE IF r \in bad[p] THEN snapAttempts[p][r] + 1
                       ELSE snapAttempts[p][r]
  <2>1. ASSUME NEW r \in Row
        PROVE  new(r) \in 0..(MaxAttempts - 1) /\ new(r) <= failures[r]
    <3>1. snapAttempts[p][r] \in 0..(MaxAttempts - 1) /\ failures[r] \in 0..MaxAttempts
      BY DEF TypeOK
    <3>2. snapAttempts[p][r] <= failures[r]
      BY DEF PassInv
    <3>3. CASE r \in bad[p] /\ r \notin Consumed(p)
      <4>1. snapAttempts[p][r] + 1 < MaxAttempts
        BY <1>2, <3>1, <3>3 DEF Consumed, GivenUp
      <4>2. snapAttempts[p][r] < failures[r]
        BY <1>2, <3>3 DEF PassInv
      <4> QED
        BY <3>1, <3>3, <4>1, <4>2
    <3> QED
      BY <3>1, <3>2, <3>3
  <2>2. NewAttempts(p) = [r \in Row |-> new(r)]
    BY <1>2 DEF NewAttempts
  <2> QED
    BY <2>1, <2>2
<1> QED
  BY <1>1, <1>2

-----------------------------------------------------------------------------
(* The initial states and the steps before a row's run.                    *)

LEMMA InitInv == Init => IInv
<1> SUFFICES ASSUME Init PROVE IInv
  OBVIOUS
<1> USE TriggerConstants DEF Init, NoAttempts
<1>1. TypeOK
  BY DEF TypeOK, PC
<1>2. RowsInv /\ PassInv /\ CleanInv
  BY DEF RowsInv, PassInv, CleanInv, Consumable, Working, At
<1>3. (\A r \in Row : attempts[r] <= failures[r]) /\ ConsumedIsSettled /\ OnceWhenClean
  BY DEF ConsumedIsSettled, OnceWhenClean
<1> QED
  BY <1>1, <1>2, <1>3 DEF IInv

LEMMA ArriveInv == ASSUME IInv, NEW r \in Row, Arrive(r) PROVE IInv'
<1> USE DEF IInv, Arrive, stateVars, passVars, outVars
<1>1. TypeOK'
  BY DEF TypeOK
<1>2. RowsInv' /\ PassInv' /\ CleanInv'
  BY DEF RowsInv, PassInv, CleanInv, Consumable, At
<1>3. (\A s \in Row : attempts[s] <= failures[s])' /\ ConsumedIsSettled' /\ OnceWhenClean'
  BY DEF ConsumedIsSettled, OnceWhenClean
<1> QED
  BY <1>1, <1>2, <1>3

LEMMA StartInv == ASSUME IInv, NEW p \in Passes, Start(p) PROVE IInv'
<1> USE TriggerConstants DEF IInv, Start, Goto, CleanIf, stateVars
<1>1. TypeOK'
  BY DEF TypeOK, PC, NoAttempts
<1>2. /\ pc'[p] = "poll" /\ snapSeen'[p] = seen /\ snapAttempts'[p] = attempts
      /\ \A q \in Passes \ {p} : /\ pc'[q] = pc[q] /\ snapSeen'[q] = snapSeen[q]
                                 /\ snapAttempts'[q] = snapAttempts[q]
  BY DEF TypeOK
<1>3. RowsInv'
  BY <1>2 DEF RowsInv, At, Working
<1>4. PassInv'
  <2>1. Consumable(seen)
    BY DEF ConsumedIsSettled, Consumable
  <2> QED
    BY <1>2, <2>1 DEF PassInv, Consumable, RowsInv, At
<1>5. CleanInv'
  <2> SUFFICES ASSUME clean' PROVE CleanInv'
    BY DEF CleanInv
  <2>1. clean /\ (\A q \in Passes : pc[q] = "idle") /\ offers' = offers
    BY DEF At
  <2>2. \A q \in Passes \ {p} : pc'[q] = "idle"
    BY <1>2, <2>1
  <2>3. awaited[p]
    BY <2>1 DEF RowsInv
  <2>4. \A r \in Row : offers[r] # 0 => r \in seen \/ \E q \in Passes : r \in good[q]
    BY <2>1 DEF CleanInv, At
  <2> QED
    BY <1>2, <2>1, <2>2, <2>3, <2>4 DEF CleanInv, At
<1>6. (\A s \in Row : attempts[s] <= failures[s])' /\ ConsumedIsSettled' /\ OnceWhenClean'
  BY DEF ConsumedIsSettled, OnceWhenClean
<1> QED
  BY <1>1, <1>3, <1>4, <1>5, <1>6

LEMMA PollInv == ASSUME IInv, NEW p \in Passes, Poll(p) PROVE IInv'
<1> USE TriggerConstants DEF IInv, Poll, Goto, stateVars, outVars
<1>1. Fresh(p) \subseteq Row \ snapSeen[p]
  BY DEF Fresh, Unseen, TypeOK
<1>2. TypeOK'
  BY <1>1 DEF TypeOK, PC
<1>3. /\ pc'[p] = "next" /\ todo'[p] = Fresh(p)
      /\ \A q \in Passes \ {p} : pc'[q] = pc[q] /\ todo'[q] = todo[q]
  BY DEF TypeOK
<1>4. RowsInv'
  <2>1. good[p] = {} /\ row[p] = NoRow /\ NoRow \notin Row
    BY DEF RowsInv, At, Working, Row, NoRow
  <2> QED
    BY <1>1, <1>3, <2>1 DEF RowsInv, Working
<1>5. PassInv'
  BY DEF PassInv, Consumable
<1>6. CleanInv'
  BY <1>3 DEF CleanInv, At
<1>7. (\A s \in Row : attempts[s] <= failures[s])' /\ ConsumedIsSettled' /\ OnceWhenClean'
  BY DEF ConsumedIsSettled, OnceWhenClean
<1> QED
  BY <1>2, <1>4, <1>5, <1>6, <1>7

LEMMA NextRowInv == ASSUME IInv, NEW p \in Passes, NextRow(p) PROVE IInv'
<1> USE TriggerConstants DEF IInv, NextRow, Goto, stateVars, outVars
<1>1. TypeOK'
  <2>1. pc' \in [Passes -> PC]
    BY DEF TypeOK, PC
  <2>2. /\ row' \in [Passes -> Row \cup {NoRow}]
        /\ todo' \in [Passes -> SUBSET Row]
    <3>1. CASE UNCHANGED <<row, todo>>
      BY <3>1 DEF TypeOK
    <3>2. ASSUME NEW r \in todo[p], row' = [row EXCEPT ![p] = r],
                 todo' = [todo EXCEPT ![p] = @ \ {r}]
          PROVE  /\ row' \in [Passes -> Row \cup {NoRow}]
                 /\ todo' \in [Passes -> SUBSET Row]
      <4>1. r \in Row /\ todo[p] \ {r} \in SUBSET Row
        BY DEF TypeOK
      <4> QED
        BY <3>2, <4>1 DEF TypeOK
    <3> QED
      BY <3>1, <3>2
  <2> QED
    BY <2>1, <2>2 DEF TypeOK
<1>2. /\ pc'[p] \in {"fire", "save"}
      /\ \A q \in Passes \ {p} : pc'[q] = pc[q] /\ row'[q] = row[q] /\ todo'[q] = todo[q]
  BY DEF TypeOK
<1>3. \/ /\ pc'[p] = "fire" /\ row'[p] \in todo[p] /\ todo'[p] = todo[p] \ {row'[p]}
      \/ pc'[p] = "save" /\ row'[p] = row[p] /\ todo'[p] = todo[p]
  BY DEF TypeOK
<1>4. RowsInv'
  <2>1. todo[p] \subseteq Row /\ row[p] = NoRow
    BY DEF RowsInv, TypeOK, At, Working
  <2> QED
    BY <1>2, <1>3, <2>1 DEF RowsInv, Working
<1>5. PassInv'
  BY DEF PassInv, Consumable
<1>6. CleanInv'
  BY <1>2, <1>3 DEF CleanInv, At
<1>7. (\A s \in Row : attempts[s] <= failures[s])' /\ ConsumedIsSettled' /\ OnceWhenClean'
  BY DEF ConsumedIsSettled, OnceWhenClean
<1> QED
  BY <1>1, <1>4, <1>5, <1>6, <1>7

-----------------------------------------------------------------------------
(* The steps of a row's run.                                               *)

\* A row being run is a row, and one that no list of its pass holds.
LEMMA AtWork ==
  ASSUME IInv, NEW p \in Passes, pc[p] \in Working
  PROVE  /\ row[p] \in Row /\ row[p] \notin snapSeen[p] \cup good[p] \cup todo[p]
         /\ clean => /\ \A q \in Passes \ {p} : pc[q] = "idle" /\ good[q] = {}
                     /\ snapSeen[p] = seen
<1>1. row[p] \in Row /\ row[p] \notin snapSeen[p] \cup good[p] \cup todo[p]
  BY DEF IInv, RowsInv
<1>2. ASSUME clean, NEW q \in Passes \ {p} PROVE pc[q] = "idle" /\ good[q] = {}
  BY <1>2 DEF IInv, RowsInv, CleanInv, At, Working
<1>3. clean => snapSeen[p] = seen
  BY DEF IInv, CleanInv, At, Working
<1> QED
  BY <1>1, <1>2, <1>3

LEMMA RaiseInv ==
  ASSUME IInv, NEW p \in Passes, pc[p] \in Working, Raise(p),
         UNCHANGED <<offered, stateVars, todo, good, bad, snapSeen, snapAttempts,
                     settled, dead>>
  PROVE  IInv'
<1> USE TriggerConstants DEF IInv, Raise, NextUp, Goto, CleanIf, stateVars
<1>1. /\ failures' \in [Row -> 0..MaxAttempts]
      /\ \A r \in Row : failures[r] <= failures'[r]
  BY AtWork, CountFacts
<1>2. TypeOK'
  BY <1>1 DEF TypeOK, PC, NoAttempts
<1>3. /\ pc'[p] = "next" /\ row'[p] = NoRow
      /\ \A q \in Passes \ {p} : /\ pc'[q] = pc[q] /\ row'[q] = row[q]
                                 /\ awaited'[q] = awaited[q]
  BY DEF TypeOK
<1>4. RowsInv'
  <2>1. todo[p] \subseteq Row /\ NoRow \notin Row
    BY DEF TypeOK, Row, NoRow
  <2> QED
    BY <1>3, <2>1 DEF RowsInv, Working
<1>5. /\ \A q \in Passes : Consumable(snapSeen[q])'
      /\ ConsumedIsSettled'
  BY <1>1, <1>2, StaysConsumable DEF PassInv, ConsumedIsSettled, Consumable, TypeOK
<1>6. PassInv'
  <2>1. ASSUME NEW q \in Passes, NEW r \in Row
        PROVE  /\ snapAttempts[q][r] <= failures'[r]
               /\ snapAttempts[q][r] < failures[r] => snapAttempts[q][r] < failures'[r]
    <3>1. snapAttempts[q][r] \in Nat /\ failures[r] \in Nat /\ failures'[r] \in Nat
      BY <1>1 DEF TypeOK
    <3> QED
      BY <1>1, <3>1 DEF PassInv
  <2> QED
    BY <1>5, <2>1 DEF PassInv, TypeOK
<1>7. (\A r \in Row : attempts[r] <= failures[r])'
  BY <1>1, <1>2 DEF TypeOK
<1>8. CleanInv' /\ OnceWhenClean'
  BY DEF CleanInv, OnceWhenClean
<1> QED
  BY <1>2, <1>4, <1>5, <1>6, <1>7, <1>8

\* A row's commit or staging that ends quietly, with or without the write put out.
LEMMA QuietInv ==
  ASSUME IInv, NEW p \in Passes, pc[p] \in {"commit", "stage"}, Quietly(p),
         Offer(p) \/ UNCHANGED offers,
         UNCHANGED <<offered, stateVars, todo, good, bad, snapSeen, snapAttempts,
                     settled, dead>>
  PROVE  IInv'
<1> USE TriggerConstants DEF IInv, Quietly, Goto, stateVars
<1>0. pc[p] \in Working /\ row[p] \in Row
  BY AtWork DEF Working
<1>1. /\ offers' \in [Row -> 0..2]
      /\ \A r \in Row \ {row[p]} : offers'[r] = offers[r]
  BY <1>0 DEF Offer, TypeOK
<1>2. clean => offers'[row[p]] <= 1
  <2> SUFFICES ASSUME clean PROVE offers'[row[p]] <= 1
    OBVIOUS
  <2>1. offers[row[p]] = 0
    <3>1. /\ row[p] \notin seen /\ row[p] \notin good[p] /\ pc[p] # "ran"
          /\ \A q \in Passes \ {p} : pc[q] = "idle" /\ good[q] = {}
      BY <1>0, AtWork
    <3>2. ~ \E q \in Passes : row[p] \in good[q] \/ (pc[q] = "ran" /\ row[q] = row[p])
      BY <3>1
    <3> QED
      BY <1>0, <3>1, <3>2 DEF CleanInv, At
  <2> QED
    BY <1>0, <2>1 DEF Offer, TypeOK
<1>3. TypeOK'
  BY <1>1 DEF TypeOK, PC
<1>4. pc'[p] = "ran" /\ \A q \in Passes \ {p} : pc'[q] = pc[q]
  BY DEF TypeOK
<1>5. RowsInv'
  BY <1>0, <1>4 DEF RowsInv, Working
<1>6. PassInv'
  BY DEF PassInv, Consumable
<1>7. CleanInv'
  BY <1>0, <1>1, <1>4 DEF CleanInv, At, Working
<1>8. (\A r \in Row : attempts[r] <= failures[r])' /\ ConsumedIsSettled' /\ OnceWhenClean'
  BY <1>1, <1>2 DEF ConsumedIsSettled, OnceWhenClean
<1> QED
  BY <1>3, <1>5, <1>6, <1>7, <1>8

LEMMA CommitInv == ASSUME IInv, NEW p \in Passes, Commit(p) PROVE IInv'
BY QuietInv, RaiseInv DEF Commit, At, Working

LEMMA StageInv == ASSUME IInv, NEW p \in Passes, Stage(p) PROVE IInv'
BY QuietInv, RaiseInv DEF Stage, At, Working

LEMMA FireInv == ASSUME IInv, NEW p \in Passes, Fire(p) PROVE IInv'
<1> USE TriggerConstants DEF IInv, Fire, Goto, stateVars
<1>0. pc[p] = "fire" /\ row[p] \in Row
  BY AtWork DEF At, Working
<1>1. CASE /\ bad' = [bad EXCEPT ![p] = @ \cup {row[p]}]
           /\ settled' = IF p \in Ticks THEN settled ELSE settled \cup {row[p]}
           /\ CountFailure(p) /\ NextUp(p)
  <2> USE <1>1 DEF NextUp
  <2>1. /\ failures' \in [Row -> 0..MaxAttempts]
        /\ \A r \in Row : failures[r] <= failures'[r]
        /\ p \in Ticks => snapAttempts[p][row[p]] < failures'[row[p]]
    BY <1>0, CountFacts DEF PassInv, TypeOK
  <2>2. TypeOK'
    BY <1>0, <2>1 DEF TypeOK, PC
  <2>3. /\ pc'[p] = "next" /\ row'[p] = NoRow /\ bad'[p] = bad[p] \cup {row[p]}
        /\ \A q \in Passes \ {p} : /\ pc'[q] = pc[q] /\ row'[q] = row[q]
                                   /\ bad'[q] = bad[q]
    BY DEF TypeOK
  <2>4. RowsInv'
    <3>1. todo[p] \subseteq Row /\ NoRow \notin Row
      BY DEF TypeOK, Row, NoRow
    <3> QED
      BY <2>3, <3>1 DEF RowsInv, Working
  <2>5. /\ \A q \in Passes : Consumable(snapSeen[q])'
        /\ ConsumedIsSettled'
    BY <2>1, <2>2, StaysConsumable DEF PassInv, ConsumedIsSettled, Consumable, TypeOK
  <2>6. PassInv'
    <3>1. ASSUME NEW q \in Passes, NEW r \in Row
          PROVE  /\ snapAttempts[q][r] <= failures'[r]
                 /\ snapAttempts[q][r] < failures[r] => snapAttempts[q][r] < failures'[r]
      <4>1. snapAttempts[q][r] \in Nat /\ failures[r] \in Nat /\ failures'[r] \in Nat
        BY <2>1 DEF TypeOK
      <4> QED
        BY <2>1, <4>1 DEF PassInv
    <3>2. ASSUME NEW q \in Passes, q \in Ticks, NEW r \in bad'[q]
          PROVE  snapAttempts[q][r] < failures'[r]
      BY <2>1, <2>3, <3>1, <3>2 DEF PassInv, TypeOK
    <3>3. ASSUME NEW q \in Passes
          PROVE  good[q] \subseteq settled' /\ (q \notin Ticks => bad'[q] \subseteq settled')
      BY <2>3 DEF PassInv
    <3> QED
      BY <2>5, <3>1, <3>2, <3>3 DEF PassInv
  <2>7. (\A r \in Row : attempts[r] <= failures[r])'
    BY <2>1, <2>2 DEF TypeOK
  <2>8. CleanInv' /\ OnceWhenClean'
    BY <1>0, <2>3 DEF CleanInv, OnceWhenClean, At
  <2> QED
    BY <2>2, <2>4, <2>5, <2>6, <2>7, <2>8
<1>2. CASE /\ pc' \in {[pc EXCEPT ![p] = c] : c \in {"ran", "stage", "commit"}}
           /\ UNCHANGED <<row, bad, settled, failures>>
  <2> USE <1>2
  <2>1. TypeOK'
    <3>1. pc \in [Passes -> PC]
      BY DEF TypeOK
    <3>2. pc' \in [Passes -> PC]
      <4> PICK c \in {"ran", "stage", "commit"} : pc' = [pc EXCEPT ![p] = c]
        OBVIOUS
      <4> QED
        BY ONLY <3>1, c \in {"ran", "stage", "commit"}, pc' = [pc EXCEPT ![p] = c] DEF PC
    <3> QED
      BY <3>2 DEF TypeOK
  <2>2. /\ pc'[p] \in {"ran", "stage", "commit"}
        /\ \A q \in Passes \ {p} : pc'[q] = pc[q]
    BY DEF TypeOK
  <2>3. RowsInv' /\ PassInv'
    BY <1>0, <2>2 DEF RowsInv, PassInv, Consumable, Working
  <2>4. CleanInv'
    BY <1>0, <2>2 DEF CleanInv, At
  <2>5. (\A r \in Row : attempts[r] <= failures[r])' /\ ConsumedIsSettled' /\ OnceWhenClean'
    BY DEF ConsumedIsSettled, OnceWhenClean
  <2> QED
    BY <2>1, <2>3, <2>4, <2>5
<1>3. \/ /\ bad' = [bad EXCEPT ![p] = @ \cup {row[p]}]
         /\ settled' = IF p \in Ticks THEN settled ELSE settled \cup {row[p]}
         /\ CountFailure(p) /\ NextUp(p)
      \/ /\ pc' \in {[pc EXCEPT ![p] = c] : c \in {"ran", "stage", "commit"}}
         /\ UNCHANGED <<row, bad, settled, failures>>
  OBVIOUS
<1> QED
  BY <1>1, <1>2, <1>3

LEMMA RanInv == ASSUME IInv, NEW p \in Passes, Ran(p) PROVE IInv'
<1> USE TriggerConstants DEF IInv, Ran, NextUp, Goto, stateVars
<1>0. pc[p] = "ran" /\ row[p] \in Row /\ row[p] \notin todo[p]
  BY AtWork DEF At, Working
<1>1. TypeOK'
  BY <1>0 DEF TypeOK, PC
<1>2. /\ pc'[p] = "next" /\ row'[p] = NoRow /\ good'[p] = good[p] \cup {row[p]}
      /\ \A q \in Passes \ {p} : /\ pc'[q] = pc[q] /\ row'[q] = row[q]
                                 /\ good'[q] = good[q]
  BY DEF TypeOK
<1>3. RowsInv'
  <2>1. todo[p] \subseteq Row /\ NoRow \notin Row
    BY DEF TypeOK, Row, NoRow
  <2> QED
    BY <1>0, <1>2, <2>1 DEF RowsInv, Working
<1>4. PassInv'
  BY <1>2 DEF PassInv, Consumable
<1>5. CleanInv'
  BY <1>0, <1>2 DEF CleanInv, At
<1>6. (\A r \in Row : attempts[r] <= failures[r])' /\ ConsumedIsSettled' /\ OnceWhenClean'
  BY DEF ConsumedIsSettled, OnceWhenClean
<1> QED
  BY <1>1, <1>3, <1>4, <1>5, <1>6

-----------------------------------------------------------------------------
(* The ends of a pass.                                                     *)

\* The pass slot is empty, the others are as they were.
LEMMA ResetFacts ==
  ASSUME TypeOK, NEW p \in Passes, Reset(p)
  PROVE  /\ pc' \in [Passes -> PC] /\ row' \in [Passes -> Row \cup {NoRow}]
         /\ todo' \in [Passes -> SUBSET Row] /\ good' \in [Passes -> SUBSET Row]
         /\ bad' \in [Passes -> SUBSET Row] /\ snapSeen' \in [Passes -> SUBSET Row]
         /\ snapAttempts' \in [Passes -> [Row -> 0..(MaxAttempts - 1)]]
         /\ awaited' \in [Passes -> BOOLEAN]
         /\ pc'[p] = "idle" /\ row'[p] = NoRow /\ todo'[p] = {} /\ good'[p] = {}
         /\ bad'[p] = {} /\ snapSeen'[p] = {} /\ awaited'[p] /\ snapAttempts'[p] = NoAttempts
         /\ \A q \in Passes \ {p} :
                /\ pc'[q] = pc[q] /\ row'[q] = row[q] /\ todo'[q] = todo[q]
                /\ good'[q] = good[q] /\ bad'[q] = bad[q] /\ awaited'[q] = awaited[q]
                /\ snapSeen'[q] = snapSeen[q] /\ snapAttempts'[q] = snapAttempts[q]
<1> USE TriggerConstants DEF Reset, Goto, TypeOK
<1>1. NoAttempts \in [Row -> 0..(MaxAttempts - 1)]
  BY DEF NoAttempts
<1> QED
  BY <1>1 DEF PC

\* What a reset leaves of the parts of the invariant that are about single passes.
LEMMA ResetInv ==
  ASSUME TypeOK, RowsInv, PassInv, NEW p \in Passes, Reset(p),
         UNCHANGED <<settled, failures>>, dead \subseteq dead'
  PROVE  RowsInv' /\ PassInv'
<1>1. RowsInv'
  <2> USE ResetFacts
  <2>1. ASSUME NEW q \in Passes \ {p}
        PROVE  /\ pc'[q] \in {"idle", "poll"} =>
                      todo'[q] = {} /\ good'[q] = {} /\ bad'[q] = {} /\ awaited'[q]
               /\ pc'[q] \notin Working => row'[q] = NoRow
               /\ todo'[q] \cap (snapSeen'[q] \cup good'[q] \cup {row'[q]}) = {}
               /\ pc'[q] \in Working => row'[q] \in Row \ (snapSeen'[q] \cup good'[q])
    <3>1. /\ pc'[q] = pc[q] /\ row'[q] = row[q] /\ todo'[q] = todo[q]
          /\ good'[q] = good[q] /\ bad'[q] = bad[q] /\ awaited'[q] = awaited[q]
          /\ snapSeen'[q] = snapSeen[q]
      OBVIOUS
    <3>2. /\ pc[q] \in {"idle", "poll"} =>
                 todo[q] = {} /\ good[q] = {} /\ bad[q] = {} /\ awaited[q]
          /\ pc[q] \notin Working => row[q] = NoRow
          /\ todo[q] \cap (snapSeen[q] \cup good[q] \cup {row[q]}) = {}
          /\ pc[q] \in Working => row[q] \in Row \ (snapSeen[q] \cup good[q])
      BY DEF RowsInv
    <3> QED
      BY ONLY <3>1, <3>2
  <2>2. /\ pc'[p] = "idle" /\ row'[p] = NoRow /\ todo'[p] = {} /\ good'[p] = {}
        /\ bad'[p] = {} /\ awaited'[p]
    OBVIOUS
  <2> QED
    BY ONLY <2>1, <2>2 DEF RowsInv, Working
<1>2. ASSUME NEW r \in Row PROVE failures[r] \in Nat /\ NoAttempts[r] = 0
  BY TriggerConstants DEF TypeOK, NoAttempts
<1>3. PassInv'
  <2>1. /\ snapSeen'[p] = {} /\ good'[p] = {} /\ bad'[p] = {} /\ snapAttempts'[p] = NoAttempts
        /\ \A q \in Passes \ {p} : /\ snapSeen'[q] = snapSeen[q] /\ good'[q] = good[q]
                                   /\ bad'[q] = bad[q] /\ snapAttempts'[q] = snapAttempts[q]
    BY ResetFacts
  <2>2. settled' = settled /\ failures' = failures
    OBVIOUS
  <2>3. \A r \in Row : NoAttempts[r] <= failures[r]
    BY <1>2
  <2>4. ASSUME NEW q \in Passes
        PROVE  /\ \A r \in snapSeen'[q] :
                      r \in settled \/ (r \in dead' /\ failures[r] = MaxAttempts)
               /\ good'[q] \subseteq settled
               /\ q \notin Ticks => bad'[q] \subseteq settled
               /\ \A r \in Row : snapAttempts'[q][r] <= failures[r]
               /\ q \in Ticks => \A r \in bad'[q] : snapAttempts'[q][r] < failures[r]
    <3>1. CASE q = p
      BY ONLY <2>1, <2>3, <3>1
    <3>2. CASE q # p
      <4>1. /\ \A r \in snapSeen[q] : r \in settled \/ (r \in dead /\ failures[r] = MaxAttempts)
            /\ good[q] \subseteq settled
            /\ q \notin Ticks => bad[q] \subseteq settled
            /\ \A r \in Row : snapAttempts[q][r] <= failures[r]
            /\ q \in Ticks => \A r \in bad[q] : snapAttempts[q][r] < failures[r]
        BY DEF PassInv, Consumable
      <4>2. /\ snapSeen'[q] = snapSeen[q] /\ good'[q] = good[q]
            /\ bad'[q] = bad[q] /\ snapAttempts'[q] = snapAttempts[q]
        BY <2>1, <3>2
      <4> QED
        BY ONLY <4>1, <4>2, dead \subseteq dead'
    <3> QED
      BY <3>1, <3>2
  <2> QED
    BY ONLY <2>2, <2>4 DEF PassInv, Consumable
<1> QED
  BY <1>1, <1>3

LEMMA SaveInv == ASSUME IInv, NEW p \in Passes, Save(p) PROVE IInv'
<1> USE TriggerConstants DEF IInv
<1> DEFINE full == snapSeen[p] \cup Consumed(p)
<1>0. /\ pc[p] = "save" /\ Reset(p) /\ attempts' = NewAttempts(p)
      /\ UNCHANGED <<offered, settled, failures, faults>>
      /\ dead' = IF p \in Ticks THEN dead \cup GivenUp(p) ELSE dead
  BY DEF Save, At
<1>1. Consumed(p) \subseteq Row /\ good[p] \subseteq Consumed(p) /\ GivenUp(p) \subseteq Row
  BY ConsumedFacts DEF GivenUp, TypeOK
<1>2. \/ UNCHANGED <<seen, clean, offers>> /\ Consumed(p) = {}
      \/ seen' \subseteq full /\ CleanIf(seen' = full)
  BY DEF Save, Trim
<1>3. seen' \subseteq Row
  BY <1>1, <1>2 DEF TypeOK
<1>4. offers' \in [Row -> 0..2] /\ clean' \in BOOLEAN
  <2>1. NoAttempts \in [Row -> 0..2]
    BY DEF NoAttempts
  <2> QED
    BY <1>2, <2>1 DEF CleanIf, TypeOK
<1>5. TypeOK'
  BY <1>0, <1>1, <1>3, <1>4, ResetFacts, AttemptsFacts DEF TypeOK
<1>6. RowsInv' /\ PassInv'
  BY <1>0, ResetInv
<1>7. (\A r \in Row : attempts[r] <= failures[r])'
  BY <1>0, AttemptsFacts
<1>8. ConsumedIsSettled'
  <2>1. ASSUME NEW r \in full
        PROVE  r \in settled' \/ (r \in dead' /\ failures'[r] = MaxAttempts)
    BY <1>0, ConsumedFacts DEF PassInv, Consumable
  <2> QED
    BY <1>0, <1>2, <2>1 DEF ConsumedIsSettled
<1>9. OnceWhenClean'
  BY <1>2 DEF OnceWhenClean, CleanIf
<1>10. CleanInv'
  <2> SUFFICES ASSUME clean' PROVE CleanInv'
    BY DEF CleanInv
  <2>1. clean /\ offers' = offers
    BY <1>2 DEF CleanIf
  <2>2. snapSeen[p] = seen /\ \A q \in Passes \ {p} : pc[q] = "idle" /\ good[q] = {}
    BY <1>0, <2>1 DEF CleanInv, RowsInv, At
  <2>3. \A q \in Passes : pc'[q] = "idle"
    BY <1>0, <2>2, ResetFacts
  <2>4. seen \cup good[p] \subseteq seen'
    BY <1>1, <1>2, <2>2 DEF CleanIf
  <2>5. \A r \in Row : offers[r] # 0 => r \in seen \cup good[p]
    BY <1>0, <2>1, <2>2 DEF CleanInv, At
  <2> QED
    BY <2>1, <2>3, <2>4, <2>5 DEF CleanInv, At
<1> QED
  BY <1>5, <1>6, <1>7, <1>8, <1>9, <1>10

LEMMA VanishInv == ASSUME IInv, NEW p \in Passes, Vanish(p) PROVE IInv'
<1> USE DEF IInv, Vanish, stateVars, outVars
<1>1. TypeOK'
  BY ResetFacts DEF TypeOK
<1>2. RowsInv' /\ PassInv'
  BY ResetInv
<1>3. ~ clean
  BY DEF CleanInv, At
<1>4. CleanInv' /\ OnceWhenClean'
  BY <1>3 DEF CleanInv, OnceWhenClean
<1>5. (\A r \in Row : attempts[r] <= failures[r])' /\ ConsumedIsSettled'
  BY DEF ConsumedIsSettled
<1> QED
  BY <1>1, <1>2, <1>4, <1>5

LEMMA CrashInv == ASSUME IInv, NEW p \in Passes, Crash(p) PROVE IInv'
<1> USE TriggerConstants DEF IInv, Crash, CleanIf, stateVars
<1>1. TypeOK'
  BY ResetFacts DEF TypeOK, NoAttempts
<1>2. RowsInv' /\ PassInv'
  BY ResetInv
<1>3. CleanInv' /\ OnceWhenClean'
  BY DEF CleanInv, OnceWhenClean
<1>4. (\A r \in Row : attempts[r] <= failures[r])' /\ ConsumedIsSettled'
  BY DEF ConsumedIsSettled
<1> QED
  BY <1>1, <1>2, <1>3, <1>4

-----------------------------------------------------------------------------
(* The theorems.                                                           *)

LEMMA StepInv == IInv /\ [Next]_vars => IInv'
<1> SUFFICES ASSUME IInv, [Next]_vars PROVE IInv'
  OBVIOUS
<1>1. CASE \E r \in Row : Arrive(r)
  BY <1>1, ArriveInv
<1>2. ASSUME NEW p \in Passes, Start(p) \/ Proceed(p) \/ Crash(p) PROVE IInv'
  BY <1>2, StartInv, PollInv, NextRowInv, FireInv, CommitInv, StageInv, RanInv,
     SaveInv, VanishInv, CrashInv DEF Proceed
<1>3. CASE UNCHANGED vars
  <2> USE <1>3 DEF vars, stateVars, passVars, outVars, IInv
  <2>1. TypeOK'
    BY DEF TypeOK
  <2>2. RowsInv' /\ PassInv' /\ CleanInv'
    BY DEF RowsInv, PassInv, CleanInv, Consumable, At
  <2>3. (\A r \in Row : attempts[r] <= failures[r])' /\ ConsumedIsSettled' /\ OnceWhenClean'
    BY DEF ConsumedIsSettled, OnceWhenClean
  <2> QED
    BY <2>1, <2>2, <2>3
<1> QED
  BY <1>1, <1>2, <1>3 DEF Next

\* The inductive invariant of a poll trigger holds in every reachable state.
THEOREM Invariant == Spec => []IInv
BY InitInv, StepInv, PTL DEF Spec

\* The variables keep their types; for attempts, that a counter never reaches
\* MaxAttempts without its row being given up.
THEOREM TypeCorrect == Spec => []TypeOK
<1>1. IInv => TypeOK
  BY DEF IInv
<1> QED
  BY <1>1, Invariant, PTL

\* No row is consumed before a run of it came back or its attempts were used up,
\* however ticks, run-now jobs and orphaned rows overlap and whatever crashes.
THEOREM ConsumesTheSettled == Spec => []ConsumedIsSettled
<1>1. IInv => ConsumedIsSettled
  BY DEF IInv
<1> QED
  BY <1>1, Invariant, PTL

\* While nothing crashes, raises, overlaps or is trimmed, a row's write is put before
\* an officer or the source at most once, whatever fails and is retried.
THEOREM OffersOnce == Spec => []OnceWhenClean
<1>1. IInv => OnceWhenClean
  BY DEF IInv
<1> QED
  BY <1>1, Invariant, PTL
=============================================================================
