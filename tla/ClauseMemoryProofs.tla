--------------------------- MODULE ClauseMemoryProofs ---------------------------
(***************************************************************************)
(* Proofs about the learned memory, for any corrections, officers, lessons,  *)
(* passes and requests, however they overlap, and any bounds.                *)
(***************************************************************************)
EXTENDS ClauseMemory, FiniteSetTheorems, TLAPS

-----------------------------------------------------------------------------
(* Evidence only adds up.                                                  *)

LEMMA EnoughMore ==
  ASSUME NEW C \in SUBSET Corrections, NEW D \in SUBSET Corrections, C \subseteq D, Enough(C)
  PROVE  Enough(D)
<1> DEFINE officers(E) == {Officer[c] : c \in E}
<1>1. IsFiniteSet(Corrections)
  BY FS_Interval, ClauseMemoryConstants DEF Corrections
<1>2. IsFiniteSet(D)
  BY <1>1, FS_Subset
<1>3. IsFiniteSet(officers(D))
  <2> DEFINE f == [c \in D |-> Officer[c]]
  <2>1. f \in Surjection(D, officers(D))
    BY DEF Surjection
  <2> QED
    BY <1>2, <2>1, FS_Surjection
<1>4. officers(C) \subseteq officers(D)
  OBVIOUS
<1>5. /\ Cardinality(officers(C)) <= Cardinality(officers(D))
      /\ Cardinality(officers(C)) \in Nat /\ Cardinality(officers(D)) \in Nat
  BY <1>3, <1>4, FS_Subset, FS_CardinalityType
<1> QED
  BY <1>5, ClauseMemoryConstants DEF Enough

LEMMA TierFacts ==
  ASSUME NEW C
  PROVE  /\ Tier(C) \in {"active", "candidate"}
         /\ Tier(C) = "active" => Enough(C)
BY DEF Tier

-----------------------------------------------------------------------------
(* A pass that reads and decides leaves everything as it is but its own     *)
(* state, and may only come to hold clauses that are in service.            *)

LEMMA ThinkInv ==
  ASSUME IInv, NEW p \in Passes, NEW x \in PassStates, PassOK(x),
         Touched(x) \subseteq Touched(pass[p]) \cup {k \in Clauses : status[k] \in Live},
         pass' = [pass EXCEPT ![p] = x], UNCHANGED Unmoved
  PROVE  IInv'
<1> USE DEF IInv, Unmoved
<1>0. /\ pass \in [Passes -> PassStates] /\ pass'[p] = x
      /\ \A q \in Passes \ {p} : pass'[q] = pass[q]
      /\ UNCHANGED <<recorded, consumedBy, status, prov, before, excused, ask, faults,
                     acts, behind, torn>>
  BY DEF TypeOK
<1>1. TypeOK'
  BY <1>0 DEF TypeOK
<1>2. StoreInv' /\ ConsumedIsCited' /\ ActiveIsEarned'
  BY <1>0 DEF StoreInv, ConsumedIsCited, ActiveIsEarned
<1>3. PassInv'
  BY <1>0 DEF PassInv, PassOK, Written
<1>4. AskInv'
  BY <1>0 DEF AskInv, Written
<1>5. HoldInv'
  <2> SUFFICES ASSUME NEW k \in Clauses, status[k] = "held", NEW q \in Passes \ behind[k]
               PROVE  k \notin Touched(pass'[q])
    BY <1>0 DEF HoldInv, Touched
  <2>1. k \notin Touched(pass[q])
    BY DEF HoldInv
  <2>2. CASE q = p
    BY <2>1, <2>2, <1>0 DEF Live
  <2>3. CASE q # p
    BY <2>1, <2>3, <1>0
  <2> QED
    BY <2>2, <2>3
<1> QED
  BY <1>1, <1>2, <1>3, <1>4, <1>5

LEMMA ReadTypes ==
  ASSUME TypeOK
  PROVE  /\ Window \in SUBSET Corrections
         /\ \A p \in Passes : \A l : Without(p, l) \in SUBSET Corrections
         /\ \A k \in Clauses : [status |-> status[k], prov |-> prov[k]] \in
                               [status : Statuses, prov : SUBSET Corrections]
<1>1. Window \in SUBSET Corrections
  BY ClauseMemoryConstants DEF TypeOK, Window, Pending, Corrections
<1>2. \A p \in Passes : \A l : Without(p, l) \in SUBSET Corrections
  BY DEF TypeOK, PassStates, Without
<1>3. \A k \in Clauses : status[k] \in Statuses /\ prov[k] \in SUBSET Corrections
  BY DEF TypeOK
<1> QED
  BY <1>1, <1>2, <1>3

LEMMA ReadPendingInv == ASSUME IInv, NEW p \in Passes, ReadPending(p) PROVE IInv'
<1> DEFINE x == [pass[p] EXCEPT !.pc = "open", !.batch = Window]
<1>0. pass \in [Passes -> PassStates] /\ pass[p] \in PassStates /\ PassOK(pass[p])
  BY DEF IInv, TypeOK, PassInv
<1>1. pass' = [pass EXCEPT ![p] = x] /\ UNCHANGED Unmoved
  BY <1>0 DEF ReadPending, Onwards, PassStates
<1>2. x \in PassStates
  BY <1>0, ReadTypes DEF ReadPending, PassStates, PassOK, Written, IInv
<1>3. PassOK(x)
  BY <1>0 DEF ReadPending, PassStates, PassOK
<1>4. Touched(x) \subseteq Touched(pass[p]) \cup {k \in Clauses : status[k] \in Live}
  BY <1>0 DEF ReadPending, PassStates, Touched
<1> QED
  BY <1>1, <1>2, <1>3, <1>4, ThinkInv

LEMMA FoldReadInv == ASSUME IInv, NEW p \in Passes, FoldRead(p) PROVE IInv'
<1> DEFINE x == [pass[p] EXCEPT !.pc = "write",
                  !.doc = [status |-> status[pass[p].clause], prov |-> prov[pass[p].clause]]]
<1>0. pass \in [Passes -> PassStates] /\ pass[p] \in PassStates /\ PassOK(pass[p])
  BY DEF IInv, TypeOK, PassInv
<1>1. pass' = [pass EXCEPT ![p] = x] /\ UNCHANGED Unmoved
  BY <1>0 DEF FoldRead, Onwards, PassStates
<1>2. x \in PassStates
  BY <1>0, ReadTypes DEF FoldRead, PassStates, PassOK, Written, IInv
<1>3. PassOK(x)
  BY <1>0 DEF FoldRead, PassStates, PassOK
<1>4. Touched(x) \subseteq Touched(pass[p]) \cup {k \in Clauses : status[k] \in Live}
  BY <1>0 DEF FoldRead, PassStates, Touched
<1> QED
  BY <1>1, <1>2, <1>3, <1>4, ThinkInv

LEMMA AuthorFailsInv == ASSUME IInv, NEW p \in Passes, AuthorFails(p) PROVE IInv'
<1> DEFINE x == [pass[p] EXCEPT !.pc = "choose", !.batch = Without(p, pass[p].lesson),
                  !.lesson = "nothing", !.clause = 0]
<1>0. pass \in [Passes -> PassStates] /\ pass[p] \in PassStates /\ PassOK(pass[p])
  BY DEF IInv, TypeOK, PassInv
<1>1. pass' = [pass EXCEPT ![p] = x] /\ UNCHANGED Unmoved
  BY <1>0 DEF AuthorFails, Onwards, PassStates
<1>2. x \in PassStates
  BY <1>0, ReadTypes DEF AuthorFails, PassStates, PassOK, Written, IInv
<1>3. PassOK(x)
  BY <1>0 DEF AuthorFails, PassStates, PassOK
<1>4. Touched(x) \subseteq Touched(pass[p]) \cup {k \in Clauses : status[k] \in Live}
  BY <1>0 DEF AuthorFails, PassStates, Touched
<1> QED
  BY <1>1, <1>2, <1>3, <1>4, ThinkInv

LEMMA ReadClausesInv == ASSUME IInv, NEW p \in Passes, ReadClauses(p) PROVE IInv'
<1>0. pass \in [Passes -> PassStates] /\ pass[p] \in PassStates /\ PassOK(pass[p])
  BY DEF IInv, TypeOK, PassInv
<1>a. PICK n \in {1, MinCluster} :
        pass' = [pass EXCEPT ![p].pc = "choose", ![p].floor = n,
                              ![p].seen = {k \in Clauses : status[k] \in Live}]
  BY DEF ReadClauses
<1> DEFINE x == [pass[p] EXCEPT !.pc = "choose", !.floor = n,
                  !.seen = {k \in Clauses : status[k] \in Live}]
<1>1. pass' = [pass EXCEPT ![p] = x] /\ UNCHANGED Unmoved
  BY <1>0, <1>a DEF ReadClauses, PassStates
<1>2. x \in PassStates
  BY <1>0, <1>a, ReadTypes DEF ReadClauses, PassStates, PassOK, Written, IInv, Live
<1>3. PassOK(x)
  BY <1>0, <1>a DEF ReadClauses, PassStates, PassOK, Written, Live
<1>4. Touched(x) \subseteq Touched(pass[p]) \cup {k \in Clauses : status[k] \in Live}
  BY <1>0, <1>a DEF ReadClauses, PassStates, Touched
<1> QED
  BY <1>1, <1>2, <1>3, <1>4, ThinkInv

LEMMA MatchInv == ASSUME IInv, NEW p \in Passes, Match(p) PROVE IInv'
<1>0. pass \in [Passes -> PassStates] /\ pass[p] \in PassStates /\ PassOK(pass[p])
  BY DEF IInv, TypeOK, PassInv
<1>a. PICK c \in pass[p].batch, k \in pass[p].seen :
        pass' = [pass EXCEPT ![p].pc = "fold", ![p].lesson = Teaches[c], ![p].clause = k]
  BY DEF Match
<1> DEFINE x == [pass[p] EXCEPT !.pc = "fold", !.lesson = Teaches[c], !.clause = k]
<1>1. pass' = [pass EXCEPT ![p] = x] /\ UNCHANGED Unmoved
  BY <1>0, <1>a DEF Match, PassStates
<1>2. x \in PassStates
  BY <1>0, <1>a, ReadTypes DEF Match, PassStates, PassOK, Written, IInv, Lessons
<1>3. PassOK(x)
  BY <1>0, <1>a DEF Match, PassStates, PassOK, Written, Lessons
<1>4. Touched(x) \subseteq Touched(pass[p]) \cup {j \in Clauses : status[j] \in Live}
  BY <1>0, <1>a DEF Match, PassStates, Touched
<1> QED
  BY <1>1, <1>2, <1>3, <1>4, ThinkInv

LEMMA PassOverInv == ASSUME IInv, NEW p \in Passes, PassOver(p) PROVE IInv'
<1>0. pass \in [Passes -> PassStates] /\ pass[p] \in PassStates /\ PassOK(pass[p])
  BY DEF IInv, TypeOK, PassInv
<1>a. PICK c \in pass[p].batch :
        pass' = [pass EXCEPT ![p].batch = Without(p, Teaches[c])]
  BY DEF PassOver
<1> DEFINE x == [pass[p] EXCEPT !.batch = Without(p, Teaches[c])]
<1>1. pass' = [pass EXCEPT ![p] = x] /\ UNCHANGED Unmoved
  BY <1>0, <1>a DEF PassOver, PassStates
<1>2. x \in PassStates
  BY <1>0, <1>a, ReadTypes DEF PassOver, PassStates, PassOK, Written, IInv
<1>3. PassOK(x)
  BY <1>0, <1>a DEF PassOver, PassStates, PassOK, Written
<1>4. Touched(x) \subseteq Touched(pass[p]) \cup {k \in Clauses : status[k] \in Live}
  BY <1>0, <1>a DEF PassOver, PassStates, Touched
<1> QED
  BY <1>1, <1>2, <1>3, <1>4, ThinkInv

LEMMA UndertakeInv == ASSUME IInv, NEW p \in Passes, Undertake(p) PROVE IInv'
<1>0. pass \in [Passes -> PassStates] /\ pass[p] \in PassStates /\ PassOK(pass[p])
  BY DEF IInv, TypeOK, PassInv
<1>a. PICK c \in pass[p].batch :
        pass' = [pass EXCEPT ![p].pc = "author", ![p].lesson = Teaches[c]]
  BY DEF Undertake
<1> DEFINE x == [pass[p] EXCEPT !.pc = "author", !.lesson = Teaches[c]]
<1>1. pass' = [pass EXCEPT ![p] = x] /\ UNCHANGED Unmoved
  BY <1>0, <1>a DEF Undertake, PassStates
<1>2. x \in PassStates
  BY <1>0, <1>a, ReadTypes DEF Undertake, PassStates, PassOK, Written, IInv, Lessons
<1>3. PassOK(x)
  BY <1>0, <1>a DEF Undertake, PassStates, PassOK, Written, Lessons
<1>4. Touched(x) \subseteq Touched(pass[p]) \cup {k \in Clauses : status[k] \in Live}
  BY <1>0, <1>a DEF Undertake, PassStates, Touched
<1> QED
  BY <1>1, <1>2, <1>3, <1>4, ThinkInv

LEMMA AuthorInv == ASSUME IInv, NEW p \in Passes, Author(p) PROVE IInv'
<1>0. pass \in [Passes -> PassStates] /\ pass[p] \in PassStates /\ PassOK(pass[p])
  BY DEF IInv, TypeOK, PassInv
<1>a. PICK k \in Clauses :
        pass' = [pass EXCEPT ![p].pc = "insert", ![p].clause = k]
  BY DEF Author
<1> DEFINE x == [pass[p] EXCEPT !.pc = "insert", !.clause = k]
<1>1. pass' = [pass EXCEPT ![p] = x] /\ UNCHANGED Unmoved
  BY <1>0, <1>a DEF Author, PassStates
<1>2. x \in PassStates
  BY <1>0, <1>a, ReadTypes DEF Author, PassStates, PassOK, Written, IInv
<1>3. PassOK(x)
  BY <1>0, <1>a DEF Author, PassStates, PassOK, Written
<1>4. Touched(x) \subseteq Touched(pass[p]) \cup {j \in Clauses : status[j] \in Live}
  BY <1>0, <1>a DEF Author, PassStates, Touched
<1> QED
  BY <1>1, <1>2, <1>3, <1>4, ThinkInv

LEMMA MeasureInv == ASSUME IInv, NEW p \in Passes, Measure(p) PROVE IInv'
<1>0. pass \in [Passes -> PassStates] /\ pass[p] \in PassStates /\ PassOK(pass[p])
  BY DEF IInv, TypeOK, PassInv
<1>a. PICK poor \in SUBSET {k \in Clauses : status[k] # "none"} :
        pass' = [pass EXCEPT ![p].pc = "rate", ![p].marks = poor,
                              ![p].seen = {}, ![p].floor = MinCluster]
  BY DEF Measure
<1> DEFINE x == [pass[p] EXCEPT !.pc = "rate", !.marks = poor, !.seen = {},
                  !.floor = MinCluster]
<1>1. pass' = [pass EXCEPT ![p] = x] /\ UNCHANGED Unmoved
  BY <1>0, <1>a DEF Measure, PassStates
<1>2. x \in PassStates
  BY <1>0, <1>a, ReadTypes DEF Measure, PassStates, PassOK, Written, IInv
<1>3. PassOK(x)
  BY <1>0, <1>a DEF Measure, PassStates, PassOK, Written
<1>4. Touched(x) \subseteq Touched(pass[p]) \cup {k \in Clauses : status[k] \in Live}
  BY <1>0, <1>a DEF Measure, PassStates, Touched
<1> QED
  BY <1>1, <1>2, <1>3, <1>4, ThinkInv

LEMMA RateInv == ASSUME IInv, NEW p \in Passes, Rate(p) PROVE IInv'
<1>0. pass \in [Passes -> PassStates] /\ pass[p] \in PassStates /\ PassOK(pass[p])
  BY DEF IInv, TypeOK, PassInv
<1>a. PICK k \in pass[p].marks :
        pass' = IF status[k] \in Serving
                THEN [pass EXCEPT ![p].marks = @ \ {k}, ![p].pc = "park", ![p].clause = k]
                ELSE [pass EXCEPT ![p].marks = @ \ {k}]
  BY DEF Rate
<1> DEFINE x == IF status[k] \in Serving
                THEN [pass[p] EXCEPT !.marks = @ \ {k}, !.pc = "park", !.clause = k]
                ELSE [pass[p] EXCEPT !.marks = @ \ {k}]
<1>1. pass' = [pass EXCEPT ![p] = x] /\ UNCHANGED Unmoved
  BY <1>0, <1>a DEF Rate, PassStates
<1>2. x \in PassStates
  BY <1>0, <1>a, ReadTypes DEF Rate, PassStates, PassOK, Written, IInv
<1>3. PassOK(x)
  BY <1>0, <1>a DEF Rate, PassStates, PassOK, Written
<1>4. Touched(x) \subseteq Touched(pass[p]) \cup {j \in Clauses : status[j] \in Live}
  BY <1>0, <1>a DEF Rate, PassStates, Touched, Serving, Live, PassOK, Written
<1> QED
  BY <1>1, <1>2, <1>3, <1>4, ThinkInv

LEMMA RefreshInv == ASSUME IInv, NEW p \in Passes, Refresh(p) PROVE IInv'
<1>0. pass \in [Passes -> PassStates] /\ pass[p] \in PassStates /\ PassOK(pass[p])
  BY DEF IInv, TypeOK, PassInv
<1>a. PICK odd \in SUBSET {k \in Clauses : status[k] = "active"} :
        pass' = [pass EXCEPT ![p].pc = "graph", ![p].clause = 0, ![p].marks = odd,
                             ![p].seen = {k \in Clauses : status[k] \in Serving}]
  BY DEF Refresh
<1> DEFINE x == [pass[p] EXCEPT !.pc = "graph", !.clause = 0, !.marks = odd,
                  !.seen = {k \in Clauses : status[k] \in Serving}]
<1>1. pass' = [pass EXCEPT ![p] = x] /\ UNCHANGED Unmoved
  BY <1>0, <1>a DEF Refresh, PassStates
<1>2. x \in PassStates
  BY <1>0, <1>a, ReadTypes DEF Refresh, PassStates, PassOK, Written, IInv
<1>3. PassOK(x)
  BY <1>0 DEF Refresh, PassStates, PassOK, Written, Serving
<1>4. Touched(x) \subseteq Touched(pass[p]) \cup {k \in Clauses : status[k] \in Live}
  BY <1>0 DEF Refresh, PassStates, Touched, Serving, Live
<1> QED
  BY <1>1, <1>2, <1>3, <1>4, ThinkInv

-----------------------------------------------------------------------------
(* A pass writes.                                                          *)

\* reinforce adds to the evidence as it read it: what another pass folded in since is
\* written over, and the clause is torn.
LEMMA FoldWriteInv == ASSUME IInv, NEW p \in Passes, FoldWrite(p) PROVE IInv'
<1> USE DEF IInv
<1>0. pass \in [Passes -> PassStates] /\ pass[p] \in PassStates /\ PassOK(pass[p])
  BY DEF TypeOK, PassInv
<1>k. PICK k \in Clauses : k = pass[p].clause
  BY <1>0 DEF FoldWrite, PassOK, Written
<1> DEFINE cited == pass[p].doc.prov \cup Cluster(p)
<1>1. /\ status[k] # "none" /\ k \in pass[p].seen /\ pass[p].pc = "write"
      /\ pass[p].lesson \in Lessons
  BY <1>0, <1>k DEF FoldWrite, PassOK, Written
<1>2. cited \in SUBSET Corrections
  BY <1>0 DEF PassStates, Cluster
<1>3. /\ prov' = [prov EXCEPT ![k] = cited]
      /\ \/ status' = [status EXCEPT ![k] = "active"] /\ Enough(cited)
         \/ status' = status
      /\ torn' = IF prov[k] = pass[p].doc.prov THEN torn ELSE torn \cup {k}
      /\ pass' = [pass EXCEPT ![p].pc = "consume", ![p].doc = NoClause]
      /\ UNCHANGED <<recorded, consumedBy, before, excused, ask, faults, acts, behind>>
  BY <1>1, <1>k DEF FoldWrite
<1> HIDE DEF cited
<1>4. \A j \in Clauses : prov[j] \in SUBSET Corrections /\ prov'[j] \in SUBSET Corrections
  BY <1>2, <1>3 DEF TypeOK
<1>5. /\ torn \subseteq torn' /\ torn' \subseteq Clauses
      /\ \A j \in torn' : j \in torn \/ j = k
      /\ \A j \in Clauses \ torn' : prov[j] \subseteq prov'[j]
  BY <1>3 DEF TypeOK, cited
<1>6. \A j \in Clauses : /\ status'[j] = "none" <=> status[j] = "none"
                         /\ status'[j] # status[j] => j = k /\ status'[j] = "active"
                                                            /\ Enough(prov'[j])
                         /\ j # k => prov'[j] = prov[j]
  BY <1>1, <1>3 DEF TypeOK
<1>7. \A j \in Clauses \ torn' : Enough(prov[j]) => Enough(prov'[j])
  BY <1>4, <1>5, EnoughMore
<1>8. /\ pass' \in [Passes -> PassStates] /\ pass'[p].pc = "consume"
      /\ pass'[p].batch = pass[p].batch /\ pass'[p].seen = pass[p].seen
      /\ pass'[p].marks = pass[p].marks /\ pass'[p].lesson = pass[p].lesson
      /\ pass'[p].clause = k
      /\ \A q \in Passes \ {p} : pass'[q] = pass[q]
  BY <1>0, <1>3, <1>k DEF PassStates, NoClause, Statuses
<1>9. TypeOK'
  <2>1. status' \in [Clauses -> Statuses]
    BY <1>1, <1>3 DEF TypeOK, Statuses, Live
  <2>2. prov' \in [Clauses -> SUBSET Corrections]
    BY <1>2, <1>3 DEF TypeOK
  <2> QED
    BY <1>3, <1>5, <1>8, <2>1, <2>2 DEF TypeOK
<1>10. StoreInv'
  BY <1>1, <1>3, <1>5, <1>6 DEF StoreInv
<1>11. PassInv'
  <2>1. \A j : Written(j) => Written(j)'
    BY <1>6 DEF Written
  <2>2. \A c \in pass[p].batch : Teaches[c] = pass[p].lesson => c \in prov'[k]
    BY <1>2, <1>3 DEF Cluster, TypeOK, cited
  <2>3. PassOK(pass[p])'
    BY <2>1, <2>2, <1>0, <1>1, <1>8 DEF PassOK, Written
  <2>4. ASSUME NEW q \in Passes \ {p} PROVE PassOK(pass[q])'
    <3>1. PassOK(pass[q]) /\ pass'[q] = pass[q] /\ pass[q] \in PassStates
      BY <1>8 DEF PassInv, TypeOK
    <3>2. pass[q].pc = "consume" => pass[q].clause \in Clauses
      BY <3>1 DEF PassOK, Written
    <3> QED
      BY <2>1, <3>1, <3>2, <1>5 DEF PassOK
  <2> QED
    BY <2>3, <2>4 DEF PassInv
<1>12. AskInv'
  BY <1>3, <1>5, <1>6, <1>7 DEF AskInv, Written
<1>13. HoldInv'
  <2> SUFFICES ASSUME NEW j \in Clauses, status'[j] = "held"
               PROVE  /\ \A q \in Passes \ behind[j] : j \notin Touched(pass'[q])
                      /\ \A r \in Requests \ behind[j] : ask[r].clause # j
    BY <1>3 DEF HoldInv, Touched
  <2>1. status[j] = "held"
    BY <1>6
  <2>2. Touched(pass'[p]) = Touched(pass[p])
    BY <1>1, <1>8 DEF Touched
  <2> QED
    BY <2>1, <2>2, <1>8 DEF HoldInv
<1>14. ConsumedIsCited'
  BY <1>3, <1>5 DEF ConsumedIsCited, TypeOK
<1>15. ActiveIsEarned'
  BY <1>5, <1>6, <1>7 DEF ActiveIsEarned
<1> QED
  BY <1>9, <1>10, <1>11, <1>12, <1>13, <1>14, <1>15

\* create_clause: the id is new, so no one cites it yet.
LEMMA InsertInv == ASSUME IInv, NEW p \in Passes, Insert(p) PROVE IInv'
<1> USE DEF IInv
<1>0. pass \in [Passes -> PassStates] /\ pass[p] \in PassStates /\ PassOK(pass[p])
  BY DEF TypeOK, PassInv
<1>k. PICK k \in Clauses : k = pass[p].clause
  BY <1>0 DEF Insert, PassOK
<1>1. /\ status[k] = "none" /\ prov[k] = {} /\ pass[p].pc = "insert"
      /\ pass[p].lesson \in Lessons
      /\ Cluster(p) \in SUBSET Corrections
  BY <1>0, <1>k DEF Insert, PassOK, StoreInv, Cluster, PassStates
<1>2. /\ prov' = [prov EXCEPT ![k] = Cluster(p)]
      /\ status' = [status EXCEPT ![k] = Tier(Cluster(p))]
      /\ UNCHANGED <<recorded, consumedBy, before, excused, ask, faults, acts, behind, torn>>
  BY <1>k DEF Insert
<1>3. /\ pass' \in [Passes -> PassStates] /\ pass'[p].pc = "consume"
      /\ pass'[p].batch = pass[p].batch /\ pass'[p].seen = pass[p].seen \cup {k}
      /\ pass'[p].marks = pass[p].marks /\ pass'[p].lesson = pass[p].lesson
      /\ pass'[p].clause = k
      /\ \A q \in Passes \ {p} : pass'[q] = pass[q]
  <2>1. pass' = [pass EXCEPT ![p].pc = "consume", ![p].seen = @ \cup {k}]
    BY <1>k DEF Insert
  <2>2. pass[p].seen \cup {k} \in SUBSET Clauses
    BY <1>0, <1>1 DEF PassStates
  <2> QED
    BY <1>0, <1>k, <2>1, <2>2 DEF PassStates
<1>4. \A j \in Clauses \ {k} : /\ status'[j] = status[j] /\ prov'[j] = prov[j]
  BY <1>2 DEF TypeOK
<1>5. /\ status'[k] \in {"active", "candidate"} /\ (status'[k] = "active" => Enough(prov'[k]))
      /\ prov'[k] = Cluster(p)
  BY <1>1, <1>2, TierFacts DEF TypeOK
<1>6. \A j : Written(j) => j # k /\ Written(j)'
  BY <1>1, <1>4 DEF Written
<1>7. TypeOK'
  BY <1>1, <1>2, <1>3, TierFacts DEF TypeOK, Statuses, Live
<1>8. StoreInv'
  BY <1>2, <1>4, <1>5 DEF StoreInv
<1>9. PassInv'
  <2>1. \A j \in pass'[p].seen \cup pass[p].marks : Written(j)'
    BY <1>0, <1>3, <1>5, <1>6 DEF PassOK, Written
  <2>2. \A c \in pass[p].batch : Teaches[c] = pass[p].lesson => c \in prov'[k]
    BY <1>5 DEF Cluster
  <2>3. PassOK(pass[p])'
    BY <2>1, <2>2, <1>1, <1>2, <1>3, <1>5 DEF PassOK, Written
  <2>4. ASSUME NEW q \in Passes \ {p} PROVE PassOK(pass[q])'
    <3>1. PassOK(pass[q]) /\ pass'[q] = pass[q]
      BY <1>3 DEF PassInv
    <3>2. pass[q].pc = "consume" => pass[q].clause \in Clauses \ {k}
      BY <1>6, <3>1 DEF PassOK, Written
    <3> QED
      BY <1>2, <1>4, <1>6, <3>1, <3>2 DEF PassOK
  <2> QED
    BY <2>3, <2>4 DEF PassInv
<1>10. AskInv'
  BY <1>2, <1>4, <1>6 DEF AskInv, Written
<1>11. HoldInv'
  <2> SUFFICES ASSUME NEW j \in Clauses, status'[j] = "held"
               PROVE  /\ \A q \in Passes \ behind[j] : j \notin Touched(pass'[q])
                      /\ \A r \in Requests \ behind[j] : ask[r].clause # j
    BY <1>2 DEF HoldInv, Touched
  <2>1. j # k /\ status[j] = "held"
    BY <1>4, <1>5
  <2>2. Touched(pass'[p]) \subseteq Touched(pass[p]) \cup {k}
    BY <1>1, <1>3 DEF Touched
  <2> QED
    BY <2>1, <2>2, <1>3 DEF HoldInv
<1>12. ConsumedIsCited' /\ ActiveIsEarned'
  BY <1>1, <1>2, <1>4, <1>5 DEF ConsumedIsCited, ActiveIsEarned, TypeOK
<1> QED
  BY <1>7, <1>8, <1>9, <1>10, <1>11, <1>12

\* mark_consumed, after the clause cites the cluster.
LEMMA ConsumeInv == ASSUME IInv, NEW p \in Passes, Consume(p) PROVE IInv'
<1> USE DEF IInv
<1>0. pass \in [Passes -> PassStates] /\ pass[p] \in PassStates /\ PassOK(pass[p])
  BY DEF TypeOK, PassInv
<1>1. /\ pass[p].clause \in Clauses
      /\ pass[p].clause \in torn \/
         \A c \in pass[p].batch : Teaches[c] = pass[p].lesson => c \in prov[pass[p].clause]
  BY <1>0 DEF Consume, PassOK, Written
<1>2. UNCHANGED <<recorded, status, prov, before, excused, ask, faults, acts, behind, torn>>
  BY DEF Consume
<1>3. /\ consumedBy' \in [Corrections -> Clauses \cup {0}] /\ ConsumedIsCited'
  BY <1>1, <1>2 DEF Consume, TypeOK, ConsumedIsCited, Cluster
<1>4. /\ pass' \in [Passes -> PassStates] /\ pass'[p].pc = "choose"
      /\ pass'[p].seen = pass[p].seen /\ pass'[p].marks = pass[p].marks
      /\ pass'[p] \in PassStates /\ pass'[p].pc = "choose"
      /\ \A q \in Passes \ {p} : pass'[q] = pass[q]
  <2>1. Without(p, pass[p].lesson) \in SUBSET Corrections
    BY ReadTypes
  <2>2. pass' = Onwards(p)
    BY DEF Consume
  <2> QED
    BY <1>0, <2>1, <2>2 DEF Onwards, PassStates
<1>5. TypeOK' /\ StoreInv' /\ AskInv' /\ ActiveIsEarned'
  BY <1>2, <1>3, <1>4 DEF TypeOK, StoreInv, AskInv, Written, ActiveIsEarned
<1>6. PassInv'
  <2>1. PassOK(pass[p])'
    BY <1>0, <1>2, <1>4 DEF PassOK, Written
  <2>2. \A q \in Passes \ {p} : PassOK(pass[q])'
    BY <1>2, <1>4 DEF PassInv, PassOK, Written
  <2> QED
    BY <2>1, <2>2 DEF PassInv
<1>7. HoldInv'
  <2>1. Touched(pass'[p]) \subseteq Touched(pass[p])
    BY <1>4 DEF Touched
  <2> QED
    BY <1>2, <1>4, <2>1 DEF HoldInv, Touched
<1> QED
  BY <1>3, <1>5, <1>6, <1>7

\* The second half takes clauses out of service, or puts a doubt on those it read
\* as active.
LEMMA StatusInv ==
  ASSUME IInv, NEW p \in Passes, NEW k \in Touched(pass[p]), NEW s,
         s \in {"underperforming", "superseded", "dissented"},
         pass[p].pc \in {"park", "graph"},
         NEW x \in PassStates, pass' = [pass EXCEPT ![p] = x],
         x.pc \in {"rate", "graph"}, Touched(x) \subseteq Touched(pass[p]),
         x.marks \subseteq pass[p].marks, x.seen \subseteq pass[p].seen,
         status' = [status EXCEPT ![k] = s],
         UNCHANGED <<recorded, consumedBy, prov, before, excused, ask, faults, acts, behind,
                     torn>>
  PROVE  IInv'
<1> USE DEF IInv
<1>0. pass \in [Passes -> PassStates] /\ pass[p] \in PassStates /\ PassOK(pass[p])
  BY DEF TypeOK, PassInv
<1>1. Written(k)
  BY <1>0 DEF Touched, PassOK
<1>2. /\ pass' \in [Passes -> PassStates] /\ pass'[p] = x
      /\ \A q \in Passes \ {p} : pass'[q] = pass[q]
  BY <1>0
<1>3. \A j \in Clauses : /\ status'[j] = "none" <=> status[j] = "none"
                         /\ j # k => status'[j] = status[j]
                         /\ status'[k] = s
  BY <1>1 DEF TypeOK, Written
<1>4. TypeOK'
  BY <1>2 DEF TypeOK, Statuses, Live
<1>5. StoreInv' /\ AskInv' /\ ConsumedIsCited' /\ ActiveIsEarned'
  BY <1>3 DEF StoreInv, AskInv, Written, ConsumedIsCited, ActiveIsEarned
<1>6. PassInv'
  <2>1. \A j \in x.seen \cup x.marks : Written(j)'
    BY <1>0, <1>3 DEF PassOK, Written
  <2>2. PassOK(pass[p])'
    BY <2>1, <1>2 DEF PassOK
  <2>3. \A j : Written(j) => Written(j)'
    BY <1>3 DEF Written
  <2>4. \A q \in Passes \ {p} : PassOK(pass[q])'
    BY <1>2, <2>3 DEF PassInv, PassOK
  <2> QED
    BY <2>2, <2>4 DEF PassInv
<1>7. HoldInv'
  <2> SUFFICES ASSUME NEW j \in Clauses, status'[j] = "held"
               PROVE  /\ \A q \in Passes \ behind[j] : j \notin Touched(pass'[q])
                      /\ \A r \in Requests \ behind[j] : ask[r].clause # j
    BY DEF HoldInv, Touched
  <2>1. status[j] = "held"
    BY <1>3
  <2> QED
    BY <2>1, <1>2 DEF HoldInv
<1> QED
  BY <1>4, <1>5, <1>6, <1>7

LEMMA ParkInv == ASSUME IInv, NEW p \in Passes, Park(p) PROVE IInv'
<1> DEFINE x == [pass[p] EXCEPT !.pc = "rate", !.clause = 0]
<1>0. pass \in [Passes -> PassStates] /\ pass[p] \in PassStates /\ PassOK(pass[p])
  BY DEF IInv, TypeOK, PassInv
<1>1. /\ pass' = [pass EXCEPT ![p] = x] /\ x \in PassStates
      /\ pass[p].clause \in Touched(pass[p]) /\ Touched(x) \subseteq Touched(pass[p])
      /\ x.marks \subseteq pass[p].marks /\ x.seen \subseteq pass[p].seen
  BY <1>0 DEF Park, PassStates, Touched
<1>2. /\ pass[p].pc = "park" /\ x.pc = "rate"
      /\ status' = [status EXCEPT ![pass[p].clause] = "underperforming"]
      /\ UNCHANGED <<recorded, consumedBy, prov, before, excused, ask, faults, acts, behind,
                     torn>>
  BY <1>0 DEF Park, PassStates
<1> HIDE DEF x
<1> QED
  BY <1>1, <1>2, StatusInv

LEMMA DissentInv == ASSUME IInv, NEW p \in Passes, Dissent(p) PROVE IInv'
<1>0. pass \in [Passes -> PassStates] /\ pass[p] \in PassStates /\ PassOK(pass[p])
  BY DEF IInv, TypeOK, PassInv
<1>1. PICK k \in pass[p].marks : /\ status' = [status EXCEPT ![k] = "dissented"]
                                 /\ pass' = [pass EXCEPT ![p].marks = @ \ {k}]
  BY DEF Dissent
<1> DEFINE x == [pass[p] EXCEPT !.marks = @ \ {k}]
<1>2. /\ pass' = [pass EXCEPT ![p] = x] /\ x \in PassStates
      /\ k \in Touched(pass[p]) /\ Touched(x) \subseteq Touched(pass[p])
      /\ x.marks \subseteq pass[p].marks /\ x.seen \subseteq pass[p].seen
  BY <1>0, <1>1 DEF Dissent, PassStates, Touched
<1>3. /\ pass[p].pc = "graph" /\ x.pc = "graph"
      /\ UNCHANGED <<recorded, consumedBy, prov, before, excused, ask, faults, acts, behind,
                     torn>>
  BY <1>0 DEF Dissent, PassStates
<1> HIDE DEF x
<1> QED
  BY <1>1, <1>2, <1>3, StatusInv

LEMMA AbsorbInv == ASSUME IInv, NEW p \in Passes, Absorb(p) PROVE IInv'
<1>0. pass \in [Passes -> PassStates] /\ pass[p] \in PassStates /\ PassOK(pass[p])
  BY DEF IInv, TypeOK, PassInv
<1>1. PICK k \in pass[p].seen : /\ status' = [status EXCEPT ![k] = "superseded"]
                                /\ pass' = [pass EXCEPT ![p].seen = @ \ {k}]
  BY DEF Absorb
<1> DEFINE x == [pass[p] EXCEPT !.seen = @ \ {k}]
<1>2. /\ pass' = [pass EXCEPT ![p] = x] /\ x \in PassStates
      /\ k \in Touched(pass[p]) /\ Touched(x) \subseteq Touched(pass[p])
      /\ x.marks \subseteq pass[p].marks /\ x.seen \subseteq pass[p].seen
  BY <1>0, <1>1 DEF Absorb, PassStates, Touched
<1>3. /\ pass[p].pc = "graph" /\ x.pc = "graph"
      /\ UNCHANGED <<recorded, consumedBy, prov, before, excused, ask, faults, acts, behind,
                     torn>>
  BY <1>0 DEF Absorb, PassStates
<1> HIDE DEF x
<1> QED
  BY <1>1, <1>2, <1>3, StatusInv

\* A pass that ends, or dies, holds nothing.
LEMMA PassOutInv ==
  ASSUME IInv, NEW p \in Passes, PassOut(p), faults' \in 0..MaxFaults
  PROVE  IInv'
<1> USE DEF IInv
<1>1. /\ pass' \in [Passes -> PassStates] /\ pass'[p] = RestingPass
      /\ \A q \in Passes \ {p} : pass'[q] = pass[q]
      /\ UNCHANGED <<recorded, stored, ask, acts, torn>>
      /\ behind' = [k \in Clauses |-> behind[k] \ {p}]
  BY DEF PassOut, TypeOK, PassStates, RestingPass, NoClause, Statuses
<1>2. TypeOK'
  BY <1>1 DEF TypeOK, stored
<1>3. StoreInv' /\ AskInv' /\ ConsumedIsCited' /\ ActiveIsEarned'
  BY <1>1 DEF StoreInv, AskInv, Written, ConsumedIsCited, ActiveIsEarned, stored
<1>4. PassInv'
  <2>1. PassOK(pass[p])'
    BY <1>1 DEF PassOK, RestingPass
  <2>2. \A q \in Passes \ {p} : PassOK(pass[q])'
    BY <1>1 DEF PassInv, PassOK, Written, stored
  <2> QED
    BY <2>1, <2>2 DEF PassInv
<1>5. Touched(RestingPass) = {}
  BY DEF Touched, RestingPass
<1>6. HoldInv'
  <2> SUFFICES ASSUME NEW k \in Clauses, status[k] = "held"
               PROVE  /\ \A q \in Passes : q = p \/ q \notin behind[k]
                                             => k \notin Touched(pass'[q])
                      /\ \A r \in Requests \ behind[k] : ask[r].clause # k
    BY <1>1, ClauseMemoryConstants DEF HoldInv, Touched, stored
  <2> QED
    BY <1>1, <1>5 DEF HoldInv
<1> QED
  BY <1>2, <1>3, <1>4, <1>6

-----------------------------------------------------------------------------
(* The ledger and people.                                                  *)

LEMMA LedgerInv == ASSUME IInv, Record \/ \E k \in Clauses : Judge(k) PROVE IInv'
<1> USE DEF IInv
<1>1. /\ recorded' \in 0..MaxRecorded /\ excused' \subseteq Clauses
      /\ UNCHANGED <<consumedBy, status, prov, before, pass, ask, faults, acts, behind,
                     torn>>
  BY ClauseMemoryConstants DEF Record, Judge, TypeOK, stored
<1>2. TypeOK'
  BY <1>1 DEF TypeOK
<1>3. StoreInv' /\ AskInv' /\ ConsumedIsCited' /\ ActiveIsEarned'
  BY <1>1 DEF StoreInv, AskInv, Written, ConsumedIsCited, ActiveIsEarned
<1>4. PassInv'
  BY <1>1 DEF PassInv, PassOK, Written
<1>5. HoldInv'
  BY <1>1 DEF Touched, HoldInv
<1> QED
  BY <1>2, <1>3, <1>4, <1>5

\* Whoever is not at work holds no clause.
LEMMA AtRest ==
  ASSUME IInv
  PROVE  /\ \A p \in Passes \ AtWork : Touched(pass[p]) = {}
         /\ \A r \in Requests \ AtWork : ask[r].clause = 0
BY DEF IInv, PassInv, PassOK, AskInv, AtWork, Touched, RestingPass, RestingAsk

LEMMA BehindType ==
  ASSUME TypeOK, NEW k \in Clauses, NEW s
  PROVE  Behind(k, s, AtWork) \in [Clauses -> SUBSET (Passes \cup Requests)]
BY DEF TypeOK, Behind, AtWork

LEMMA HoldKept == ASSUME IInv, NEW k \in Clauses, Hold(k) PROVE IInv'
<1> USE DEF IInv
<1>1. /\ status[k] # "none" /\ status' = [status EXCEPT ![k] = "held"]
      /\ behind' = Behind(k, "held", AtWork)
      /\ acts' \in 0..MaxActs
      /\ UNCHANGED <<recorded, consumedBy, prov, before, excused, pass, ask, faults, torn>>
  BY ClauseMemoryConstants DEF Hold, TypeOK
<1>2. \A j \in Clauses : /\ status'[j] = "none" <=> status[j] = "none"
                         /\ j # k => status'[j] = status[j]
                         /\ status'[k] = "held"
  BY <1>1 DEF TypeOK
<1>3. TypeOK'
  BY <1>1, BehindType DEF TypeOK, Statuses
<1>4. StoreInv' /\ AskInv' /\ ConsumedIsCited' /\ ActiveIsEarned'
  BY <1>1, <1>2 DEF StoreInv, AskInv, Written, ConsumedIsCited, ActiveIsEarned
<1>5. PassInv'
  <2> SUFFICES ASSUME NEW p \in Passes PROVE PassOK(pass[p])'
    BY DEF PassInv
  <2>1. PassOK(pass[p])
    BY DEF PassInv
  <2>2. \A j : Written(j) => Written(j)'
    BY <1>2 DEF Written
  <2> QED
    BY <1>1, <2>1, <2>2 DEF PassOK
<1>6. HoldInv'
  <2> SUFFICES ASSUME NEW j \in Clauses, status'[j] = "held"
               PROVE  /\ \A p \in Passes \ behind'[j] : j \notin Touched(pass[p])
                      /\ \A r \in Requests \ behind'[j] : ask[r].clause # j
    BY <1>1 DEF HoldInv, Touched
  <2>1. CASE j = k /\ status[k] # "held"
    <3>1. behind'[j] = AtWork
      BY <1>1, <2>1 DEF Behind, TypeOK
    <3> QED
      BY <3>1, AtRest, ClauseMemoryConstants DEF Clauses
  <2>2. CASE status[j] = "held"
    <3>1. behind'[j] = behind[j]
      BY <1>1, <2>2 DEF Behind, TypeOK
    <3> QED
      BY <3>1, <2>2 DEF HoldInv
  <2> QED
    BY <1>2, <2>1, <2>2
<1> QED
  BY <1>3, <1>4, <1>5, <1>6

\* A request that has only read the clause.
LEMMA AskedInv ==
  ASSUME IInv, NEW r \in Requests, NEW k \in Clauses, NEW pc \in {"note", "set"},
         NEW was \in Statuses, NEW to \in Live \cup {"challenged", "held", "orphaned"},
         Asked(r, k, pc, was, to), status[k] # "none", status[k] # "held",
         to = "active" => Enough(prov[k]) \/ k \in torn,
         pc = "note" => was \in Live, pc = "set" => to # "challenged"
  PROVE  IInv'
<1> USE DEF IInv
<1>1. /\ ask' \in [Requests -> AskStates] /\ acts' \in 0..MaxActs
      /\ ask'[r] = [pc |-> pc, clause |-> k, was |-> was, to |-> to]
      /\ \A q \in Requests \ {r} : ask'[q] = ask[q]
      /\ UNCHANGED <<recorded, stored, pass, faults, behind, torn>>
  BY ClauseMemoryConstants DEF Asked, TypeOK, AskStates, Statuses
<1>2. TypeOK'
  BY <1>1 DEF TypeOK, stored
<1>3. StoreInv' /\ ConsumedIsCited' /\ ActiveIsEarned'
  BY <1>1 DEF StoreInv, ConsumedIsCited, ActiveIsEarned, stored
<1>4. PassInv'
  BY <1>1 DEF PassInv, PassOK, Written, stored
<1>5. AskInv'
  BY <1>1 DEF AskInv, Written, stored
<1>6. HoldInv'
  BY <1>1 DEF HoldInv, Touched, stored
<1> QED
  BY <1>2, <1>3, <1>4, <1>5, <1>6

LEMMA AskInvs ==
  ASSUME IInv, NEW r \in Requests, NEW k \in Clauses,
         Challenge(r, k) \/ Resolve(r, k) \/ Reinstate(r, k) \/ Reconcile(r, k)
  PROVE  IInv'
<1>0. status[k] \in Statuses /\ before[k] \in Statuses
  BY DEF IInv, TypeOK
<1>1. CASE Challenge(r, k)
  BY <1>0, <1>1, AskedInv DEF Challenge, Live
<1>2. CASE Resolve(r, k)
  <2>1. before[k] \in Live
    BY <1>2 DEF Resolve, IInv, StoreInv
  <2>2. PICK to \in {"held", IF before[k] \in Serving THEN Tier(prov[k]) ELSE before[k]} :
          Asked(r, k, "note", before[k], to)
    BY <1>2 DEF Resolve
  <2>3. /\ to \in Live \cup {"held"}
        /\ to = "active" => Enough(prov[k])
        /\ status[k] = "challenged"
    BY <1>2, <2>1, <2>2, TierFacts DEF Live, Serving, Resolve
  <2> QED
    BY <1>0, <2>1, <2>2, <2>3, AskedInv
<1>3. CASE Reinstate(r, k)
  BY <1>0, <1>3, TierFacts, AskedInv DEF Reinstate, Live
<1>4. CASE Reconcile(r, k)
  BY <1>0, <1>4, AskedInv DEF Reconcile, Live
<1> QED
  BY <1>1, <1>2, <1>3, <1>4

\* The challenge block is noted: what it keeps was a live status.
LEMMA NoteInv == ASSUME IInv, NEW r \in Requests, Note(r) PROVE IInv'
<1> USE DEF IInv
<1>1. /\ ask[r] \in AskStates /\ ask[r].pc = "note" /\ Written(ask[r].clause)
      /\ ask[r].was \in Live
  BY DEF Note, AskInv, TypeOK
<1>2. PICK k \in Clauses : k = ask[r].clause
  BY <1>1 DEF Written
<1>3. /\ ask' \in [Requests -> AskStates] /\ ask'[r] = [ask[r] EXCEPT !.pc = "set"]
      /\ \A q \in Requests \ {r} : ask'[q] = ask[q]
      /\ before' = [before EXCEPT ![k] = ask[r].was]
      /\ UNCHANGED <<recorded, consumedBy, status, prov, excused, pass, faults, acts, behind,
                     torn>>
  BY <1>1, <1>2 DEF Note, TypeOK, AskStates
<1>4. TypeOK'
  BY <1>1, <1>3 DEF TypeOK, AskStates
<1>5. \A j \in Clauses : /\ before[j] \in Live => before'[j] \in Live
                         /\ before'[k] \in Live
                         /\ before'[j] \in Live \cup {"none"}
  BY <1>1, <1>3 DEF TypeOK, StoreInv
<1>6. StoreInv' /\ ConsumedIsCited' /\ ActiveIsEarned'
  BY <1>3, <1>5 DEF StoreInv, ConsumedIsCited, ActiveIsEarned
<1>7. PassInv'
  BY <1>3 DEF PassInv, PassOK, Written
<1>8. AskInv'
  <2>1. /\ ask'[r].pc = "set" /\ ask'[r].clause = k /\ ask'[r].to = ask[r].to
    BY <1>1, <1>2, <1>3 DEF AskStates
  <2>2. /\ ask[r].to \in Live \cup {"challenged", "held", "orphaned"}
        /\ ask[r].to = "active" => Enough(prov[k]) \/ k \in torn
    BY <1>1, <1>2 DEF AskInv
  <2>3. \A q \in Requests \ {r} :
          ask[q].pc = "set" /\ ask[q].to = "challenged" => before'[ask[q].clause] \in Live
    BY <1>5 DEF AskInv, Written
  <2>4. /\ before'[k] \in Live
        /\ \A j : Written(j)' <=> Written(j)
    BY <1>3, <1>5 DEF Written
  <2>5. \A q \in Requests \ {r} :
          /\ ask'[q].pc = "idle" => ask'[q] = RestingAsk
          /\ ask'[q].pc # "idle" =>
               /\ Written(ask'[q].clause)
               /\ ask'[q].to \in Live \cup {"challenged", "held", "orphaned"}
               /\ ask'[q].to = "active" =>
                    Enough(prov[ask'[q].clause]) \/ ask'[q].clause \in torn
          /\ ask'[q].pc = "note" => ask'[q].was \in Live
    BY <1>3 DEF AskInv
  <2>6. Written(k)
    BY <1>1, <1>2
  <2>7. ASSUME NEW q \in Requests
        PROVE  /\ ask'[q].pc = "idle" => ask'[q] = RestingAsk
               /\ ask'[q].pc # "idle" =>
                    /\ Written(ask'[q].clause)
                    /\ ask'[q].to \in Live \cup {"challenged", "held", "orphaned"}
                    /\ ask'[q].to = "active" =>
                         Enough(prov[ask'[q].clause]) \/ ask'[q].clause \in torn
               /\ ask'[q].pc = "note" => ask'[q].was \in Live
               /\ ask'[q].pc = "set" /\ ask'[q].to = "challenged" =>
                    before'[ask'[q].clause] \in Live
    <3>1. CASE q = r
      BY ONLY <2>1, <2>2, <2>4, <2>6, <3>1
    <3>2. CASE q # r
      <4>1. q \in Requests \ {r} /\ ask'[q] = ask[q]
        BY <1>3, <3>2
      <4> QED
        BY ONLY <2>3, <2>5, <4>1
    <3> QED
      BY <3>1, <3>2
  <2>8. prov' = prov /\ torn' = torn /\ \A j : Written(j)' <=> Written(j)
    BY <1>3, <2>4
  <2> QED
    BY ONLY <2>7, <2>8 DEF AskInv, Written, Enough
<1>9. HoldInv'
  BY <1>1, <1>3 DEF HoldInv, Touched, AskStates
<1> QED
  BY <1>4, <1>6, <1>7, <1>8, <1>9

\* set_status: what comes into service is earned.
LEMMA SetStatusInv == ASSUME IInv, NEW r \in Requests, SetStatus(r) PROVE IInv'
<1> USE DEF IInv
<1>1. /\ ask[r] \in AskStates /\ ask[r].pc = "set" /\ Written(ask[r].clause)
      /\ ask[r].to \in Live \cup {"challenged", "held", "orphaned"}
      /\ ask[r].to = "active" => Enough(prov[ask[r].clause]) \/ ask[r].clause \in torn
      /\ ask[r].to = "challenged" => before[ask[r].clause] \in Live
  BY DEF SetStatus, AskInv, TypeOK
<1>2. PICK k \in Clauses : k = ask[r].clause
  BY <1>1 DEF Written
<1>3. PICK to : to = ask[r].to
  OBVIOUS
<1>4. /\ status' = [status EXCEPT ![k] = to]
      /\ excused' \in {excused, excused \cup {k}}
      /\ behind' = [j \in Clauses |-> Behind(k, to, AtWork)[j] \ {r}]
      /\ ask' \in [Requests -> AskStates] /\ ask'[r] = RestingAsk
      /\ \A q \in Requests \ {r} : ask'[q] = ask[q]
      /\ UNCHANGED <<recorded, consumedBy, prov, before, pass, faults, acts, torn>>
  BY <1>2, <1>3 DEF SetStatus, TypeOK, AskStates, RestingAsk, Statuses
<1>5. \A j \in Clauses : /\ status'[j] = "none" <=> status[j] = "none"
                         /\ j # k => status'[j] = status[j]
                         /\ status'[k] = to
  BY <1>1, <1>2, <1>3, <1>4 DEF TypeOK, Written, Live
<1>6. TypeOK'
  <2>1. behind' \in [Clauses -> SUBSET (Passes \cup Requests)]
    BY <1>4, BehindType
  <2>2. status' \in [Clauses -> Statuses]
    BY <1>1, <1>3, <1>4 DEF TypeOK, Statuses
  <2>3. excused' \subseteq Clauses
    BY <1>4 DEF TypeOK
  <2> QED
    BY <1>4, <2>1, <2>2, <2>3 DEF TypeOK
<1>7. StoreInv'
  BY <1>1, <1>2, <1>3, <1>4, <1>5 DEF StoreInv
<1>8. ConsumedIsCited' /\ ActiveIsEarned'
  BY <1>1, <1>2, <1>3, <1>4, <1>5 DEF ConsumedIsCited, ActiveIsEarned
<1>9. PassInv'
  <2> SUFFICES ASSUME NEW p \in Passes PROVE PassOK(pass[p])'
    BY DEF PassInv
  <2>1. PassOK(pass[p])
    BY DEF PassInv
  <2>2. \A j : Written(j) => Written(j)'
    BY <1>5 DEF Written
  <2> QED
    BY <1>4, <2>1, <2>2 DEF PassOK
<1>10. AskInv'
  BY <1>4, <1>5 DEF AskInv, Written, RestingAsk
<1>11. HoldInv'
  <2> SUFFICES ASSUME NEW j \in Clauses, status'[j] = "held"
               PROVE  /\ \A p \in Passes \ behind'[j] : j \notin Touched(pass[p])
                      /\ \A q \in Requests \ behind'[j] : ask'[q].clause # j
    BY <1>4 DEF HoldInv, Touched
  <2>0. ask'[r].clause # j /\ j # 0
    BY <1>4, ClauseMemoryConstants DEF RestingAsk, Clauses
  <2>1. CASE j = k /\ status[k] # "held"
    <3>1. behind'[j] = AtWork \ {r}
      BY <1>4, <1>5, <2>1 DEF Behind, TypeOK
    <3> QED
      BY <1>4, <2>0, <3>1, AtRest, ClauseMemoryConstants
  <2>2. CASE status[j] = "held"
    <3>1. behind'[j] = behind[j] \ {r}
      BY <1>4, <2>2 DEF Behind, TypeOK
    <3> QED
      BY <1>4, <2>0, <2>2, <3>1, ClauseMemoryConstants DEF HoldInv
  <2> QED
    BY <1>5, <2>1, <2>2
<1> QED
  BY <1>6, <1>7, <1>8, <1>9, <1>10, <1>11

LEMMA DropInv == ASSUME IInv, NEW r \in Requests, Drop(r) PROVE IInv'
<1> USE DEF IInv
<1>1. /\ ask' \in [Requests -> AskStates] /\ ask'[r] = RestingAsk
      /\ \A q \in Requests \ {r} : ask'[q] = ask[q]
      /\ behind' = [k \in Clauses |-> behind[k] \ {r}]
      /\ UNCHANGED <<recorded, stored, pass, faults, acts, torn>>
  BY DEF Drop, TypeOK, AskStates, RestingAsk, Statuses
<1>2. TypeOK'
  BY <1>1 DEF TypeOK, stored
<1>3. StoreInv' /\ ConsumedIsCited' /\ ActiveIsEarned'
  BY <1>1 DEF StoreInv, ConsumedIsCited, ActiveIsEarned, stored
<1>4. PassInv'
  BY <1>1 DEF PassInv, PassOK, Written, stored
<1>5. AskInv'
  BY <1>1 DEF AskInv, Written, RestingAsk, stored
<1>6. HoldInv'
  <2> SUFFICES ASSUME NEW k \in Clauses, status[k] = "held"
               PROVE  /\ \A p \in Passes \ behind'[k] : k \notin Touched(pass[p])
                      /\ \A q \in Requests \ behind'[k] : ask'[q].clause # k
    BY <1>1 DEF HoldInv, Touched, stored
  <2>1. ask'[r].clause # k
    BY <1>1, ClauseMemoryConstants DEF RestingAsk, Clauses
  <2> QED
    BY <1>1, <2>1, ClauseMemoryConstants DEF HoldInv
<1> QED
  BY <1>2, <1>3, <1>4, <1>5, <1>6

-----------------------------------------------------------------------------
(* The invariant.                                                          *)

LEMMA InitInv == Init => IInv
<1> SUFFICES ASSUME Init PROVE IInv
  OBVIOUS
<1>1. RestingPass \in PassStates /\ RestingAsk \in AskStates
  BY DEF RestingPass, RestingAsk, PassStates, AskStates, NoClause, Statuses
<1>2. TypeOK
  BY <1>1, ClauseMemoryConstants DEF Init, TypeOK, Statuses
<1>3. PassInv /\ AskInv
  BY DEF Init, PassInv, PassOK, AskInv, RestingPass, RestingAsk
<1>4. HoldInv
  BY DEF Init, HoldInv
<1> QED
  BY <1>2, <1>3, <1>4 DEF Init, IInv, StoreInv, ConsumedIsCited, ActiveIsEarned, Live

LEMMA StutterInv == ASSUME IInv, UNCHANGED vars PROVE IInv'
<1> USE DEF IInv, vars, stored
<1>1. TypeOK' /\ StoreInv' /\ AskInv' /\ ConsumedIsCited' /\ ActiveIsEarned'
  BY DEF TypeOK, StoreInv, AskInv, Written, ConsumedIsCited, ActiveIsEarned
<1>2. PassInv'
  BY DEF PassInv, PassOK, Written
<1>3. HoldInv'
  BY DEF Touched, HoldInv
<1> QED
  BY <1>1, <1>2, <1>3

LEMMA NextInv == ASSUME IInv, Next PROVE IInv'
<1>1. CASE Record \/ \E k \in Clauses : Judge(k)
  BY <1>1, LedgerInv
<1>2. ASSUME NEW k \in Clauses, Hold(k) PROVE IInv'
  BY <1>2, HoldKept
<1>3. ASSUME NEW p \in Passes, Consolidate(p) PROVE IInv'
  <2>1. CASE Finish(p)
    <3>1. faults' \in 0..MaxFaults
      BY <2>1 DEF Finish, IInv, TypeOK
    <3> QED
      BY <2>1, <3>1, PassOutInv DEF Finish
  <2> QED
    BY <1>3, <2>1, ReadPendingInv, ReadClausesInv, MatchInv, PassOverInv, UndertakeInv,
       FoldReadInv, FoldWriteInv, AuthorFailsInv, AuthorInv, InsertInv, ConsumeInv,
       MeasureInv, RateInv, ParkInv, RefreshInv, DissentInv, AbsorbInv DEF Consolidate
<1>4. ASSUME NEW p \in Passes, Abort(p) PROVE IInv'
  <2>1. faults' \in 0..MaxFaults
    BY <1>4, ClauseMemoryConstants DEF Abort, IInv, TypeOK
  <2> QED
    BY <1>4, <2>1, PassOutInv DEF Abort
<1>5. ASSUME NEW r \in Requests, Request(r) PROVE IInv'
  BY <1>5, AskInvs, NoteInv, SetStatusInv, DropInv DEF Request
<1> QED
  BY <1>1, <1>2, <1>3, <1>4, <1>5 DEF Next

\* The inductive invariant holds of every behaviour, with any passes at once.
THEOREM Invariant == Spec => []IInv
<1>1. IInv /\ [Next]_vars => IInv'
  BY NextInv, StutterInv
<1> QED
  BY <1>1, InitInv, PTL DEF Spec

\* No lesson is lost between the ledger and the clauses, wherever passes die, but for
\* those of a clause that one pass wrote over another.
THEOREM Cited == Spec => []ConsumedIsCited
BY Invariant, PTL DEF IInv

\* A team's judgement has the officers the gate asks for, under the same exception.
THEOREM Earned == Spec => []ActiveIsEarned
BY Invariant, PTL DEF IInv

\* What people put on hold is undone only by those already at work then.
THEOREM Holding == Spec => HoldsStand
<1>1. ASSUME IInv, [Next]_vars, NEW k \in Clauses, status[k] = "held",
             ~ (status'[k] = "held" /\ prov'[k] = prov[k])
      PROVE  \E a \in behind[k] : Moves(a)
  <2> USE <1>1 DEF IInv
  <2>1. ASSUME NEW p \in Passes, k \in Touched(pass[p]), pass'[p] # pass[p]
        PROVE  \E a \in behind[k] : Moves(a)
    BY <2>1 DEF HoldInv, Moves
  <2>2. ASSUME NEW p \in Passes, Consolidate(p) \/ Abort(p)
        PROVE  \E a \in behind[k] : Moves(a)
    <3>0. pass \in [Passes -> PassStates] /\ pass[p] \in PassStates /\ PassOK(pass[p])
      BY DEF TypeOK, PassInv
    <3>1. CASE FoldWrite(p)
      <4>1. pass[p].clause = k
        BY <3>1 DEF FoldWrite, TypeOK
      <4> QED
        BY <2>1, <3>0, <3>1, <4>1 DEF FoldWrite, PassOK, Touched, PassStates
    <3>2. CASE Insert(p)
      BY <3>0, <3>2 DEF Insert, PassOK, TypeOK
    <3>3. CASE Park(p)
      <4>1. pass[p].clause = k
        BY <3>3 DEF Park, TypeOK
      <4> QED
        BY <2>1, <3>0, <3>3, <4>1 DEF Park, Touched, PassStates
    <3>4. CASE Dissent(p)
      <4>1. k \in pass[p].marks /\ k \notin pass'[p].marks
        BY <3>0, <3>4 DEF Dissent, TypeOK, PassStates
      <4> QED
        BY <2>1, <3>4, <4>1 DEF Dissent, Touched
    <3>5. CASE Absorb(p)
      <4>1. k \in pass[p].seen /\ k \notin pass'[p].seen
        BY <3>0, <3>5 DEF Absorb, TypeOK, PassStates
      <4> QED
        BY <2>1, <4>1 DEF Touched
    <3> QED
      BY <2>2, <3>1, <3>2, <3>3, <3>4, <3>5
         DEF Consolidate, Abort, PassOut, Unmoved, stored, ReadPending, ReadClauses, Match,
             PassOver, Undertake, FoldRead, AuthorFails, Author, Consume, Measure, Rate,
             Refresh, Finish
  <2>3. ASSUME NEW r \in Requests, Request(r)
        PROVE  \E a \in behind[k] : Moves(a)
    <3>1. CASE SetStatus(r)
      <4>1. ask[r].clause = k
        BY <3>1 DEF SetStatus, TypeOK
      <4>2. ask'[r].pc = "idle" /\ ask[r].pc = "set"
        BY <3>1 DEF SetStatus, TypeOK, RestingAsk
      <4> QED
        BY <4>1, <4>2, ClauseMemoryConstants DEF HoldInv, Moves
    <3> QED
      BY <2>3, <3>1 DEF Request, Challenge, Resolve, Reinstate, Reconcile, Asked, Note, Drop,
                        stored
  <2>4. ASSUME NEW j \in Clauses, Hold(j) PROVE FALSE
    BY <2>4 DEF Hold, TypeOK
  <2>5. CASE Record \/ (\E j \in Clauses : Judge(j)) \/ UNCHANGED vars
    BY <2>5 DEF Record, Judge, vars, stored
  <2> QED
    BY <2>2, <2>3, <2>4, <2>5 DEF Next
<1>2. IInv /\ [Next]_vars =>
        (\A k \in Clauses : status[k] = "held" =>
           \/ status'[k] = "held" /\ prov'[k] = prov[k]
           \/ \E a \in behind[k] : Moves(a))
  BY <1>1
<1> QED
  BY <1>2, Invariant, PTL DEF Spec, HoldsStand
=============================================================================
