--------------------------- MODULE SpecVersionsProofs ---------------------------
(***************************************************************************)
(* Proofs about SpecVersions, for any requests, triggers, length of history *)
(* and number of faults, and whichever stores requests may overlap on.      *)
(***************************************************************************)
EXTENDS SpecVersions, FiniteSetTheorems, TLAPS

-----------------------------------------------------------------------------
(* What a step does to the requests.                                       *)

\* f is q but for its pc and its freshness, which it may lose.
Follows(f, q) ==
  /\ f.op = q.op /\ f.store = q.store /\ f.base = q.base /\ f.read = q.read
  /\ f.text = q.text /\ f.mind = q.mind /\ f.armed = q.armed
  /\ f.asked = q.asked /\ f.old = q.old /\ f.target = q.target
  /\ f.fresh => q.fresh

\* Going on and losing freshness keep a request's type, and the rest of it.
Later == {"idle", "copy", "agent", "app"}

LEMMA GoesOn ==
  ASSUME NEW q \in ReqStates, NEW pc \in Later
  PROVE  LET f == [q EXCEPT !.pc = pc]
         IN  f \in ReqStates /\ f.pc = pc /\ Follows(f, q) /\ f.fresh = q.fresh
BY DEF ReqStates, Follows, Later

LEMMA GoesStale ==
  ASSUME NEW q \in ReqStates
  PROVE  LET f == [q EXCEPT !.fresh = FALSE]
         IN  f \in ReqStates /\ f.pc = q.pc /\ Follows(f, q) /\ f.fresh = FALSE
BY DEF ReqStates, Follows

LEMMA IdleType == Idle \in ReqStates /\ Idle.pc = "idle" /\ Idle.op = "none"
BY SpecVersionsConstants DEF Idle, ReqStates, Stores, Texts

\* A request that is set to f leaves the others as they are.
LEMMA OneMoves ==
  ASSUME TypeOK, NEW r \in Requests, NEW f \in ReqStates, req' = [req EXCEPT ![r] = f]
  PROVE  /\ req' \in [Requests -> ReqStates] /\ req'[r] = f
         /\ \A q \in Requests \ {r} : req'[q] = req[q]
BY DEF TypeOK

\* A writer goes on to pc, the others lose at most their freshness.
LEMMA OntoMoves ==
  ASSUME TypeOK, NEW r \in Requests, NEW pc \in {"idle", "agent", "app"}, Onto(r, pc)
  PROVE  /\ req' \in [Requests -> ReqStates]
         /\ pc = "idle" => req'[r] = Idle
         /\ pc # "idle" => /\ req'[r].pc = pc /\ Follows(req'[r], req[r])
                           /\ req'[r].fresh = req[r].fresh
         /\ \A q \in Requests \ {r} :
               /\ req'[q].pc = req[q].pc /\ Follows(req'[q], req[q])
               /\ req[r].store = "test" => ~ req'[q].fresh
               /\ req[r].store # "test" => req'[q] = req[q]
<1>1. req[r] \in ReqStates /\ \A q \in Requests : req[q] \in ReqStates
  BY DEF TypeOK
<1>2. \A q \in Requests :
         req'[q] = CASE q = r -> IF pc = "idle" THEN Idle ELSE [req[r] EXCEPT !.pc = pc]
                     [] q # r /\ req[r].store = "test" -> [req[q] EXCEPT !.fresh = FALSE]
                     [] OTHER -> req[q]
  BY DEF Onto
<1>3. req'[r] = IF pc = "idle" THEN Idle ELSE [req[r] EXCEPT !.pc = pc]
  BY <1>2
<1>4. ASSUME NEW q \in Requests \ {r}
      PROVE  req'[q] = IF req[r].store = "test" THEN [req[q] EXCEPT !.fresh = FALSE]
                       ELSE req[q]
  BY <1>2
<1>5. /\ req'[r] \in ReqStates
      /\ pc = "idle" => req'[r] = Idle
      /\ pc # "idle" => /\ req'[r].pc = pc /\ Follows(req'[r], req[r])
                        /\ req'[r].fresh = req[r].fresh
  <2>1. CASE pc = "idle"
    BY <1>3, <2>1, IdleType
  <2>2. CASE pc # "idle"
    <3>1. req'[r] = [req[r] EXCEPT !.pc = pc]
      BY <1>3, <2>2
    <3>2. LET f == [req[r] EXCEPT !.pc = pc]
          IN  f \in ReqStates /\ f.pc = pc /\ Follows(f, req[r]) /\ f.fresh = req[r].fresh
      <4>1. pc \in Later
        BY DEF Later
      <4> QED
        BY <1>1, <4>1, GoesOn
    <3> QED
      BY <2>2, <3>1, <3>2
  <2> QED
    BY <2>1, <2>2
<1>6. ASSUME NEW q \in Requests \ {r}
      PROVE  /\ req'[q] \in ReqStates
             /\ req'[q].pc = req[q].pc /\ Follows(req'[q], req[q])
             /\ req[r].store = "test" => ~ req'[q].fresh
             /\ req[r].store # "test" => req'[q] = req[q]
  <2>1. CASE req[r].store = "test"
    BY <1>1, <1>4, <2>1, GoesStale
  <2>2. CASE req[r].store # "test"
    BY <1>1, <1>4, <2>2 DEF Follows
  <2> QED
    BY <2>1, <2>2
<1>7. req' \in [Requests -> ReqStates]
  <2>1. \A q \in Requests : req'[q] \in ReqStates
    BY <1>5, <1>6
  <2> QED
    BY <2>1 DEF Onto
<1> QED
  BY <1>5, <1>6, <1>7

-----------------------------------------------------------------------------
(* The invariant, request by request and store by store.                   *)

Request(q) ==
  /\ q.pc # "idle" => Kind(q) /\ HasText(q) /\ Restores(q) /\ Ships(q)
  /\ q.pc # "idle" /\ q.store \notin crowded => Current(q)
  /\ Filed(q) /\ q.store \notin crowded => revs[q.store][q.base] # Nothing
  /\ InGap(q) /\ "prod" \notin crowded => agent["prod"] = q.mind

AloneIn(s) == s \notin crowded =>
  \A q, r \in Requests :
     Busy(q) /\ Busy(r) /\ req[q].store = s /\ req[r].store = s => q = r

HeldIn(s) ==
  /\ Exists(s) => spec[s] # 0
  /\ \A v \in Versions : revs[s][v] # Nothing => revs[s][v].spec # 0

AheadIn(s) == s \notin crowded =>
  \A v \in Versions :
    /\ v > version[s] => revs[s][v] = Nothing /\ released[s][v] = Nothing
    /\ \A r \in Requests :
          req[r].pc = "agent" /\ req[r].op # "promote" /\ req[r].store = s /\ v = version[s]
             => revs[s][v] = Nothing /\ released[s][v] = Nothing

RevIn(s) == Orderly(s) => \A v \in Versions :
  revs[s][v] # Nothing /\ released[s][v] # Nothing => revs[s][v] = released[s][v]

LiveIn(s) == Orderly(s) /\ Exists(s) =>
  \/ released[s][version[s]] \in {Nothing, Live(s)}
  \/ s = "prod" /\ \E r \in Requests : InGap(req[r])

SafeIn(s) == Orderly(s) =>
  \A v \in Versions : released[s][v] # Nothing /\ Due(s, v) =>
     \/ revs[s][v] = released[s][v]
     \/ v = version[s] /\ Live(s) = released[s][v]

Store(s) == AloneIn(s) /\ HeldIn(s) /\ AheadIn(s) /\ RevIn(s) /\ LiveIn(s) /\ SafeIn(s)

EachRequest == \A r \in Requests : Request(req[r])
EachStore == \A s \in Stores : Store(s)

LEMMA Parts == IInv <=> TypeOK /\ EachRequest /\ EachStore
<1>1. (\A r \in Requests : Request(req[r])) <=>
         /\ CurrentInv /\ KindInv /\ (\A r \in Requests : Busy(r) => HasText(req[r]))
         /\ FiledInv /\ RestoreInv /\ FreshInv
  BY DEF Request, CurrentInv, KindInv, FiledInv, RestoreInv, FreshInv, Busy, InGap
<1>2. (\A s \in Stores : AloneIn(s)) <=> AloneInv
  BY DEF AloneIn, AloneInv
<1>3. (\A s \in Stores : HeldIn(s)) <=>
         /\ \A s \in Stores : Exists(s) => spec[s] # 0
         /\ \A s \in Stores, v \in Versions : revs[s][v] # Nothing => revs[s][v].spec # 0
  BY DEF HeldIn
<1>4. (\A s \in Stores : AheadIn(s)) <=> AheadInv
  BY DEF AheadIn, AheadInv
<1>5. (\A s \in Stores : RevIn(s)) <=> RevInv
  BY DEF RevIn, RevInv
<1>6. (\A s \in Stores : LiveIn(s)) <=> LiveInv
  BY DEF LiveIn, LiveInv
<1>7. (\A s \in Stores : SafeIn(s)) <=> NoReleaseLost
  BY DEF SafeIn, NoReleaseLost
<1> QED
  BY <1>1, <1>2, <1>3, <1>4, <1>5, <1>6, <1>7 DEF IInv, TextInv, Store, EachRequest, EachStore

LEMMA PartsNext ==
  ASSUME TypeOK', EachRequest', EachStore'
  PROVE  IInv'
BY Parts, PTL

-----------------------------------------------------------------------------
(* Steps that write nothing.                                               *)

LEMMA MovesOnly ==
  ASSUME IInv, NEW r \in Requests, NEW f \in ReqStates,
         req' = [req EXCEPT ![r] = f], UNCHANGED <<docs, released>>,
         texts' \in Texts, faults' \in 0..MaxFaults,
         crowded \subseteq crowded', crowded' \subseteq Stores,
         torn \subseteq torn', torn' \subseteq Stores,
         Request(f),
         InGap(req[r]) => InGap(f) \/ "prod" \in torn',
         f.pc = "agent" => f.op = "promote",
         f.pc # "idle" /\ f.store \notin crowded' =>
            \A q \in Requests \ {r} : Busy(q) => req[q].store # f.store
  PROVE  IInv'
<1>1. TypeOK /\ EachRequest /\ EachStore
  BY Parts
<1>2. /\ req' \in [Requests -> ReqStates] /\ req'[r] = f
      /\ \A q \in Requests \ {r} : req'[q] = req[q]
  BY <1>1, OneMoves
<1>3. TypeOK'
  BY <1>1, <1>2 DEF TypeOK, docs
<1>4. EachRequest'
  <2> SUFFICES ASSUME NEW q \in Requests PROVE Request(req[q])'
    BY DEF EachRequest
  <2>1. Request(req'[q])
    BY <1>1, <1>2 DEF EachRequest
  <2> QED
    BY <2>1 DEF Request, Kind, HasText, Current, Filed, Restores, Orderly, Ships, InGap, docs
<1>5. EachStore'
  <2> SUFFICES ASSUME NEW s \in Stores PROVE Store(s)'
    BY DEF EachStore
  <2>1. Store(s)
    BY <1>1 DEF EachStore
  <2>2. AloneIn(s)'
    BY <1>2, <2>1 DEF Store, AloneIn, Busy
  <2>3. HeldIn(s)' /\ RevIn(s)' /\ SafeIn(s)'
    BY <2>1 DEF Store, HeldIn, Exists, RevIn, SafeIn, Orderly, Due, Kept, Live, docs
  <2>4. AheadIn(s)'
    BY <1>2, <2>1 DEF Store, AheadIn, docs
  <2>5. LiveIn(s)'
    BY <1>2, <2>1 DEF Store, LiveIn, Exists, Orderly, Live, docs, InGap
  <2> QED
    BY <2>2, <2>3, <2>4, <2>5 DEF Store
<1> QED
  BY <1>3, <1>4, <1>5, PartsNext

LEMMA BeginInv ==
  ASSUME IInv, NEW r \in Requests, NEW s \in Stores, NEW f \in ReqStates, Begin(r, s, f),
         texts' \in Texts, f.store = s, Request(f), f.pc # "agent"
  PROVE  IInv'
<1>1. TypeOK /\ ~ InGap(req[r])
  BY Parts DEF Begin, Busy, InGap
<1>2. crowded \subseteq crowded' /\ crowded' \subseteq Stores /\ torn' = torn
  BY <1>1 DEF Begin, TypeOK
<1>3. s \notin crowded' => \A q \in Requests \ {r} : Busy(q) => req[q].store # s
  BY DEF Begin, Taken
<1> QED
  BY <1>1, <1>2, <1>3, MovesOnly DEF Begin, TypeOK

\* A request that has read the app document of store s.
LEMMA ReadFacts ==
  ASSUME TypeOK, NEW s \in Stores,
         NEW op \in {"publish", "edit", "confirm", "rollback", "switch"},
         NEW pc \in {"find", "snap", "app"}
  PROVE  Read(op, pc, s) \in ReqStates
<1>1. version[s] \in 0..MaxVersion /\ spec[s] \in Texts /\ 0 \in 0..MaxVersion /\ 0 \in Texts
  BY SpecVersionsConstants DEF TypeOK, Texts
<1> QED
  BY <1>1 DEF Read, Idle, ReqStates

\* What a rollback adds to it.
LEMMA RollbackFields ==
  ASSUME NEW x \in ReqStates, NEW v \in 0..MaxVersion
  PROVE  LET f == [x EXCEPT !.target = v]
         IN  /\ f \in ReqStates /\ f.op = x.op /\ f.pc = x.pc /\ f.store = x.store
             /\ f.base = x.base /\ f.read = x.read /\ f.armed = x.armed
             /\ f.fresh = x.fresh /\ f.target = v
BY DEF ReqStates

LEMMA PublishInv ==
  ASSUME IInv, NEW r \in Requests, Publish(r)
  PROVE  IInv'
<1>1. TypeOK /\ EachStore
  BY Parts
<1>2. texts' = texts + 1 /\ texts + 1 \in Texts \ {0} /\ "test" \in Stores
  BY <1>1, SpecVersionsConstants DEF TypeOK, Texts, Stores, Room, Publish
<1> PICK pc \in {"snap", "app"} :
       /\ Exists("test") <=> pc = "snap"
       /\ Begin(r, "test", [Read("publish", pc, "test")
                              EXCEPT !.text = texts + 1, !.mind = texts + 1])
  BY DEF Publish
<1> DEFINE f == [Read("publish", pc, "test") EXCEPT !.text = texts + 1, !.mind = texts + 1]
<1>3. /\ f \in ReqStates /\ f.op = "publish" /\ f.pc = pc /\ f.store = "test"
      /\ f.base = version["test"] /\ f.read = spec["test"] /\ f.text = texts + 1
      /\ f.armed = {} /\ f.fresh = FALSE
  <2>1. Read("publish", pc, "test") \in ReqStates
    <3>1. version["test"] \in 0..MaxVersion /\ spec["test"] \in Texts
      BY <1>1, <1>2 DEF TypeOK
    <3>2. "test" \in Stores /\ 0 \in 0..MaxVersion /\ 0 \in Texts
      BY <1>2, SpecVersionsConstants DEF Texts
    <3> QED
      BY <3>1, <3>2 DEF Read, Idle, ReqStates
  <2>2. f \in ReqStates
    BY <1>2, <2>1 DEF ReqStates
  <2> QED
    BY <2>2 DEF Read, Idle
<1>4. Request(f)
  BY <1>1, <1>2, <1>3 DEF Publish, Room, Request, Kind, HasText, Current, Filed, Restores, Ships,
     InGap, Exists, TypeOK, EachStore, Store, HeldIn
<1> QED
  BY <1>2, <1>3, <1>4, BeginInv

LEMMA EditInv ==
  ASSUME IInv, NEW r \in Requests, NEW s \in Stores, Edit(r, s)
  PROVE  IInv'
<1> PICK mind \in {0, texts + 1}, on \in SUBSET Triggers :
       Begin(r, s, [Read("edit", "snap", s) EXCEPT
                      !.text = texts + 1, !.mind = mind, !.armed = on, !.asked = on])
  BY DEF Edit
<1> DEFINE f == [Read("edit", "snap", s) EXCEPT
                   !.text = texts + 1, !.mind = mind, !.armed = on, !.asked = on]
<1>1. TypeOK /\ EachStore
  BY Parts
<1>2. texts' = texts + 1 /\ texts + 1 \in Texts \ {0} /\ mind \in Texts
  BY <1>1, SpecVersionsConstants DEF TypeOK, Texts, Edit
<1>3. /\ f \in ReqStates /\ f.op = "edit" /\ f.pc = "snap" /\ f.store = s
      /\ f.base = version[s] /\ f.read = spec[s] /\ f.text = texts + 1
      /\ f.armed = on /\ f.asked = on /\ f.fresh = FALSE
  <2>1. Read("edit", "snap", s) \in ReqStates
    BY <1>1, ReadFacts
  <2>2. f \in ReqStates
    BY <1>2, <2>1 DEF ReqStates
  <2> QED
    BY <2>2 DEF Read, Idle
<1>4. Request(f)
  BY <1>1, <1>2, <1>3 DEF Edit, Writable, Room, Request, Kind, HasText, Current, Filed, Restores,
     Ships, InGap, Exists, TypeOK, EachStore, Store, HeldIn, Orderly
<1> QED
  BY <1>2, <1>3, <1>4, BeginInv

LEMMA ConfirmInv ==
  ASSUME IInv, NEW r \in Requests, NEW s \in Stores, Confirm(r, s)
  PROVE  IInv'
<1> DEFINE f == Read("confirm", "snap", s)
<1>1. TypeOK /\ EachStore
  BY Parts
<1>2. /\ f \in ReqStates /\ f.op = "confirm" /\ f.pc = "snap" /\ f.store = s
      /\ f.base = version[s] /\ f.read = spec[s] /\ f.armed = {} /\ f.fresh = FALSE
  <2> PICK x \in ReqStates : x = Read("confirm", "snap", s)
    BY <1>1, ReadFacts
  <2>1. /\ x.op = "confirm" /\ x.pc = "snap" /\ x.store = s /\ x.base = version[s]
        /\ x.read = spec[s] /\ x.armed = {} /\ x.fresh = FALSE
    BY DEF Read, Idle
  <2> QED
    BY <2>1
<1>3. version[s] \in 1..(MaxVersion - 1) /\ spec[s] # 0
  BY <1>1, SpecVersionsConstants
     DEF Confirm, Writable, Room, Exists, TypeOK, EachStore, Store, HeldIn
<1>4. Kind(f) /\ HasText(f) /\ Current(f)
  BY <1>2, <1>3, SpecVersionsConstants DEF Kind, HasText, Current
<1>5. ~ Filed(f) /\ Restores(f) /\ Ships(f) /\ ~ InGap(f)
  BY <1>2 DEF Filed, Restores, Ships, InGap
<1> QED
  BY <1>1, <1>2, <1>4, <1>5, BeginInv DEF Confirm, TypeOK, Request

LEMMA RollbackInv ==
  ASSUME IInv, NEW r \in Requests, NEW s \in Stores, Rollback(r, s)
  PROVE  IInv'
<1> PICK v \in Versions : Begin(r, s, [Read("rollback", "find", s) EXCEPT !.target = v])
  BY DEF Rollback
<1> DEFINE f == [Read("rollback", "find", s) EXCEPT !.target = v]
<1>1. TypeOK /\ EachStore
  BY Parts
<1>2. /\ f \in ReqStates /\ f.op = "rollback" /\ f.pc = "find" /\ f.store = s
      /\ f.base = version[s] /\ f.read = spec[s] /\ f.target = v /\ f.armed = {}
      /\ f.fresh = FALSE
  <2> PICK x \in ReqStates : x = Read("rollback", "find", s)
    BY <1>1, ReadFacts
  <2>1. x.op = "rollback" /\ x.pc = "find" /\ x.store = s /\ x.base = version[s]
        /\ x.read = spec[s] /\ x.armed = {} /\ x.fresh = FALSE
    BY DEF Read, Idle
  <2>2. v \in 0..MaxVersion
    BY SpecVersionsConstants DEF Versions
  <2>3. f = [x EXCEPT !.target = v]
    OBVIOUS
  <2> HIDE DEF f
  <2> QED
    BY <2>1, <2>2, <2>3, RollbackFields
<1>3. Request(f)
  BY <1>1, <1>2 DEF Rollback, Writable, Room, Request, Kind, HasText, Current, Filed, Restores,
     Ships, InGap, Exists, TypeOK, EachStore, Store, HeldIn, Orderly
<1> QED
  BY <1>1, <1>2, <1>3, BeginInv DEF Rollback, TypeOK

LEMMA PromoteInv ==
  ASSUME IInv, NEW r \in Requests, Promote(r)
  PROVE  IInv'
<1> DEFINE f == [Idle EXCEPT !.op = "promote", !.pc = "meet", !.store = "prod",
                            !.text = spec["test"], !.fresh = TRUE]
<1>1. TypeOK /\ EachStore /\ "test" \in Stores /\ "prod" \in Stores
  BY Parts DEF Stores
<1>2. /\ f \in ReqStates /\ f.op = "promote" /\ f.pc = "meet" /\ f.store = "prod"
      /\ f.base = 0 /\ f.text = spec["test"] /\ f.armed = {} /\ f.asked = {}
  <2>1. spec["test"] \in Texts
    BY <1>1 DEF TypeOK
  <2>2. f \in ReqStates
    BY <1>1, <2>1, IdleType DEF ReqStates
  <2> QED
    BY <2>2 DEF Idle
<1>3. Request(f)
  BY <1>1, <1>2 DEF Promote, Request, Kind, HasText, Current, Filed, Restores,
     Ships, InGap, Exists, TypeOK, EachStore, Store, HeldIn, Orderly
<1> QED
  BY <1>1, <1>2, <1>3, BeginInv DEF Promote, TypeOK

LEMMA SwitchInv ==
  ASSUME IInv, NEW r \in Requests, NEW s \in Stores, Switch(r, s)
  PROVE  IInv'
<1>1. TypeOK /\ EachStore
  BY Parts
<1>2. Read("switch", "app", s) \in ReqStates
  BY <1>1, ReadFacts
<1>3. spec[s] \in Texts /\ armed[s] \subseteq Triggers
  BY <1>1 DEF TypeOK
<1>4. ASSUME NEW f \in ReqStates, Begin(r, s, f), f.op = "switch", f.pc = "app", f.store = s,
             f.text = spec[s], f.armed \subseteq armed[s] \cup f.asked, f.base = version[s],
             f.fresh = FALSE
      PROVE  IInv'
  <2>1. Request(f)
    BY <1>1, <1>4 DEF Switch, Request, Kind, HasText, Current, Filed, Restores,
       Ships, InGap, Exists, TypeOK, EachStore, Store, HeldIn
  <2> QED
    BY <1>1, <1>4, <2>1, BeginInv DEF Switch, TypeOK
<1> PICK t \in Triggers :
      \/ Begin(r, s, [Read("switch", "app", s) EXCEPT
                        !.text = spec[s], !.armed = armed[s] \cup {t}, !.asked = {t}])
      \/ \E on \in {armed[s], armed[s] \ {t}} :
            Begin(r, s, [Read("switch", "app", s) EXCEPT !.text = spec[s], !.armed = on])
  BY DEF Switch
<1>5. CASE Begin(r, s, [Read("switch", "app", s) EXCEPT
                          !.text = spec[s], !.armed = armed[s] \cup {t}, !.asked = {t}])
  <2> DEFINE f == [Read("switch", "app", s) EXCEPT
                     !.text = spec[s], !.armed = armed[s] \cup {t}, !.asked = {t}]
  <2>1. f \in ReqStates
    BY <1>2, <1>3 DEF ReqStates
  <2>2. /\ f.op = "switch" /\ f.pc = "app" /\ f.store = s /\ f.text = spec[s]
        /\ f.armed = armed[s] \cup {t} /\ f.asked = {t} /\ f.base = version[s]
        /\ f.fresh = FALSE
    BY DEF Read, Idle
  <2> QED
    BY <1>4, <1>5, <2>1, <2>2
<1>6. ASSUME NEW on \in {armed[s], armed[s] \ {t}},
             Begin(r, s, [Read("switch", "app", s) EXCEPT !.text = spec[s], !.armed = on])
      PROVE  IInv'
  <2> DEFINE f == [Read("switch", "app", s) EXCEPT !.text = spec[s], !.armed = on]
  <2>1. f \in ReqStates
    BY <1>2, <1>3 DEF ReqStates
  <2>2. /\ f.op = "switch" /\ f.pc = "app" /\ f.store = s /\ f.text = spec[s]
        /\ f.armed = on /\ f.asked = {} /\ f.base = version[s] /\ f.fresh = FALSE
    BY DEF Read, Idle
  <2> QED
    BY <1>4, <1>6, <2>1, <2>2
<1> QED
  BY <1>5, <1>6

\* A step of a request that is under way and writes nothing.
LEMMA StepInv ==
  ASSUME IInv, NEW r \in Requests, NEW f \in ReqStates, Step(r, req[r].pc, f), Still,
         Busy(r), req[r].pc # "app", f.store = req[r].store, Request(f),
         f.pc = "agent" => f.op = "promote"
  PROVE  IInv'
<1>1. TypeOK /\ EachStore /\ f.store \in Stores
  BY Parts DEF ReqStates
<1>2. f.store \notin crowded' => \A q \in Requests \ {r} : Busy(q) => req[q].store # f.store
  BY <1>1 DEF EachStore, Store, AloneIn, Step
<1> QED
  BY <1>1, <1>2, MovesOnly DEF Step, Still, TypeOK, InGap

LEMMA FindInv ==
  ASSUME IInv, NEW r \in Requests, Find(r)
  PROVE  IInv'
<1> DEFINE q == req[r]
           rev == revs[q.store][q.target]
           f == [q EXCEPT !.pc = "snap", !.text = rev.spec, !.mind = rev.agent]
<1>1. TypeOK /\ EachStore /\ Request(q) /\ q \in ReqStates /\ q.store \in Stores
  BY Parts DEF EachRequest, TypeOK, ReqStates
<1>2. q.op = "rollback" /\ q.target \in Versions /\ rev \in Pairs /\ rev # Nothing
  BY <1>1 DEF Find, Request, Kind, TypeOK
<1>3. f \in ReqStates
  BY <1>1, <1>2 DEF ReqStates, Pairs
<1>4. /\ f.pc = "snap" /\ f.op = "rollback" /\ f.store = q.store /\ f.base = q.base
      /\ f.text = rev.spec /\ f.mind = rev.agent /\ f.read = q.read /\ f.armed = q.armed
      /\ f.target = q.target
  BY <1>1, <1>2 DEF ReqStates
<1>5. Restores(f)
  BY <1>1, <1>2, <1>4 DEF Restores, EachStore, Store, RevIn, Nothing, Pairs
<1>6. rev.spec # 0
  BY <1>1, <1>2 DEF EachStore, Store, HeldIn
<1>7. q.pc = "find" /\ Kind(q) /\ HasText(q) /\ (q.store \notin crowded => Current(q))
  BY <1>1 DEF Find, Request
<1>8. Kind(f) /\ HasText(f)
  BY <1>2, <1>4, <1>6, <1>7 DEF Kind, HasText
<1>9. f.store \notin crowded => Current(f)
  <2>1. q.store \notin crowded => q.base = version[q.store] /\ q.read = spec[q.store]
    BY <1>7 DEF Current
  <2> HIDE DEF f
  <2> QED
    BY <1>2, <1>4, <1>7, <2>1 DEF Current, Kind
<1>10. Request(f)
  BY <1>4, <1>5, <1>8, <1>9 DEF Request, Filed, Ships, InGap
<1> QED
  BY <1>1, <1>3, <1>4, <1>7, <1>10, StepInv DEF Find, Busy

LEMMA MeetInv ==
  ASSUME IInv, NEW r \in Requests, Meet(r)
  PROVE  IInv'
<1>1. TypeOK /\ EachStore /\ Request(req[r]) /\ req[r] \in ReqStates /\ "prod" \in Stores
  BY Parts DEF EachRequest, TypeOK, Stores
<1>2. req[r].pc = "meet" /\ req[r].op = "promote" /\ req[r].store = "prod"
  BY <1>1 DEF Meet, Step, Request, Kind
<1>3. version["prod"] \in 0..MaxVersion /\ spec["prod"] \in Texts
  BY <1>1 DEF TypeOK
<1> PICK pc \in {"snap", "copy"} :
       /\ Exists("prod") <=> pc = "snap"
       /\ Step(r, "meet", [req[r] EXCEPT !.pc = pc, !.base = version["prod"],
                                          !.read = spec["prod"]])
  BY DEF Meet
<1> DEFINE q == req[r]
           f == [q EXCEPT !.pc = pc, !.base = version["prod"], !.read = spec["prod"]]
<1>4. f \in ReqStates
  BY <1>1, <1>3 DEF ReqStates
<1>5. /\ f.pc = pc /\ f.op = "promote" /\ f.store = "prod" /\ f.base = version["prod"]
      /\ f.text = q.text /\ f.read = spec["prod"] /\ f.armed = q.armed /\ f.fresh = q.fresh
  BY <1>1, <1>2 DEF ReqStates
<1>6. Request(f)
  BY <1>1, <1>2, <1>3, <1>5 DEF Meet, Room, Request, Kind, HasText, Current, Filed, Restores, Ships,
     InGap, EachStore, Store, HeldIn, Exists
<1> QED
  BY <1>1, <1>2, <1>4, <1>5, <1>6, StepInv DEF Meet, Busy

LEMMA SnapInv ==
  ASSUME IInv, NEW r \in Requests, Snap(r)
  PROVE  IInv'
<1> DEFINE q == req[r]
           f == [q EXCEPT !.pc = "keep", !.old = agent[q.store]]
<1>1. TypeOK /\ Request(q) /\ q \in ReqStates /\ agent[q.store] \in Texts
  BY Parts DEF EachRequest, TypeOK, ReqStates
<1>2. f \in ReqStates
  BY <1>1 DEF ReqStates
<1>3. /\ f.pc = "keep" /\ f.op = q.op /\ f.store = q.store /\ f.base = q.base
      /\ f.text = q.text /\ f.read = q.read /\ f.mind = q.mind /\ f.armed = q.armed
      /\ f.asked = q.asked /\ f.target = q.target /\ f.old = agent[q.store]
      /\ f.fresh = q.fresh
  BY <1>1 DEF ReqStates
<1>4. Request(f)
  BY <1>1, <1>3 DEF Snap, Step, Request, Kind, HasText, Current, Filed, Restores, Ships, InGap
<1> QED
  BY <1>1, <1>2, <1>3, <1>4, StepInv DEF Snap, Step, Busy

LEMMA CopyInv ==
  ASSUME IInv, NEW r \in Requests, Copy(r)
  PROVE  IInv'
<1>1. TypeOK /\ Request(req[r]) /\ req[r] \in ReqStates /\ agent["test"] \in Texts
  BY Parts DEF EachRequest, TypeOK, Stores
<1> PICK pc \in {"app", "agent"} :
       /\ agent["test"] = 0 <=> pc = "app"
       /\ Step(r, "copy", [req[r] EXCEPT !.mind = agent["test"], !.pc = pc])
  BY DEF Copy
<1> DEFINE q == req[r]
           f == [q EXCEPT !.mind = agent["test"], !.pc = pc]
<1>2. q.pc = "copy" /\ q.op = "promote"
  BY <1>1 DEF Step, Request, Kind
<1>3. f \in ReqStates
  BY <1>1 DEF ReqStates
<1>4. /\ f.pc = pc /\ f.op = q.op /\ f.store = q.store /\ f.base = q.base
      /\ f.text = q.text /\ f.read = q.read /\ f.mind = agent["test"] /\ f.armed = q.armed
      /\ f.asked = q.asked /\ f.target = q.target /\ f.fresh = q.fresh
  BY <1>1 DEF ReqStates
<1>5. Request(f)
  BY <1>1, <1>2, <1>4 DEF Request, Kind, HasText, Current, Filed, Restores, Ships, InGap
<1> QED
  BY <1>1, <1>2, <1>3, <1>4, <1>5, StepInv DEF Copy, Busy

\* A request that ends, refused or dead.
LEMMA EndsInv ==
  ASSUME IInv, NEW r \in Requests, req' = [req EXCEPT ![r] = Idle],
         UNCHANGED <<docs, released, crowded, texts>>, faults' \in 0..MaxFaults,
         torn \subseteq torn', torn' \subseteq Stores, InGap(req[r]) => "prod" \in torn'
  PROVE  IInv'
<1>1. Request(Idle)
  BY IdleType DEF Request, Filed, Restores, Ships, InGap
<1> QED
  BY <1>1, IdleType, Parts, MovesOnly DEF TypeOK

LEMMA RefuseInv ==
  ASSUME IInv, NEW r \in Requests, Refuse(r)
  PROVE  IInv'
BY Parts, EndsInv DEF Refuse, Step, Still, TypeOK, InGap

LEMMA DieInv ==
  ASSUME IInv, NEW r \in Requests, Die(r)
  PROVE  IInv'
<1>1. TypeOK
  BY Parts
<1>2. faults' \in 0..MaxFaults /\ torn \subseteq torn' /\ torn' \subseteq Stores
  BY <1>1, SpecVersionsConstants DEF Die, TypeOK, Stores
<1>3. InGap(req[r]) => "prod" \in torn'
  BY DEF Die, InGap
<1> QED
  BY <1>2, <1>3, EndsInv DEF Die

-----------------------------------------------------------------------------
(* Steps that write to the store of their request.                         *)

\* The requests but r go on as they are, and r stays on its store.
OnlyMoves(r) ==
  /\ req' \in [Requests -> ReqStates] /\ crowded' = crowded /\ torn' = torn
  /\ \A q \in Requests \ {r} : req'[q].pc = req[q].pc /\ Follows(req'[q], req[q])
  /\ req'[r].pc = "idle" \/ req'[r].store = req[r].store

Untouched(s) ==
  /\ version'[s] = version[s] /\ spec'[s] = spec[s] /\ agent'[s] = agent[s]
  /\ armed'[s] = armed[s] /\ revs'[s] = revs[s] /\ released'[s] = released[s]

\* A store that is not written keeps its part of the invariant.
LEMMA Elsewhere ==
  ASSUME IInv, NEW r \in Requests, Busy(r), OnlyMoves(r),
         NEW s \in Stores, s # req[r].store, Untouched(s)
  PROVE  Store(s)'
<1>1. Store(s) /\ Request(req[r]) /\ TypeOK
  BY Parts DEF EachStore, EachRequest
<1>2. AloneIn(s)'
  BY <1>1 DEF Store, AloneIn, Busy, OnlyMoves, Follows
<1>3. HeldIn(s)' /\ RevIn(s)' /\ SafeIn(s)'
  BY <1>1 DEF Store, HeldIn, Exists, RevIn, SafeIn, Orderly, Due, Kept, Live, OnlyMoves, Untouched
<1>4. AheadIn(s)'
  BY <1>1 DEF Store, AheadIn, OnlyMoves, Untouched, Follows
<1>5. LiveIn(s)'
  <2>1. s = "prod" => ~ InGap(req[r])
    BY <1>1 DEF Request, Kind, InGap
  <2>2. \A q \in Requests \ {r} : InGap(req[q]) => InGap(req'[q])
    BY DEF InGap, OnlyMoves, Follows
  <2> QED
    BY <1>1, <2>1, <2>2 DEF Store, LiveIn, Exists, Orderly, Live, OnlyMoves, Untouched, InGap
<1> QED
  BY <1>2, <1>3, <1>4, <1>5 DEF Store

\* Nor is another request disturbed: if it is on the store of r, that is crowded.
LEMMA OthersKeep ==
  ASSUME IInv, NEW r \in Requests, Busy(r), OnlyMoves(r),
         \A s \in Stores \ {req[r].store} : Untouched(s),
         NEW q \in Requests \ {r},
         \A s \in Stores : spec[s] # 0 => spec'[s] # 0,
         req'[q].fresh => req[r].store # "test" \/ UNCHANGED <<spec, agent>>
  PROVE  Request(req[q])'
<1> DEFINE s == req[q].store
<1>1. /\ TypeOK /\ Request(req[q]) /\ Request(req[r]) /\ EachStore
      /\ s \in Stores /\ req[r].store \in Stores /\ req[q] \in ReqStates
  BY Parts DEF EachRequest, TypeOK, ReqStates
<1>2. req'[q].pc = req[q].pc /\ Follows(req'[q], req[q]) /\ crowded' = crowded /\ torn' = torn
  BY DEF OnlyMoves
<1>3. req'[q].pc # "idle" /\ s \notin crowded => Untouched(s)
  BY <1>1, <1>2 DEF EachStore, Store, AloneIn, Busy
<1>4. req'[q].pc # "idle" => Kind(req[q])' /\ HasText(req[q])'
  BY <1>1, <1>2 DEF Request, Kind, HasText, Follows
<1>5. req'[q].pc # "idle" /\ s \notin crowded => Current(req[q])'
  BY <1>1, <1>2, <1>3 DEF Request, Current, Follows, Untouched
<1>6. Filed(req[q])' /\ s \notin crowded => revs'[s][req'[q].base] # Nothing
  <2>1. Filed(req[q])' => Filed(req[q]) /\ req'[q].pc # "idle"
    BY <1>2 DEF Filed, Follows
  <2> QED
    BY <1>1, <1>2, <1>3, <2>1 DEF Request, Follows, Untouched
<1>7. req'[q].pc # "idle" => Restores(req[q])'
  BY <1>1, <1>2, <1>3 DEF Request, Restores, Follows, Untouched, Orderly
<1>8. req'[q].pc # "idle" => Ships(req[q])'
  <2>1. req'[q].fresh => spec'["test"] = spec["test"] /\ agent'["test"] = agent["test"]
    BY <1>1 DEF Untouched, Stores
  <2> QED
    BY <1>1, <1>2, <2>1 DEF Request, Ships, Follows
<1>9. InGap(req[q])' /\ "prod" \notin crowded => agent'["prod"] = req'[q].mind
  <2>1. InGap(req[q])' => InGap(req[q]) /\ req'[q].pc # "idle"
    BY <1>2 DEF InGap, Follows
  <2>2. InGap(req[q])' => s = "prod"
    BY <1>1, <2>1, <1>2 DEF Request, Kind, InGap
  <2> QED
    BY <1>1, <1>2, <1>3, <2>1, <2>2 DEF Request, Follows, Untouched
<1> QED
  BY <1>2, <1>4, <1>5, <1>6, <1>7, <1>8, <1>9 DEF Request, Follows

\* The snapshot is filed: on a store that is not crowded, it is the live version.
LEMMA KeepRevInv ==
  ASSUME IInv, NEW r \in Requests, KeepRev(r)
  PROVE  IInv'
<1> PICK s \in Stores : s = req[r].store
  BY Parts DEF TypeOK, ReqStates
<1> PICK rev : rev = [spec |-> req[r].read, agent |-> req[r].old]
  OBVIOUS
<1> DEFINE q == req[r]
           f == [q EXCEPT !.pc = "trim", !.read = 0, !.old = 0]
<1>1. TypeOK /\ EachRequest /\ EachStore /\ Request(q) /\ q \in ReqStates
  BY Parts DEF EachRequest, TypeOK, ReqStates
<1>2. q.pc = "keep" /\ q.base \in Versions /\ q.base < MaxVersion /\ q.op # "switch"
  BY <1>1, SpecVersionsConstants DEF KeepRev, Step, Request, Kind, ReqStates, Versions
<1>3. rev \in Pairs /\ rev # Nothing /\ rev.spec # 0
  BY <1>1, <1>2 DEF Request, HasText, ReqStates, Pairs, Nothing
<1>4. f \in ReqStates
  <2>1. 0 \in Texts
    BY SpecVersionsConstants DEF Texts
  <2> QED
    BY <1>1, <2>1 DEF ReqStates
<1>5. /\ f.pc = "trim" /\ f.op = q.op /\ f.store = q.store /\ f.base = q.base
      /\ f.text = q.text /\ f.mind = q.mind /\ f.armed = q.armed
      /\ f.asked = q.asked /\ f.target = q.target /\ f.fresh = q.fresh
  BY <1>1 DEF ReqStates
<1>6. /\ req' \in [Requests -> ReqStates] /\ req'[r] = f
      /\ \A p \in Requests \ {r} : req'[p] = req[p]
  BY <1>1, <1>4, OneMoves DEF KeepRev, Step
<1>7. /\ revs' = [revs EXCEPT ![s][q.base] = rev]
      /\ UNCHANGED <<version, spec, armed, agent, released, texts, faults, crowded, torn>>
  BY DEF KeepRev, Step
<1>8. /\ revs' \in [Stores -> [Versions -> Pairs]]
      /\ \A t \in Stores \ {s} : revs'[t] = revs[t]
      /\ \A v \in Versions : revs'[s][v] = IF v = q.base THEN rev ELSE revs[s][v]
  BY <1>1, <1>2, <1>3, <1>7 DEF TypeOK
<1>9. OnlyMoves(r) /\ \A t \in Stores \ {s} : Untouched(t)
  BY <1>5, <1>6, <1>7, <1>8 DEF OnlyMoves, Untouched, Follows
<1>10. TypeOK'
  BY <1>1, <1>6, <1>7, <1>8 DEF TypeOK
<1>11. EachRequest'
  <2> SUFFICES ASSUME NEW p \in Requests PROVE Request(req[p])'
    BY DEF EachRequest
  <2>1. CASE p # r
    BY <1>2, <1>7, <1>9, <2>1, OthersKeep DEF Busy
  <2>2. CASE p = r
    <3>1. Kind(f) /\ HasText(f) /\ Ships(f) /\ ~ InGap(f) /\ Restores(f)
      BY <1>1, <1>2, <1>5 DEF Request, Kind, HasText, Ships, InGap, Restores
    <3>2. f.pc = "trim" /\ f.op # "switch" /\ (f.store \notin crowded => f.base = version[f.store])
      BY <1>1, <1>2, <1>5 DEF Request, Current
    <3>3. revs'[f.store][f.base] # Nothing
      BY <1>2, <1>3, <1>5, <1>8
    <3> HIDE DEF f
    <3>4. /\ Kind(req[r])' /\ HasText(req[r])' /\ Ships(req[r])' /\ Restores(req[r])'
          /\ ~ InGap(req[r])'
      BY <1>6, <1>7, <3>1 DEF Kind, HasText, Ships, InGap, Restores, Orderly
    <3>5. req'[r].store \notin crowded => Current(req[r])'
      BY <1>6, <1>7, <3>2 DEF Current
    <3> QED
      BY <1>6, <1>7, <2>2, <3>3, <3>4, <3>5 DEF Request
  <2> QED
    BY <2>1, <2>2
<1>12. EachStore'
  <2> SUFFICES Store(s)'
    BY <1>2, <1>9, Elsewhere DEF EachStore, Busy
  <2>1. Store(s)
    BY <1>1 DEF EachStore
  <2>2. s \notin crowded => q.base = version[s] /\ rev = Live(s)
    BY <1>1, <1>2 DEF Request, Current, Live
  <2>3. s \notin crowded => \A p \in Requests \ {r} : Busy(p) => req[p].store # s
    BY <1>2, <2>1 DEF Store, AloneIn, Busy
  <2>4. AloneIn(s)'
    BY <1>6, <1>7, <2>3 DEF AloneIn, Busy
  <2>5. HeldIn(s)'
    BY <1>3, <1>7, <1>8, <2>1 DEF Store, HeldIn, Exists
  <2>6. AheadIn(s)'
    <3> SUFFICES ASSUME s \notin crowded PROVE AheadIn(s)'
      BY <1>7 DEF AheadIn
    <3>1. \A v \in Versions : v > version[s] => revs'[s][v] = revs[s][v]
      BY <1>2, <1>8, <2>2, SpecVersionsConstants DEF Versions
    <3>2. \A p \in Requests : req'[p].pc = "agent" => req'[p].store # s
      BY <1>5, <1>6, <2>3 DEF Busy
    <3> QED
      BY <1>7, <2>1, <3>1, <3>2 DEF Store, AheadIn
  <2>7. Orderly(s) => ~ (s = "prod" /\ \E p \in Requests : InGap(req[p]))
    BY <1>1, <1>2, <2>3 DEF Orderly, InGap, Busy, EachRequest, Request, Kind
  <2>8. RevIn(s)'
    <3> SUFFICES ASSUME Orderly(s), NEW v \in Versions, released[s][v] # Nothing,
                        revs'[s][v] # Nothing
                 PROVE  revs'[s][v] = released[s][v]
      BY <1>7 DEF RevIn, Orderly
    <3>1. CASE v = q.base
      <4>1. v = version[s] /\ revs'[s][v] = Live(s) /\ Exists(s)
        BY <1>2, <1>8, <2>2, <3>1 DEF Orderly, Exists, Versions
      <4> QED
        BY <2>1, <2>7, <4>1 DEF Store, LiveIn
    <3>2. CASE v # q.base
      BY <1>8, <2>1, <3>2 DEF Store, RevIn
    <3> QED
      BY <3>1, <3>2
  <2>9. LiveIn(s)'
    BY <1>7, <2>1, <2>7 DEF Store, LiveIn, Exists, Orderly, Live
  <2>10. SafeIn(s)'
    <3> SUFFICES ASSUME Orderly(s), NEW v \in Versions, released[s][v] # Nothing, Due(s, v)'
                 PROVE  \/ revs'[s][v] = released[s][v]
                        \/ v = version[s] /\ Live(s) = released[s][v]
      BY <1>7 DEF SafeIn, Orderly, Live
    <3>1. CASE v = q.base
      BY <1>8, <2>2, <2>8, <3>1, <1>3, <1>7 DEF RevIn, Orderly
    <3>2. CASE v # q.base
      <4>1. \E w \in Kept(s)' : w = version[s]
        BY <1>2, <1>3, <1>7, <1>8, <2>2 DEF Kept, Orderly
      <4>2. Due(s, v)
        BY <1>1, <1>7, <4>1, SpecVersionsConstants DEF Due, TypeOK, Versions
      <4> QED
        BY <1>8, <2>1, <3>2, <4>2 DEF Store, SafeIn
    <3> QED
      BY <3>1, <3>2
  <2> QED
    BY <2>4, <2>5, <2>6, <2>8, <2>9, <2>10 DEF Store
<1> QED
  BY <1>10, <1>11, <1>12, PartsNext

\* A version is spared if there are at most Keep between it and the live one.
LEMMA NearIsSpared ==
  ASSUME TypeOK, NEW s \in Stores, NEW v \in Versions, v + Keep > version[s],
         \A w \in Versions : w > version[s] => revs[s][w] = Nothing
  PROVE  Spare(s, v)
<1> DEFINE W == {w \in Kept(s) : w >= v}
<1>1. v \in Int /\ version[s] \in Int /\ Keep \in Nat \ {0}
  BY SpecVersionsConstants DEF TypeOK, Versions
<1>2. W \subseteq v..version[s]
  BY <1>1, SpecVersionsConstants DEF Kept, Versions
<1>3. /\ IsFiniteSet(v..version[s])
      /\ Cardinality(v..version[s]) = IF v > version[s] THEN 0 ELSE version[s] - v + 1
  BY <1>1, FS_Interval
<1>4. Cardinality(W) <= Cardinality(v..version[s]) /\ Cardinality(W) \in Nat
  BY <1>2, <1>3, FS_Subset, FS_CardinalityType
<1> QED
  BY <1>1, <1>3, <1>4 DEF Spare

\* The trim costs no version that is due, nor the one that is live.
LEMMA TrimInv ==
  ASSUME IInv, NEW r \in Requests, Trim(r)
  PROVE  IInv'
<1> PICK s \in Stores : s = req[r].store
  BY Parts DEF TypeOK, ReqStates
<1> PICK pc \in {"copy", "app"} :
       /\ req[r].op = "promote" <=> pc = "copy"
       /\ Step(r, "trim", [req[r] EXCEPT !.pc = pc])
  BY DEF Trim
<1> DEFINE q == req[r]
           f == [q EXCEPT !.pc = pc]
<1>1. TypeOK /\ EachRequest /\ EachStore /\ Request(q) /\ q \in ReqStates
  BY Parts DEF EachRequest, TypeOK
<1>2. q.pc = "trim" /\ q.base \in Versions /\ q.base < MaxVersion /\ q.op # "switch"
  BY <1>1, SpecVersionsConstants DEF Step, Request, Kind, ReqStates, Versions
<1>3. f \in ReqStates /\ f.pc = pc /\ Follows(f, q) /\ f.fresh = q.fresh
  <2>1. pc \in Later
    BY DEF Later
  <2> QED
    BY <1>1, <2>1, GoesOn
<1>4. /\ req' \in [Requests -> ReqStates] /\ req'[r] = f
      /\ \A p \in Requests \ {r} : req'[p] = req[p]
  BY <1>1, <1>3, OneMoves DEF Step
<1>5. /\ revs' = [revs EXCEPT ![s] =
                      [v \in Versions |-> IF Spare(s, v) THEN revs[s][v] ELSE Nothing]]
      /\ UNCHANGED <<version, spec, armed, agent, released, texts, faults, crowded, torn>>
  BY DEF Trim, Step
<1>6. Nothing \in Pairs
  BY SpecVersionsConstants DEF Nothing, Pairs, Texts
<1>7. /\ revs' \in [Stores -> [Versions -> Pairs]]
      /\ \A t \in Stores \ {s} : revs'[t] = revs[t]
      /\ \A v \in Versions : revs'[s][v] = IF Spare(s, v) THEN revs[s][v] ELSE Nothing
  BY <1>1, <1>5, <1>6 DEF TypeOK
<1>8. OnlyMoves(r) /\ \A t \in Stores \ {s} : Untouched(t)
  BY <1>3, <1>4, <1>5, <1>7 DEF OnlyMoves, Untouched, Follows
<1>9. TypeOK'
  BY <1>1, <1>4, <1>5, <1>7 DEF TypeOK
<1>10. s \notin crowded => \A v \in Versions : v + Keep > version[s] => revs'[s][v] = revs[s][v]
  BY <1>1, <1>7, NearIsSpared DEF EachStore, Store, AheadIn
<1>11. s \notin crowded =>
          /\ q.base = version[s] /\ revs[s][q.base] # Nothing
          /\ revs'[s][q.base] = revs[s][q.base]
  BY <1>1, <1>2, <1>10, SpecVersionsConstants DEF Request, Current, Filed, Versions
<1>12. EachRequest'
  <2> SUFFICES ASSUME NEW p \in Requests PROVE Request(req[p])'
    BY DEF EachRequest
  <2>1. CASE p # r
    BY <1>2, <1>5, <1>8, <2>1, OthersKeep DEF Busy
  <2>2. CASE p = r
    <3>1. Kind(f) /\ HasText(f) /\ Ships(f) /\ Restores(f) /\ (InGap(f) => FALSE)
      BY <1>1, <1>2, <1>3 DEF Request, Kind, HasText, Ships, InGap, Restores, Follows
    <3>2. s \notin crowded => Current(f)
      BY <1>1, <1>2, <1>3 DEF Request, Current, Follows
    <3>3. s \notin crowded => revs'[f.store][f.base] # Nothing
      BY <1>3, <1>11 DEF Follows
    <3>4. /\ Kind(req[r])' /\ HasText(req[r])' /\ Ships(req[r])'
          /\ Restores(req[r])' /\ ~ InGap(req[r])'
      BY <1>4, <1>5, <3>1 DEF Kind, HasText, Ships, InGap, Restores, Orderly
    <3>5. req'[r].store \notin crowded => Current(req[r])'
      BY <1>3, <1>4, <1>5, <3>2 DEF Current, Follows
    <3> QED
      BY <1>3, <1>4, <1>5, <2>2, <3>3, <3>4, <3>5 DEF Request, Follows
  <2> QED
    BY <2>1, <2>2
<1>13. EachStore'
  <2> SUFFICES Store(s)'
    BY <1>2, <1>8, Elsewhere DEF EachStore, Busy
  <2>1. Store(s)
    BY <1>1 DEF EachStore
  <2>2. s \notin crowded => \A p \in Requests \ {r} : Busy(p) => req[p].store # s
    BY <1>2, <2>1 DEF Store, AloneIn, Busy
  <2>3. AloneIn(s)'
    BY <1>4, <1>5, <2>2 DEF AloneIn, Busy
  <2>4. HeldIn(s)' /\ RevIn(s)'
    BY <1>5, <1>7, <2>1 DEF Store, HeldIn, Exists, RevIn, Orderly
  <2>5. AheadIn(s)'
    <3> SUFFICES ASSUME s \notin crowded, NEW v \in Versions
                 PROVE  /\ v > version[s] => revs'[s][v] = Nothing /\ released[s][v] = Nothing
                        /\ \A p \in Requests :
                             req'[p].pc = "agent" /\ req'[p].op # "promote"
                                /\ req'[p].store = s /\ v = version[s]
                             => revs'[s][v] = Nothing /\ released[s][v] = Nothing
      BY <1>5 DEF AheadIn
    <3>1. v > version[s] => revs[s][v] = Nothing /\ released[s][v] = Nothing
      BY <2>1 DEF Store, AheadIn
    <3>2. revs[s][v] = Nothing => revs'[s][v] = Nothing
      BY <1>7
    <3>3. \A p \in Requests : req'[p].pc = "agent" => req'[p].store # s
      BY <1>3, <1>4, <2>2 DEF Busy
    <3> QED
      BY <3>1, <3>2, <3>3
  <2>6. Orderly(s) => ~ (s = "prod" /\ \E p \in Requests : InGap(req[p]))
    BY <1>1, <1>2, <2>2 DEF Orderly, InGap, Busy, EachRequest, Request, Kind
  <2>7. LiveIn(s)'
    BY <1>5, <2>1, <2>6 DEF Store, LiveIn, Exists, Orderly, Live
  <2>8. SafeIn(s)'
    <3> SUFFICES ASSUME Orderly(s), NEW v \in Versions, released[s][v] # Nothing, Due(s, v)'
                 PROVE  \/ revs'[s][v] = released[s][v]
                        \/ v = version[s] /\ Live(s) = released[s][v]
      BY <1>5 DEF SafeIn, Orderly, Live
    <3>1. s \notin crowded
      BY DEF Orderly
    <3>2. \E w \in Kept(s)' : w = version[s]
      BY <1>2, <1>11, <3>1 DEF Kept
    <3>3. v + Keep > version[s] /\ Due(s, v)
      BY <1>1, <1>5, <3>2, SpecVersionsConstants DEF Due, TypeOK, Versions
    <3> QED
      BY <1>10, <2>1, <3>1, <3>3 DEF Store, SafeIn
  <2> QED
    BY <2>3, <2>4, <2>5, <2>7, <2>8 DEF Store
<1> QED
  BY <1>9, <1>12, <1>13, PartsNext

LEMMA ReleaseMoves ==
  ASSUME TypeOK, NEW r \in Requests, NEW s \in Stores, s = req[r].store, NEW pc,
         Onto(r, pc), Written(s) \in Pairs
  PROVE  /\ released' \in [Stores -> [Versions -> Pairs]]
         /\ \A t \in Stores \ {s} : released'[t] = released[t]
         /\ \A v \in Versions :
               released'[s][v] = IF pc = "idle" /\ req[r].op # "switch" /\ v = version'[s]
                                 THEN Written(s) ELSE released[s][v]
<1>1. CASE pc = "idle" /\ req[r].op # "switch"
  <2>1. released' = [released EXCEPT ![s][version'[s]] = Written(s)]
    BY <1>1 DEF Onto
  <2> QED
    BY <1>1, <2>1 DEF TypeOK
<1>2. CASE ~ (pc = "idle" /\ req[r].op # "switch")
  BY <1>2 DEF Onto, TypeOK
<1> QED
  BY <1>1, <1>2

\* A write is right if it is right for its request and its store.
LEMMA WriteKeeps ==
  ASSUME IInv, NEW r \in Requests, NEW s \in Stores, s = req[r].store,
         NEW pc \in {"idle", "agent", "app"}, Onto(r, pc), req[r].pc \in {"app", "agent"},
         version' \in [Stores -> 0..MaxVersion], spec' \in [Stores -> Texts],
         agent' \in [Stores -> Texts], armed' \in [Stores -> SUBSET Triggers],
         \A t \in Stores \ {s} : /\ version'[t] = version[t] /\ spec'[t] = spec[t]
                                 /\ agent'[t] = agent[t] /\ armed'[t] = armed[t],
         spec[s] # 0 => spec'[s] # 0,
         pc # "idle" => Request(req[r])', Store(s)'
  PROVE  IInv'
<1>1. TypeOK
  BY Parts
<1>2. Written(s) \in Pairs
  BY DEF Written, Pairs
<1>3. /\ released' \in [Stores -> [Versions -> Pairs]]
      /\ \A t \in Stores \ {s} : released'[t] = released[t]
  BY <1>1, <1>2, ReleaseMoves
<1>4. /\ req' \in [Requests -> ReqStates]
      /\ pc = "idle" => req'[r] = Idle
      /\ pc # "idle" => req'[r].pc = pc /\ Follows(req'[r], req[r])
      /\ \A q \in Requests \ {r} :
            /\ req'[q].pc = req[q].pc /\ Follows(req'[q], req[q])
            /\ req[r].store = "test" => ~ req'[q].fresh
  BY <1>1, OntoMoves
<1>5. UNCHANGED <<revs, texts, faults, crowded, torn>>
  BY DEF Onto
<1>6. OnlyMoves(r) /\ \A t \in Stores \ {s} : Untouched(t)
  BY <1>3, <1>4, <1>5, IdleType DEF OnlyMoves, Untouched, Follows
<1>7. TypeOK'
  BY <1>1, <1>3, <1>4, <1>5 DEF TypeOK
<1>8. EachRequest'
  <2> SUFFICES ASSUME NEW q \in Requests PROVE Request(req[q])'
    BY DEF EachRequest
  <2>1. CASE q # r
    <3>1. \A t \in Stores : spec[t] # 0 => spec'[t] # 0
      OBVIOUS
    <3> QED
      BY <1>4, <1>6, <2>1, <3>1, OthersKeep DEF Busy
  <2>2. CASE q = r
    BY <1>4, <2>2, IdleType DEF Request, Filed, InGap
  <2> QED
    BY <2>1, <2>2
<1>9. EachStore'
  BY <1>6, Elsewhere DEF EachStore, Busy
<1> QED
  BY <1>7, <1>8, <1>9, PartsNext

\* On the store of a write that is not crowded nobody else is at work.
LEMMA NobodyElse ==
  ASSUME IInv, NEW r \in Requests, NEW s \in Stores, s = req[r].store,
         NEW pc \in {"idle", "agent", "app"}, Onto(r, pc), Busy(r), s \notin crowded
  PROVE  /\ \A p \in Requests \ {r} : Busy(p) => req[p].store # s
         /\ \A p \in Requests \ {r} : req'[p].pc # "idle" => req'[p].store # s
<1>1. TypeOK /\ Store(s)
  BY Parts DEF EachStore
<1>2. \A p \in Requests \ {r} : Busy(p) => req[p].store # s
  BY <1>1 DEF Store, AloneIn
<1>3. \A p \in Requests \ {r} : req'[p].pc = req[p].pc /\ Follows(req'[p], req[p])
  BY <1>1, OntoMoves
<1> QED
  BY <1>2, <1>3 DEF Busy, Follows

\* A store that gets a new version, whose predecessor is filed.
LEMMA NewVersion ==
  ASSUME IInv, NEW r \in Requests, NEW s \in Stores, s = req[r].store,
         req[r].pc = "app", req[r].op # "switch",
         NEW pc \in {"idle", "agent"}, Onto(r, pc), pc = "agent" => req[r].op # "promote",
         version' = [version EXCEPT ![s] = req[r].base + 1],
         spec' \in [Stores -> Texts], agent' \in [Stores -> Texts], spec'[s] # 0
  PROVE  Store(s)'
<1> PICK base : base = req[r].base
  OBVIOUS
<1>1. /\ TypeOK /\ Request(req[r]) /\ Store(s) /\ Busy(r)
      /\ version[s] \in 0..MaxVersion /\ base \in 0..MaxVersion
  BY Parts DEF EachStore, EachRequest, Busy, TypeOK, ReqStates
<1>2. version'[s] = base + 1 /\ base + 1 \in Versions
  BY <1>1, SpecVersionsConstants DEF TypeOK, Request, Kind, Versions
<1>3. UNCHANGED <<revs, crowded, torn>>
  BY DEF Onto
<1>4. Written(s) \in Pairs
  BY DEF Written, Pairs
<1>5. \A v \in Versions :
         released'[s][v] = IF pc = "idle" /\ v = base + 1 THEN Written(s) ELSE released[s][v]
  BY <1>1, <1>2, <1>4, ReleaseMoves
<1>6. HeldIn(s)'
  BY <1>1, <1>3 DEF Store, HeldIn
<1>7. CASE s \in crowded
  BY <1>3, <1>6, <1>7 DEF Store, AloneIn, AheadIn, RevIn, LiveIn, SafeIn, Orderly
<1>8. CASE s \notin crowded
  <2>1. base = version[s]
    BY <1>1, <1>8 DEF Request, Current, Busy
  <2>2. base > 0 => revs[s][base] # Nothing
    BY <1>1, <1>8 DEF Request, Filed
  <2>3. \A p \in Requests \ {r} : req'[p].pc # "idle" => req'[p].store # s
    BY <1>1, <1>8, NobodyElse
  <2>4. \A v \in Versions : v > base => revs[s][v] = Nothing /\ released[s][v] = Nothing
    BY <1>1, <1>8, <2>1 DEF Store, AheadIn
  <2>5. AloneIn(s)'
    BY <2>3 DEF AloneIn, Busy
  <2>6. AheadIn(s)'
    <3>1. \A v \in Versions : v > base + 1 =>
             v > base /\ revs'[s][v] = Nothing /\ released'[s][v] = Nothing
      BY <1>1, <1>3, <1>5, <2>4, SpecVersionsConstants DEF Versions
    <3>2. \A p \in Requests : req'[p].pc = "agent" /\ req'[p].store = s =>
             /\ revs'[s][base + 1] = Nothing /\ released'[s][base + 1] = Nothing
      BY <1>1, <1>2, <1>3, <1>5, <2>3, <2>4, OntoMoves, IdleType
    <3> QED
      BY <1>2, <3>1, <3>2 DEF AheadIn
  <2>7. revs[s][base + 1] = Nothing /\ released[s][base + 1] = Nothing
    BY <1>1, <1>2, <2>4
  <2>8. RevIn(s)'
    BY <1>1, <1>2, <1>3, <1>5, <2>7 DEF Store, RevIn, Orderly
  <2>9. LiveIn(s)'
    BY <1>2, <1>5, <2>7 DEF LiveIn, Live, Written
  <2>10. SafeIn(s)'
    <3> SUFFICES ASSUME Orderly(s), NEW v \in Versions, released'[s][v] # Nothing, Due(s, v)'
                 PROVE  \/ revs'[s][v] = released'[s][v]
                        \/ v = version'[s] /\ Written(s) = released'[s][v]
      BY <1>3 DEF SafeIn, Orderly, Live, Written
    <3>1. CASE v = base + 1
      BY <1>2, <1>5, <2>7, <3>1
    <3>2. CASE v # base + 1
      <4>1. released'[s][v] = released[s][v] /\ released[s][v] # Nothing
        BY <1>5, <3>2
      <4>2. v <= base /\ base > 0 /\ base \in Versions
        BY <1>1, <2>4, <4>1, SpecVersionsConstants DEF Versions
      <4>3. v + Keep >= base + 1
        BY <1>1, <1>2, SpecVersionsConstants DEF Due, Versions
      <4>4. Due(s, v)
        BY <1>1, <2>1, <4>2, <4>3, SpecVersionsConstants DEF Due, Versions
      <4>5. revs[s][base] # Nothing /\ (released[s][base] # Nothing
                                          => revs[s][base] = released[s][base])
        BY <1>1, <2>2, <4>2 DEF Store, RevIn
      <4> QED
        BY <1>1, <1>3, <2>1, <4>1, <4>4, <4>5 DEF Store, SafeIn
    <3> QED
      BY <3>1, <3>2
  <2> QED
    BY <1>6, <2>5, <2>6, <2>8, <2>9, <2>10 DEF Store
<1> QED
  BY <1>7, <1>8

LEMMA WriteAppInv ==
  ASSUME IInv, NEW r \in Requests, WriteApp(r)
  PROVE  IInv'
<1> PICK s \in Stores : s = req[r].store
  BY Parts DEF TypeOK, ReqStates
<1> PICK pc \in {"idle", "agent"} : Onto(r, pc) /\ (pc = "agent" <=> AgentFollows(r))
  BY DEF WriteApp
<1> DEFINE q == req[r]
<1>1. TypeOK /\ EachStore /\ Request(q) /\ q \in ReqStates
  BY Parts DEF EachRequest, TypeOK
<1>2. /\ q.pc = "app" /\ q.op \in {"publish", "edit", "rollback", "promote"}
      /\ version' = [version EXCEPT ![s] = q.base + 1] /\ spec' = [spec EXCEPT ![s] = q.text]
      /\ armed' = [armed EXCEPT ![s] = q.armed] /\ agent' = agent
  BY DEF WriteApp
<1>3. q.text # 0 /\ q.text \in Texts /\ q.base + 1 \in 0..MaxVersion /\ q.armed \subseteq Triggers
  BY <1>1, <1>2, SpecVersionsConstants DEF Request, HasText, Kind, ReqStates
<1>4. /\ version' \in [Stores -> 0..MaxVersion] /\ spec' \in [Stores -> Texts]
      /\ agent' \in [Stores -> Texts] /\ armed' \in [Stores -> SUBSET Triggers]
      /\ spec'[s] = q.text /\ version'[s] = q.base + 1
      /\ \A t \in Stores \ {s} : /\ version'[t] = version[t] /\ spec'[t] = spec[t]
                                /\ agent'[t] = agent[t] /\ armed'[t] = armed[t]
  BY <1>1, <1>2, <1>3 DEF TypeOK
<1>5. Store(s)'
  <2>1. pc = "agent" => q.op # "promote"
    BY DEF AgentFollows
  <2>2. q.op # "switch" /\ spec'[s] # 0
    BY <1>2, <1>3, <1>4
  <2>3. CASE pc = "idle"
    BY <1>2, <1>4, <2>2, <2>3, NewVersion
  <2>4. CASE pc = "agent"
    BY <1>2, <1>4, <2>1, <2>2, <2>4, NewVersion
  <2> QED
    BY <2>3, <2>4
<1>6. ASSUME pc = "agent" PROVE Request(req[r])'
  <2>1. q.op # "promote" /\ q.mind # 0
    BY <1>6 DEF AgentFollows
  <2>2. req'[r].pc = "agent" /\ Follows(req'[r], q)
    BY <1>1, <1>6, OntoMoves
  <2>3. released' = released /\ crowded' = crowded /\ torn' = torn
    BY <1>6 DEF Onto
  <2>4. Kind(req[r])' /\ HasText(req[r])' /\ Ships(req[r])' /\ ~ InGap(req[r])' /\ ~ Filed(req[r])'
    BY <1>1, <1>2, <1>3, <1>4, <2>1, <2>2
       DEF Request, Kind, HasText, Ships, InGap, Filed, Follows
  <2>5. Restores(req[r])'
    BY <1>1, <1>2, <2>2, <2>3 DEF Request, Restores, Follows, Orderly
  <2>6. req'[r].store \notin crowded => Current(req[r])'
    BY <1>1, <1>2, <1>4, <2>1, <2>2 DEF Request, Current, Follows
  <2> QED
    BY <2>2, <2>3, <2>4, <2>5, <2>6 DEF Request
<1> QED
  BY <1>2, <1>3, <1>4, <1>5, <1>6, WriteKeeps

LEMMA StampInv ==
  ASSUME IInv, NEW r \in Requests, Stamp(r)
  PROVE  IInv'
<1> PICK s \in Stores : s = req[r].store
  BY Parts DEF TypeOK, ReqStates
<1> DEFINE q == req[r]
<1>1. TypeOK /\ Request(q) /\ q \in ReqStates
  BY Parts DEF EachRequest, TypeOK
<1>2. /\ q.pc = "app" /\ q.op = "confirm" /\ Onto(r, "idle")
      /\ version' = [version EXCEPT ![s] = q.base + 1] /\ UNCHANGED <<spec, armed, agent>>
  BY DEF Stamp
<1>3. q.base + 1 \in 0..MaxVersion /\ spec[s] # 0
  BY <1>1, <1>2, SpecVersionsConstants DEF Request, Kind, HasText, ReqStates
<1>4. /\ version' \in [Stores -> 0..MaxVersion] /\ spec' \in [Stores -> Texts]
      /\ agent' \in [Stores -> Texts] /\ armed' \in [Stores -> SUBSET Triggers]
      /\ \A t \in Stores \ {s} : version'[t] = version[t]
  BY <1>1, <1>2, <1>3 DEF TypeOK
<1>5. Store(s)'
  BY <1>2, <1>3, <1>4, NewVersion
<1> QED
  BY <1>2, <1>3, <1>4, <1>5, WriteKeeps

LEMMA SetSpecInv ==
  ASSUME IInv, NEW r \in Requests, SetSpec(r)
  PROVE  IInv'
<1> PICK s \in Stores : s = req[r].store
  BY Parts DEF TypeOK, ReqStates
<1> DEFINE q == req[r]
<1>1. TypeOK /\ Request(q) /\ q \in ReqStates /\ Store(s) /\ Busy(r)
  BY Parts DEF EachRequest, TypeOK, EachStore, SetSpec, Busy
<1>2. /\ q.pc = "app" /\ q.op = "switch" /\ Onto(r, "idle")
      /\ spec' = [spec EXCEPT ![s] = q.text] /\ armed' = [armed EXCEPT ![s] = q.armed]
      /\ UNCHANGED <<version, agent, revs, released, crowded, torn>>
  BY DEF SetSpec, Onto
<1>3. q.text # 0 /\ q.text \in Texts /\ q.armed \subseteq Triggers
  BY <1>1, <1>2 DEF Request, HasText, ReqStates
<1>4. /\ version' \in [Stores -> 0..MaxVersion] /\ spec' \in [Stores -> Texts]
      /\ agent' \in [Stores -> Texts] /\ armed' \in [Stores -> SUBSET Triggers]
      /\ spec'[s] = q.text
      /\ \A t \in Stores \ {s} : spec'[t] = spec[t] /\ armed'[t] = armed[t]
  BY <1>1, <1>2, <1>3 DEF TypeOK
<1>5. Store(s)'
  <2>1. HeldIn(s)'
    BY <1>1, <1>2, <1>3, <1>4 DEF Store, HeldIn
  <2>2. CASE s \in crowded
    BY <1>2, <2>1, <2>2 DEF Store, AloneIn, AheadIn, RevIn, LiveIn, SafeIn, Orderly
  <2>3. CASE s \notin crowded
    <3>1. spec'[s] = spec[s]
      BY <1>1, <1>2, <1>4, <2>3 DEF Request, Current
    <3>2. /\ req'[r] = Idle
          /\ \A p \in Requests \ {r} : req'[p].pc = req[p].pc /\ Follows(req'[p], req[p])
      BY <1>1, <1>2, OntoMoves
    <3>3. AloneIn(s)'
      BY <1>1, <1>2, <3>2, IdleType DEF Store, AloneIn, Busy, Follows
    <3>4. AheadIn(s)'
      BY <1>1, <1>2, <3>2, IdleType DEF Store, AheadIn, Follows
    <3>5. RevIn(s)' /\ SafeIn(s)'
      BY <1>1, <1>2, <3>1 DEF Store, RevIn, SafeIn, Orderly, Due, Kept, Live
    <3>6. LiveIn(s)'
      BY <1>1, <1>2, <3>1, <3>2 DEF Store, LiveIn, Orderly, Exists, Live, InGap, Follows
    <3> QED
      BY <2>1, <3>3, <3>4, <3>5, <3>6 DEF Store
  <2> QED
    BY <2>2, <2>3
<1> QED
  BY <1>2, <1>3, <1>4, <1>5, WriteKeeps

LEMMA WriteAgentInv ==
  ASSUME IInv, NEW r \in Requests, WriteAgent(r)
  PROVE  IInv'
<1> PICK s \in Stores : s = req[r].store
  BY Parts DEF TypeOK, ReqStates
<1> PICK pc \in {"idle", "app"} : Onto(r, pc) /\ (pc = "app" <=> req[r].op = "promote")
  BY DEF WriteAgent
<1> DEFINE q == req[r]
<1>1. TypeOK /\ Request(q) /\ q \in ReqStates /\ Store(s) /\ Busy(r)
  BY Parts DEF EachRequest, TypeOK, EachStore, WriteAgent, Busy
<1>2. /\ q.pc = "agent" /\ agent' = [agent EXCEPT ![s] = q.mind]
      /\ UNCHANGED <<version, spec, armed, revs, crowded, torn>>
  BY DEF WriteAgent, Onto
<1>3. q.mind # 0 /\ q.mind \in Texts /\ q.op # "switch"
  BY <1>1, <1>2 DEF Request, Kind, ReqStates
<1>4. /\ version' \in [Stores -> 0..MaxVersion] /\ spec' \in [Stores -> Texts]
      /\ agent' \in [Stores -> Texts] /\ armed' \in [Stores -> SUBSET Triggers]
      /\ agent'[s] = q.mind /\ \A t \in Stores \ {s} : agent'[t] = agent[t]
  BY <1>1, <1>2, <1>3 DEF TypeOK
<1>5. /\ \A v \in Versions :
            released'[s][v] = IF pc = "idle" /\ v = version[s] THEN Written(s) ELSE released[s][v]
      /\ Written(s) \in Pairs
  <2>1. Written(s) \in Pairs
    BY <1>4 DEF Written, Pairs
  <2> QED
    BY <1>1, <1>2, <1>3, <2>1, ReleaseMoves
<1>6. /\ pc = "idle" => req'[r] = Idle
      /\ pc = "app" => req'[r].pc = "app" /\ Follows(req'[r], q)
  BY <1>1, OntoMoves
<1>7. HeldIn(s)'
  BY <1>1, <1>2 DEF Store, HeldIn, Exists
<1>8. ASSUME s \notin crowded PROVE AloneIn(s)' /\ AheadIn(s)'
  <2>1. \A p \in Requests \ {r} : req'[p].pc # "idle" => req'[p].store # s
    BY <1>1, <1>8, NobodyElse
  <2>2. AloneIn(s)'
    BY <2>1 DEF AloneIn, Busy
  <2>3. \A p \in Requests : req'[p].pc = "agent" => req'[p].store # s
    BY <1>6, <2>1, IdleType
  <2>4. ASSUME NEW v \in Versions, v > version[s] PROVE released'[s][v] = released[s][v]
    <3>1. version[s] \in Int /\ v \in Int
      BY <1>1 DEF TypeOK, Versions
    <3>2. v # version[s]
      BY <2>4, <3>1
    <3> QED
      BY <1>5, <3>2
  <2> QED
    BY <1>1, <1>2, <1>8, <2>2, <2>3, <2>4 DEF Store, AheadIn
<1>9. ASSUME pc = "app" PROVE Request(req[r])'
  <2>1. q.op = "promote" /\ s = "prod" /\ req'[r].pc = "app" /\ Follows(req'[r], q)
    BY <1>1, <1>2, <1>6, <1>9 DEF Request, Kind
  <2>2. Kind(req[r])' /\ HasText(req[r])' /\ Restores(req[r])'
    BY <1>1, <1>2, <2>1 DEF Request, Kind, HasText, Restores, Follows
  <2>3. Ships(req[r])'
    BY <1>1, <1>2, <1>4, <2>1 DEF Request, Ships, Follows, Stores
  <2>4. req'[r].store \notin crowded => Current(req[r])'
    BY <1>1, <1>2, <2>1 DEF Request, Current, Follows
  <2>5. Filed(req[r])' /\ s \notin crowded => revs[s][req'[r].base] # Nothing
    BY <1>1, <1>2, <2>1 DEF Request, Filed, Follows
  <2>6. agent'["prod"] = req'[r].mind
    BY <1>4, <2>1 DEF Follows
  <2> QED
    BY <1>2, <2>1, <2>2, <2>3, <2>4, <2>5, <2>6 DEF Request, Follows
<1>10. CASE s \in crowded
  <2>1. Store(s)'
    BY <1>2, <1>7, <1>10 DEF Store, AloneIn, AheadIn, RevIn, LiveIn, SafeIn, Orderly
  <2> QED
    BY <1>2, <1>4, <1>9, <2>1, WriteKeeps
<1>11. CASE pc = "idle" /\ s \notin crowded
  <2>1. q.op # "promote"
    BY <1>11
  <2>2. version[s] = q.base + 1 /\ version[s] \in Versions
    BY <1>1, <1>2, <1>11, <2>1, SpecVersionsConstants
       DEF Request, Current, ReqStates, TypeOK, Versions
  <2>3. revs[s][version[s]] = Nothing /\ released[s][version[s]] = Nothing
    BY <1>1, <1>2, <1>11, <2>1, <2>2 DEF Store, AheadIn
  <2>4. RevIn(s)'
    BY <1>1, <1>2, <1>5, <2>3 DEF Store, RevIn, Orderly
  <2>5. LiveIn(s)'
    BY <1>2, <1>5, <1>11, <2>2 DEF LiveIn, Live, Written
  <2>6. SafeIn(s)'
    BY <1>1, <1>2, <1>5, <1>11 DEF Store, SafeIn, Orderly, Due, Kept, Live, Written
  <2>7. Store(s)'
    BY <1>7, <1>8, <1>11, <2>4, <2>5, <2>6 DEF Store
  <2> QED
    BY <1>2, <1>4, <1>11, <2>7, WriteKeeps
<1>12. CASE pc = "app" /\ s \notin crowded
  <2>1. q.op = "promote" /\ s = "prod"
    BY <1>1, <1>2, <1>12 DEF Request, Kind
  <2>2. q.base = version[s] /\ (q.base > 0 => revs[s][q.base] # Nothing)
    BY <1>1, <1>2, <1>12, <2>1 DEF Request, Current, Filed
  <2>3. released'[s] = released[s]
    BY <1>12 DEF Onto
  <2>4. RevIn(s)'
    BY <1>1, <1>2, <2>3 DEF Store, RevIn, Orderly
  <2>5. LiveIn(s)'
    <3>1. InGap(req[r])'
      BY <1>3, <1>6, <1>12, <2>1 DEF InGap, Follows
    <3> QED
      BY <2>1, <3>1 DEF LiveIn
  <2>6. SafeIn(s)'
    <3> SUFFICES ASSUME Orderly(s), NEW v \in Versions, released[s][v] # Nothing, Due(s, v)
                 PROVE  revs[s][v] = released[s][v]
      BY <1>2, <2>3 DEF SafeIn, Orderly, Due, Kept
    <3>1. revs[s][v] = released[s][v] \/ v = version[s]
      BY <1>1 DEF Store, SafeIn
    <3>2. CASE v = version[s]
      BY <1>1, <2>2, <3>2, SpecVersionsConstants DEF Store, RevIn, Versions
    <3> QED
      BY <3>1, <3>2
  <2>7. Store(s)'
    BY <1>7, <1>8, <1>12, <2>4, <2>5, <2>6 DEF Store
  <2> QED
    BY <1>2, <1>4, <1>9, <2>7, WriteKeeps
<1> QED
  BY <1>10, <1>11, <1>12

-----------------------------------------------------------------------------
(* The invariant.                                                          *)

LEMMA InitInv == Init => IInv
<1> SUFFICES ASSUME Init PROVE IInv
  OBVIOUS
<1>1. /\ 0 \in 0..MaxVersion /\ 0 \in Texts /\ 0 \in 0..MaxFaults /\ Nothing \in Pairs
  BY SpecVersionsConstants DEF Texts, Pairs, Nothing
<1>2. TypeOK
  BY <1>1, IdleType DEF Init, TypeOK
<1>3. EachRequest
  BY IdleType DEF Init, EachRequest, Request, Filed, InGap
<1>4. EachStore
  BY IdleType DEF Init, EachStore, Store, AloneIn, HeldIn, AheadIn, RevIn, LiveIn, SafeIn,
     Exists, Busy
<1> QED
  BY <1>2, <1>3, <1>4, Parts

LEMMA NextInv == IInv /\ [Next]_vars => IInv'
<1> SUFFICES ASSUME IInv, [Next]_vars PROVE IInv'
  OBVIOUS
<1>1. CASE UNCHANGED vars
  BY <1>1 DEF vars, docs, IInv, TypeOK, AloneInv, CurrentInv, Current, KindInv, TextInv, HasText,
     AheadInv, FiledInv, Filed, RevInv, LiveInv, RestoreInv, Restores, FreshInv, Ships, InGap,
     NoReleaseLost, Due, Kept, Live, Orderly, Exists, Busy
<1>2. CASE Next
  <2> PICK r \in Requests :
        \/ Publish(r) \/ Promote(r)
        \/ \E s \in Stores : Edit(r, s) \/ Confirm(r, s) \/ Rollback(r, s) \/ Switch(r, s)
        \/ Proceed(r) \/ Refuse(r) \/ Die(r)
    BY <1>2 DEF Next
  <2>1. CASE Publish(r) \/ Promote(r)
    BY <2>1, PublishInv, PromoteInv
  <2>2. ASSUME NEW s \in Stores, Edit(r, s) \/ Confirm(r, s) \/ Rollback(r, s) \/ Switch(r, s)
        PROVE  IInv'
    BY <2>2, EditInv, ConfirmInv, RollbackInv, SwitchInv
  <2>3. CASE Proceed(r)
    BY <2>3, FindInv, MeetInv, SnapInv, KeepRevInv, TrimInv, CopyInv, WriteAppInv, StampInv,
       SetSpecInv, WriteAgentInv DEF Proceed
  <2>4. CASE Refuse(r) \/ Die(r)
    BY <2>4, RefuseInv, DieInv
  <2> QED
    BY <2>1, <2>2, <2>3, <2>4
<1> QED
  BY <1>1, <1>2

\* What orders the requests, the documents and the history of both stores.
THEOREM Invariant == Spec => []IInv
BY InitInv, NextInv, PTL DEF Spec

\* The variables keep their types.
THEOREM TypeCorrect == Spec => []TypeOK
<1>1. IInv => TypeOK
  BY DEF IInv
<1> QED
  BY <1>1, Invariant, PTL

\* Wherever a request dies, a released version is live or can be restored until it is
\* trimmed, in a store whose requests take turns and in which no promote was torn.
THEOREM ReleasesKept == Spec => []NoReleaseLost
<1>1. IInv => NoReleaseLost
  BY DEF IInv
<1> QED
  BY <1>1, Invariant, PTL

-----------------------------------------------------------------------------
(* What a request that ends has written.                                   *)

\* Only a write ends a request that was about to write.
LEMMA WhoEnds ==
  ASSUME IInv, Next, NEW r \in Requests, Ends(r)
  PROVE  WriteApp(r) \/ Stamp(r) \/ SetSpec(r) \/ WriteAgent(r)
<1> PICK p \in Requests :
      \/ Publish(p) \/ Promote(p)
      \/ \E s \in Stores : Edit(p, s) \/ Confirm(p, s) \/ Rollback(p, s) \/ Switch(p, s)
      \/ Proceed(p) \/ Refuse(p) \/ Die(p)
  BY DEF Next
<1>1. TypeOK
  BY Parts
<1>2. ~ (\E f : req' = [req EXCEPT ![p] = f] /\ (p = r => req[r].pc \notin {"app", "agent"}))
  BY <1>1 DEF Ends, Busy, TypeOK
<1>3. ASSUME NEW s, NEW f PROVE ~ Begin(p, s, f)
  BY <1>2 DEF Begin, Busy
<1>4. ~ (Publish(p) \/ Promote(p))
  BY <1>3 DEF Publish, Promote
<1>5. ~ \E s \in Stores : Edit(p, s) \/ Confirm(p, s) \/ Rollback(p, s) \/ Switch(p, s)
  BY <1>3 DEF Edit, Confirm, Rollback, Switch
<1>6. ~ (Find(p) \/ Meet(p) \/ Snap(p) \/ KeepRev(p) \/ Trim(p) \/ Copy(p) \/ Refuse(p))
  BY <1>2 DEF Find, Meet, Snap, KeepRev, Trim, Copy, Refuse, Step
<1>7. ~ Die(p)
  BY <1>1 DEF Die, Ends, TypeOK
<1>8. WriteApp(p) \/ Stamp(p) \/ SetSpec(p) \/ WriteAgent(p)
  BY <1>4, <1>5, <1>6, <1>7 DEF Proceed
<1>9. \E pc \in {"idle", "agent", "app"} : Onto(p, pc)
  BY <1>8 DEF WriteApp, Stamp, SetSpec, WriteAgent
<1>10. p = r
  BY <1>1, <1>9, OntoMoves DEF Ends, Busy
<1> QED
  BY <1>8, <1>10

\* A rollback that ends has restored the release it was asked for, app and agent.
THEOREM Restored == Spec => RollbackRestores
<1> DEFINE Right(r) ==
      LET s == req[r].store
          was == released[s][req[r].target]
      IN  req[r].op = "rollback" /\ Ends(r) /\ Orderly(s) /\ was.agent # 0 => Written(s) = was
<1>1. ASSUME IInv, [Next]_vars, NEW r \in Requests PROVE Right(r)
  <2> SUFFICES ASSUME req[r].op = "rollback", Ends(r), Orderly(req[r].store),
                      released[req[r].store][req[r].target].agent # 0
               PROVE  Written(req[r].store) = released[req[r].store][req[r].target]
    OBVIOUS
  <2> DEFINE q == req[r]
  <2>1. TypeOK /\ Request(q) /\ q \in ReqStates /\ q.store \in Stores /\ Busy(r) /\ ~ Busy(r)'
    BY <1>1, Parts DEF EachRequest, TypeOK, ReqStates, Ends, Busy
  <2>2. Next
    BY <1>1, <2>1 DEF vars, Busy
  <2>3. released[q.store][q.target] = [spec |-> q.text, agent |-> q.mind] /\ q.mind # 0
    BY <2>1 DEF Request, Restores, Ends
  <2>4. CASE WriteApp(r)
    <3>1. Onto(r, "agent")
      BY <2>3, <2>4 DEF WriteApp, AgentFollows
    <3>2. req'[r].pc = "agent"
      BY <2>1, <3>1, OntoMoves
    <3> QED
      BY <2>1, <3>2 DEF Busy
  <2>5. CASE WriteAgent(r)
    <3>1. q.text = spec[q.store]
      BY <2>1, <2>5 DEF WriteAgent, Request, Current, Orderly
    <3>2. spec'[q.store] = spec[q.store] /\ agent'[q.store] = q.mind
      BY <2>1, <2>5 DEF WriteAgent, TypeOK
    <3> QED
      BY <2>3, <3>1, <3>2 DEF Written
  <2> QED
    BY <1>1, <2>2, <2>4, <2>5, WhoEnds DEF Stamp, SetSpec
<1>2. IInv /\ [Next]_vars => \A r \in Requests : Right(r)
  BY <1>1
<1> QED
  BY <1>2, Invariant, PTL DEF Spec, RollbackRestores

\* What a promote ships was in test together when it ended.
THEOREM Shipped == Spec => ShipsWhatIsInTest
<1> DEFINE Right(r) ==
      req[r].op = "promote" /\ Ends(r) /\ req[r].fresh /\ "prod" \notin crowded
         /\ agent["test"] # 0 => Written("prod") = Live("test")
<1>1. ASSUME IInv, [Next]_vars, NEW r \in Requests PROVE Right(r)
  <2> SUFFICES ASSUME req[r].op = "promote", Ends(r), req[r].fresh, "prod" \notin crowded,
                      agent["test"] # 0
               PROVE  Written("prod") = Live("test")
    OBVIOUS
  <2> DEFINE q == req[r]
  <2>1. TypeOK /\ Request(q) /\ q \in ReqStates /\ Busy(r) /\ ~ Busy(r)' /\ "prod" \in Stores
    BY <1>1, Parts DEF EachRequest, TypeOK, Ends, Busy, Stores
  <2>2. Next
    BY <1>1, <2>1 DEF vars, Busy
  <2>3. /\ q.text = spec["test"] /\ q.mind = agent["test"] /\ q.store = "prod"
        /\ q.pc = "app" => agent["prod"] = q.mind
    BY <2>1 DEF Request, Ships, Ends, Kind, Busy, InGap
  <2>4. CASE WriteApp(r)
    <3>1. q.pc = "app" /\ spec'["prod"] = q.text /\ agent'["prod"] = agent["prod"]
      BY <2>1, <2>3, <2>4 DEF WriteApp, TypeOK
    <3> QED
      BY <2>3, <3>1 DEF Written, Live
  <2>5. CASE WriteAgent(r)
    <3>1. Onto(r, "app")
      BY <2>5 DEF WriteAgent
    <3>2. req'[r].pc = "app"
      BY <2>1, <3>1, OntoMoves
    <3> QED
      BY <2>1, <3>2 DEF Busy
  <2> QED
    BY <1>1, <2>2, <2>4, <2>5, WhoEnds DEF Stamp, SetSpec
<1>2. IInv /\ [Next]_vars => \A r \in Requests : Right(r)
  BY <1>1
<1> QED
  BY <1>2, Invariant, PTL DEF Spec, ShipsWhatIsInTest

\* No trigger is enabled but by the request of a person who asked for it.
THEOREM Armed == Spec => ArmedByHand
<1> DEFINE Right(s) ==
      \A t \in armed'[s] \ armed[s] :
         \E r \in Requests :
            /\ req[r].pc = "app" /\ req[r].op \in {"edit", "switch"}
            /\ req[r].store = s /\ t \in req[r].asked
<1>1. ASSUME IInv, [Next]_vars, NEW s \in Stores \ crowded PROVE Right(s)
  <2> SUFFICES ASSUME NEW t \in armed'[s] \ armed[s]
               PROVE  \E r \in Requests :
                         /\ req[r].pc = "app" /\ req[r].op \in {"edit", "switch"}
                         /\ req[r].store = s /\ t \in req[r].asked
    OBVIOUS
  <2>1. TypeOK /\ EachRequest
    BY <1>1, Parts
  <2>2. armed' # armed
    OBVIOUS
  <2>3. PICK r \in Requests : WriteApp(r) \/ SetSpec(r)
    <3> PICK r \in Requests :
          \/ Publish(r) \/ Promote(r)
          \/ \E z \in Stores : Edit(r, z) \/ Confirm(r, z) \/ Rollback(r, z) \/ Switch(r, z)
          \/ Proceed(r) \/ Refuse(r) \/ Die(r)
      BY <1>1, <2>2 DEF Next, vars, docs
    <3>1. ASSUME NEW z, NEW f PROVE ~ Begin(r, z, f)
      BY <2>2 DEF Begin, docs
    <3>2. ~ (Publish(r) \/ Promote(r)) /\ ~ Die(r)
      BY <2>2, <3>1 DEF Publish, Promote, Die, docs
    <3>3. ~ \E z \in Stores : Edit(r, z) \/ Confirm(r, z) \/ Rollback(r, z) \/ Switch(r, z)
      BY <3>1 DEF Edit, Confirm, Rollback, Switch
    <3>4. ~ (Find(r) \/ Meet(r) \/ Snap(r) \/ KeepRev(r) \/ Trim(r) \/ Copy(r))
      BY <2>2 DEF Find, Meet, Snap, KeepRev, Trim, Copy, Still, docs
    <3>5. ~ (Stamp(r) \/ WriteAgent(r) \/ Refuse(r))
      BY <2>2 DEF Stamp, WriteAgent, Refuse, Still, docs
    <3> QED
      BY <3>2, <3>3, <3>4, <3>5 DEF Proceed
  <2>4. /\ req[r].pc = "app" /\ armed' = [armed EXCEPT ![req[r].store] = req[r].armed]
        /\ WriteApp(r) => req[r].op \in {"publish", "edit", "rollback", "promote"}
        /\ SetSpec(r) => req[r].op = "switch"
    BY <2>3 DEF WriteApp, SetSpec
  <2>5. req[r].store = s /\ t \in req[r].armed
    BY <2>1, <2>4 DEF TypeOK
  <2>6. Request(req[r])
    BY <2>1 DEF EachRequest
  <2>7. CASE WriteApp(r)
    <3>1. req[r].op = "edit" /\ req[r].armed = req[r].asked
      BY <2>4, <2>5, <2>6, <2>7 DEF Request, Kind
    <3> QED
      BY <2>4, <2>5, <3>1
  <2>8. CASE SetSpec(r)
    <3>1. req[r].armed \subseteq armed[s] \cup req[r].asked
      BY <2>4, <2>5, <2>6, <2>8 DEF Request, Current
    <3> QED
      BY <2>4, <2>5, <2>8, <3>1
  <2> QED
    BY <2>3, <2>7, <2>8
<1>2. IInv /\ [Next]_vars => \A s \in Stores \ crowded : Right(s)
  BY <1>1
<1> QED
  BY <1>2, Invariant, PTL DEF Spec, ArmedByHand
=============================================================================
