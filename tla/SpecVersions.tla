------------------------------ MODULE SpecVersions ------------------------------
(***************************************************************************)
(* The life of one app's specification in the Smart App Service (main.py):  *)
(* publishing, editing, confirming, promoting from test to production,      *)
(* rolling back to a kept version, and switching its triggers.              *)
(*                                                                         *)
(* The specification is in two documents, the app's and its agent's, and    *)
(* each store, test and prod, has a pair of them and a history of snapshots *)
(* (_snapshot_prior_version).  A request is a sequence of single reads and  *)
(* writes.  A text is abstracted to the number of the request that wrote    *)
(* it, 0 is none; of the triggers, what is kept is which are enabled.       *)
(***************************************************************************)
EXTENDS Integers, FiniteSets

CONSTANTS
    Requests,     \* slots for requests in progress
    Triggers,
    MayOverlap,   \* stores on which a request may begin while another is in progress
    Keep,         \* max(1, max_spec_versions)
    MaxVersion,   \* bound on the versions of a store
    MaxShipped,   \* bound on those of prod, where it is lower
    MaxTexts,     \* bound on what is written
    MaxFaults     \* bound on requests that die half-way

Stores == {"test", "prod"}

ASSUME SpecVersionsConstants ==
    /\ MayOverlap \subseteq Stores
    /\ Keep \in Nat \ {0} /\ MaxVersion \in Nat /\ MaxShipped \in Nat
    /\ MaxTexts \in Nat /\ MaxFaults \in Nat

VARIABLES
    version, spec, armed,  \* of the app document of each store, version 0: no app
    agent,     \* the agent document of each store
    revs,      \* smartapp_spec_versions: [spec, agent] by version
    req,       \* the requests
    texts, faults,
    released,  \* history: what each version was when the request that made it ended
    crowded,   \* history: the stores on which two requests have overlapped
    torn       \* history: the stores on which a promote died between agent and app

docs == <<version, spec, armed, agent, revs>>
vars == <<docs, req, texts, faults, released, crowded, torn>>

Texts == 0..MaxTexts
Versions == 1..MaxVersion
Pairs == [spec : Texts, agent : Texts]
Nothing == [spec |-> 0, agent |-> 0]

Idle == [op |-> "none", pc |-> "idle", store |-> "test", base |-> 0, read |-> 0,
         text |-> 0, mind |-> 0, armed |-> {}, asked |-> {}, old |-> 0, target |-> 0,
         fresh |-> FALSE]

\* base and read: version and text of the app document as it was read; text, mind
\* and armed: what is to be written of app, agent and triggers; asked: the triggers
\* a person asked to enable; old: the agent as the snapshot read it; target: the
\* version to roll back to; fresh (history): test is as the promote read it.
ReqStates ==
    [op : {"none", "publish", "edit", "confirm", "rollback", "promote", "switch"},
     pc : {"idle", "find", "meet", "snap", "keep", "trim", "copy", "app", "agent"},
     store : Stores, base : 0..MaxVersion, read : Texts, text : Texts, mind : Texts,
     armed : SUBSET Triggers, asked : SUBSET Triggers, old : Texts,
     target : 0..MaxVersion, fresh : BOOLEAN]

TypeOK ==
    /\ version \in [Stores -> 0..MaxVersion]
    /\ spec \in [Stores -> Texts] /\ agent \in [Stores -> Texts]
    /\ armed \in [Stores -> SUBSET Triggers]
    /\ revs \in [Stores -> [Versions -> Pairs]]
    /\ req \in [Requests -> ReqStates]
    /\ texts \in Texts /\ faults \in 0..MaxFaults
    /\ released \in [Stores -> [Versions -> Pairs]]
    /\ crowded \subseteq Stores /\ torn \subseteq Stores

Init ==
    /\ version = [s \in Stores |-> 0]
    /\ spec = [s \in Stores |-> 0] /\ agent = [s \in Stores |-> 0]
    /\ armed = [s \in Stores |-> {}]
    /\ revs = [s \in Stores |-> [v \in Versions |-> Nothing]]
    /\ req = [r \in Requests |-> Idle]
    /\ texts = 0 /\ faults = 0
    /\ released = [s \in Stores |-> [v \in Versions |-> Nothing]]
    /\ crowded = {} /\ torn = {}

Live(s) == [spec |-> spec[s], agent |-> agent[s]]
Written(s) == [spec |-> spec'[s], agent |-> agent'[s]]
Busy(r) == req[r].pc # "idle"
Taken(s) == \E r \in Requests : Busy(r) /\ req[r].store = s

-----------------------------------------------------------------------------
(* A request begins: it reads the app document of the store it will write.  *)

Begin(r, s, fields) ==
    /\ ~ Busy(r)
    /\ req' = [req EXCEPT ![r] = fields]
    /\ \/ s \in MayOverlap /\ Taken(s) /\ crowded' = crowded \cup {s}
       \/ ~ Taken(s) /\ UNCHANGED crowded
    /\ UNCHANGED <<docs, faults, released, torn>>

Read(op, pc, s) ==
    [Idle EXCEPT !.op = op, !.pc = pc, !.store = s, !.base = version[s], !.read = spec[s]]

Exists(s) == version[s] > 0
Room(s) == version[s] < MaxVersion /\ (s = "prod" => version[s] < MaxShipped)
Writable(s) == Exists(s) /\ Room(s)

\* publish_app, which builds into test.  Its triggers arrive disabled.
Publish(r) ==
    /\ texts < MaxTexts /\ Room("test")
    /\ texts' = texts + 1
    /\ Begin(r, "test", [Read("publish", IF Exists("test") THEN "snap" ELSE "app", "test")
                           EXCEPT !.text = texts + 1, !.mind = texts + 1])

\* save_app_spec: the app's text, with or without the agent's, as the editor sent it.
Edit(r, s) ==
    /\ texts < MaxTexts /\ Writable(s)
    /\ texts' = texts + 1
    /\ \E mind \in {0, texts + 1}, on \in SUBSET Triggers :
          Begin(r, s, [Read("edit", "snap", s) EXCEPT
                         !.text = texts + 1, !.mind = mind, !.armed = on, !.asked = on])

\* confirm_case_signature: a stamp on the text, which is a version of its own.
Confirm(r, s) ==
    /\ Writable(s)
    /\ Begin(r, s, Read("confirm", "snap", s))
    /\ UNCHANGED texts

\* rollback_app_version, to any version but the live one.
Rollback(r, s) ==
    /\ Writable(s)
    /\ \E v \in Versions \ {version[s]} :
          Begin(r, s, [Read("rollback", "find", s) EXCEPT !.target = v])
    /\ UNCHANGED texts

\* Mutant: the triggers are copied as they are.
PromoteArmed(r) ==
    /\ Exists("test")
    /\ Begin(r, "prod", [Idle EXCEPT !.op = "promote", !.pc = "meet", !.store = "prod",
                            !.text = spec["test"], !.armed = armed["test"], !.fresh = TRUE])
    /\ UNCHANGED texts

\* promote_to_prod: what it reads first is the app in test.  Triggers are disabled.
Promote(r) ==
    /\ Exists("test")
    /\ Begin(r, "prod", [Idle EXCEPT !.op = "promote", !.pc = "meet", !.store = "prod",
                            !.text = spec["test"], !.fresh = TRUE])
    /\ UNCHANGED texts

\* update_ai_trigger: one trigger is enabled, disabled or retuned in the document
\* that was read, all of which is written back.
Switch(r, s) ==
    /\ Exists(s)
    /\ \E t \in Triggers :
          \/ Begin(r, s, [Read("switch", "app", s) EXCEPT
                            !.text = spec[s], !.armed = armed[s] \cup {t}, !.asked = {t}])
          \/ \E on \in {armed[s], armed[s] \ {t}} :
                Begin(r, s, [Read("switch", "app", s) EXCEPT !.text = spec[s], !.armed = on])
    /\ UNCHANGED texts

-----------------------------------------------------------------------------
(* The steps of a request.                                                  *)

Step(r, pc, q) ==
    /\ req[r].pc = pc
    /\ req' = [req EXCEPT ![r] = q]
    /\ UNCHANGED <<texts, faults, crowded, torn>>

Still == UNCHANGED <<docs, released>>

\* A rollback reads its target; without it, it is refused.
Find(r) ==
    /\ req[r].pc = "find"
    /\ LET rev == revs[req[r].store][req[r].target]
       IN  /\ rev # Nothing
           /\ Step(r, "find", [req[r] EXCEPT !.pc = "snap", !.text = rev.spec, !.mind = rev.agent])
    /\ Still

\* A promote reads the app it replaces, if there is one.
Meet(r) ==
    /\ Room("prod")
    /\ Step(r, "meet", [req[r] EXCEPT !.pc = IF Exists("prod") THEN "snap" ELSE "copy",
                                     !.base = version["prod"], !.read = spec["prod"]])
    /\ Still

\* _snapshot_prior_version reads the agent ...
Snap(r) ==
    /\ Step(r, "snap", [req[r] EXCEPT !.pc = "keep", !.old = agent[req[r].store]])
    /\ Still

\* Mutant: the snapshot is filed under the version to come.
KeepAhead(r) ==
    LET q == req[r]
    IN  /\ Step(r, "keep", [q EXCEPT !.pc = "trim", !.read = 0, !.old = 0])
        /\ revs' = [revs EXCEPT ![q.store][q.base + 1] = [spec |-> q.read, agent |-> q.old]]
        /\ UNCHANGED <<version, spec, armed, agent, released>>

\* ... files it with the app as it was read, over an older snapshot of the version,
KeepRev(r) ==
    LET q == req[r]
    IN  /\ Step(r, "keep", [q EXCEPT !.pc = "trim", !.read = 0, !.old = 0])
        /\ revs' = [revs EXCEPT ![q.store][q.base] = [spec |-> q.read, agent |-> q.old]]
        /\ UNCHANGED <<version, spec, armed, agent, released>>

Kept(s) == {v \in Versions : revs[s][v] # Nothing}

\* Mutant: one version too few.
SpareFew(s, v) == Cardinality({w \in Kept(s) : w >= v}) < Keep

\* Among the Keep highest.
Spare(s, v) == Cardinality({w \in Kept(s) : w >= v}) <= Keep

\* ... and trims the history.
Trim(r) ==
    LET s == req[r].store
    IN  /\ Step(r, "trim", [req[r] EXCEPT !.pc = IF req[r].op = "promote" THEN "copy" ELSE "app"])
        /\ revs' = [revs EXCEPT ![s] =
                       [v \in Versions |-> IF Spare(s, v) THEN revs[s][v] ELSE Nothing]]
        /\ UNCHANGED <<version, spec, armed, agent, released>>

\* Mutant: an agent that production has already is not copied again.
CopyOnce(r) ==
    /\ Step(r, "copy", [req[r] EXCEPT !.mind = agent["test"],
                          !.pc = IF agent["test"] = 0 \/ agent["prod"] # 0
                                 THEN "app" ELSE "agent"])
    /\ Still

\* A promote reads the agent in test; without one it ships the app alone.
Copy(r) ==
    /\ Step(r, "copy", [req[r] EXCEPT !.mind = agent["test"],
                          !.pc = IF agent["test"] = 0 THEN "app" ELSE "agent"])
    /\ Still

\* Request r has written, and goes on to pc; whoever promotes has read an old test app.
Onto(r, pc) ==
    /\ req' = [q \in Requests |->
                  CASE q = r -> IF pc = "idle" THEN Idle ELSE [req[r] EXCEPT !.pc = pc]
                    [] q # r /\ req[r].store = "test" -> [req[q] EXCEPT !.fresh = FALSE]
                    [] OTHER -> req[q]]
    /\ released' = IF pc = "idle" /\ req[r].op # "switch"
                   THEN [released EXCEPT ![req[r].store][version'[req[r].store]] =
                                            Written(req[r].store)]
                   ELSE released
    /\ UNCHANGED <<revs, texts, faults, crowded, torn>>

AgentFollows(r) == req[r].op # "promote" /\ req[r].mind # 0

\* The whole app document is replaced.
WriteApp(r) ==
    LET q == req[r]
    IN  /\ q.pc = "app" /\ q.op \in {"publish", "edit", "rollback", "promote"}
        /\ version' = [version EXCEPT ![q.store] = q.base + 1]
        /\ spec' = [spec EXCEPT ![q.store] = q.text]
        /\ armed' = [armed EXCEPT ![q.store] = q.armed]
        /\ UNCHANGED agent
        /\ Onto(r, IF AgentFollows(r) THEN "agent" ELSE "idle")

\* A confirmation sets its fields in the document as it is now.
Stamp(r) ==
    LET q == req[r]
    IN  /\ q.pc = "app" /\ q.op = "confirm"
        /\ version' = [version EXCEPT ![q.store] = q.base + 1]
        /\ UNCHANGED <<spec, armed, agent>>
        /\ Onto(r, "idle")

\* A switch sets all of app_spec, and no version.
SetSpec(r) ==
    LET q == req[r]
    IN  /\ q.pc = "app" /\ q.op = "switch"
        /\ spec' = [spec EXCEPT ![q.store] = q.text]
        /\ armed' = [armed EXCEPT ![q.store] = q.armed]
        /\ UNCHANGED <<version, agent>>
        /\ Onto(r, "idle")

\* Mutant: a rollback leaves the agent as it is.
WriteAgentNew(r) ==
    LET q == req[r]
    IN  /\ q.pc = "agent"
        /\ agent' = IF q.op = "rollback" THEN agent ELSE [agent EXCEPT ![q.store] = q.mind]
        /\ UNCHANGED <<version, spec, armed>>
        /\ Onto(r, IF q.op = "promote" THEN "app" ELSE "idle")

\* A promote writes the agent before the app, everyone else after it.
WriteAgent(r) ==
    LET q == req[r]
    IN  /\ q.pc = "agent"
        /\ agent' = [agent EXCEPT ![q.store] = q.mind]
        /\ UNCHANGED <<version, spec, armed>>
        /\ Onto(r, IF q.op = "promote" THEN "app" ELSE "idle")

\* What is invalid by now is refused before anything is written.
Refuse(r) ==
    /\ req[r].pc \in {"find", "meet", "snap"}
    /\ Step(r, req[r].pc, Idle)
    /\ Still

\* A crash, or a store that fails: what is written stays.
Die(r) ==
    /\ req[r].pc \in {"keep", "trim", "copy", "app", "agent"} /\ faults < MaxFaults
    /\ faults' = faults + 1
    /\ req' = [req EXCEPT ![r] = Idle]
    /\ torn' = IF req[r].op = "promote" /\ req[r].pc = "app" THEN torn \cup {"prod"} ELSE torn
    /\ UNCHANGED <<docs, texts, released, crowded>>

Proceed(r) ==
    \/ Find(r) \/ Meet(r) \/ Snap(r) \/ KeepRev(r) \/ Trim(r) \/ Copy(r)
    \/ WriteApp(r) \/ Stamp(r) \/ SetSpec(r) \/ WriteAgent(r)

Next ==
    \E r \in Requests :
       \/ Publish(r) \/ Promote(r)
       \/ \E s \in Stores : Edit(r, s) \/ Confirm(r, s) \/ Rollback(r, s) \/ Switch(r, s)
       \/ Proceed(r) \/ Refuse(r) \/ Die(r)

Spec == Init /\ [][Next]_vars

-----------------------------------------------------------------------------
(* Properties.                                                             *)

\* A store in which requests took turns and no promote died in its gap.
Orderly(s) == s \notin crowded \cup torn

\* The versions that must not be lost: the live one and the Keep before it, less
\* one while the history holds a snapshot of the live one.
Due(s, v) ==
    v + Keep >= version[s] + (IF \E w \in Kept(s) : w = version[s] THEN 1 ELSE 0)

\* What was released as a version is live or can be restored, app and agent
\* together, until it is trimmed, wherever a request dies: "we never silently
\* overwrite a version we failed to preserve".
NoReleaseLost ==
    \A s \in Stores : Orderly(s) =>
       \A v \in Versions : released[s][v] # Nothing /\ Due(s, v) =>
          \/ revs[s][v] = released[s][v]
          \/ v = version[s] /\ Live(s) = released[s][v]

\* Request r writes its last document.
Ends(r) == req[r].pc \in {"app", "agent"} /\ ~ Busy(r)' /\ faults' = faults

\* A rollback restores what the version was when it was released, app and agent,
\* even if its own snapshot pushed the version out of the history.
RollbackRestores ==
    [][\A r \in Requests :
          LET s == req[r].store
              was == released[s][req[r].target]
          IN  req[r].op = "rollback" /\ Ends(r) /\ Orderly(s) /\ was.agent # 0
                 => Written(s) = was]_vars

\* What a promote ships is the app and the agent that are in test together, unless
\* test was written meanwhile.
ShipsWhatIsInTest ==
    [][\A r \in Requests :
          req[r].op = "promote" /\ Ends(r) /\ req[r].fresh /\ "prod" \notin crowded
             /\ agent["test"] # 0
             => Written("prod") = Live("test")]_vars

\* A trigger is enabled by a person who asked for that, in an edit or with the
\* switch, and never by a publish, a promote or a rollback.
ArmedByHand ==
    [][\A s \in Stores \ crowded : \A t \in armed'[s] \ armed[s] :
          \E r \in Requests :
             /\ req[r].pc = "app" /\ req[r].op \in {"edit", "switch"}
             /\ req[r].store = s /\ t \in req[r].asked]_vars

(* Why they hold.                                                          *)

\* On a store that is not crowded there is one request at a time ...
AloneInv == \A s \in Stores \ crowded : \A q, r \in Requests :
    Busy(q) /\ Busy(r) /\ req[q].store = s /\ req[r].store = s => q = r

\* ... and what it read is what is there.
Current(q) ==
    LET s == q.store
    IN  /\ q.pc # "meet" /\ ~ (q.pc = "agent" /\ q.op # "promote") => q.base = version[s]
        /\ q.pc = "agent" /\ q.op # "promote" =>
              q.base + 1 = version[s] /\ q.text = spec[s]
        /\ q.pc \in {"find", "snap", "keep"} => q.read = spec[s]
        /\ q.pc = "keep" => q.old = agent[s]
        /\ q.op = "switch" => q.text = spec[s] /\ q.armed \subseteq armed[s] \cup q.asked

CurrentInv == \A r \in Requests :
    Busy(r) /\ req[r].store \notin crowded => Current(req[r])

\* What kind of request can be where.
Kind(q) ==
    /\ q.op # "none"
    /\ q.op = "promote" => q.store = "prod"
    /\ q.op = "rollback" => q.target \in Versions
    /\ q.pc = "find" => q.op = "rollback"
    /\ q.pc \in {"meet", "copy"} => q.op = "promote"
    /\ q.pc \in {"find", "snap", "keep", "trim"} => q.base > 0
    /\ q.pc = "meet" \/ q.op = "switch" \/ q.base < MaxVersion
    /\ q.pc = "agent" => q.mind # 0
    /\ q.op \in {"publish", "rollback", "promote"} => q.armed = {}
    /\ q.op = "edit" => q.armed = q.asked
    /\ q.op = "switch" => q.pc = "app"
    /\ q.op \in {"confirm", "switch"} => q.pc # "agent"

KindInv == \A r \in Requests : Busy(r) => Kind(req[r])

\* An app that exists has a text, and so has what is written and what is kept.
HasText(q) ==
    /\ q.pc # "find" /\ q.op # "confirm" => q.text # 0
    /\ q.op = "confirm" => spec[q.store] # 0
    /\ q.pc \in {"find", "snap", "keep"} => q.read # 0

TextInv ==
    /\ \A s \in Stores : Exists(s) => spec[s] # 0
    /\ \A s \in Stores, v \in Versions : revs[s][v] # Nothing => revs[s][v].spec # 0
    /\ \A r \in Requests : Busy(r) => HasText(req[r])

\* No version is ahead of the app.
AheadInv == \A s \in Stores \ crowded : \A v \in Versions :
    /\ v > version[s] => revs[s][v] = Nothing /\ released[s][v] = Nothing
    /\ \A r \in Requests :
          req[r].pc = "agent" /\ req[r].op # "promote" /\ req[r].store = s /\ v = version[s]
             => revs[s][v] = Nothing /\ released[s][v] = Nothing

\* Once the snapshot is filed the version to be replaced is safe.
Filed(q) ==
    /\ q.pc \in {"trim", "copy", "app"} \/ (q.pc = "agent" /\ q.op = "promote")
    /\ q.op # "switch" /\ q.base > 0

FiledInv == \A r \in Requests : Filed(req[r]) /\ req[r].store \notin crowded =>
    revs[req[r].store][req[r].base] # Nothing

\* A snapshot of a release is the release.
RevInv == \A s \in Stores : Orderly(s) => \A v \in Versions :
    revs[s][v] # Nothing /\ released[s][v] # Nothing => revs[s][v] = released[s][v]

\* The released version that is live is untouched but in a promote's gap.
InGap(q) == q.op = "promote" /\ q.pc = "app" /\ q.mind # 0

LiveInv == \A s \in Stores : Orderly(s) /\ Exists(s) =>
    \/ released[s][version[s]] \in {Nothing, Live(s)}
    \/ s = "prod" /\ \E r \in Requests : InGap(req[r])

\* A rollback that found its version has the release in hand.
Restores(q) ==
    q.op = "rollback" /\ q.pc # "find" /\ Orderly(q.store)
       /\ released[q.store][q.target].agent # 0 =>
          released[q.store][q.target] = [spec |-> q.text, agent |-> q.mind]

RestoreInv == \A r \in Requests : Busy(r) => Restores(req[r])

\* A promote has test in hand while test is not written.
Ships(q) ==
    q.op = "promote" /\ q.fresh =>
       /\ q.text = spec["test"]
       /\ q.pc \in {"agent", "app"} => q.mind = agent["test"]

FreshInv == \A r \in Requests : Busy(r) =>
    /\ Ships(req[r])
    /\ InGap(req[r]) /\ "prod" \notin crowded => agent["prod"] = req[r].mind

IInv == /\ TypeOK /\ AloneInv /\ CurrentInv /\ KindInv /\ TextInv /\ AheadInv /\ FiledInv
        /\ RevInv /\ LiveInv /\ RestoreInv /\ FreshInv /\ NoReleaseLost
=============================================================================
