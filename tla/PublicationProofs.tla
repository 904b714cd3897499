------------------------- MODULE PublicationProofs --------------------------
(***************************************************************************)
(* Type correctness of Publication, what a replica serves and reports      *)
(* between reconciles, that Publication implements EcdsServing, and that a *)
(* ready replica serves what it found at startup, for any Engines,         *)
(* replicas, contents, workers and builds.                                 *)
(***************************************************************************)
EXTENDS Publication, TLAPS

\* A UID is used up by a write to the API server.
Numbered == /\ ruleset.uid <= changes + 1
            /\ \A e \in Engines : engine[e].uid <= changes + 1

Typed == PublicationTypeOK /\ Numbered

USE DEF api, cache, vars

----------------------------------------------------------------------------
\* The initial state is well typed.
LEMMA TypedInit == Init => Typed
  <1> SUFFICES ASSUME Init PROVE Typed
    OBVIOUS
  <1>0. 1 \in Builds /\ 1 \in UIDs
    BY PublicationAssumption DEF Builds, UIDs
  <1>1. ruleset \in RuleSets /\ ruleset.uid = 1
    <2>1. PICK c \in Contents : ruleset = [uid |-> 1, live |-> TRUE, gen |-> 1, content |-> c]
      BY Zenon DEF Init
    <2> QED
      BY <1>0, <2>1, Zenon DEF RuleSets
  <1>2. ASSUME NEW e \in Engines
        PROVE  engine[e] \in Objects /\ engine[e].uid = 1
               /\ (engine[e].rec # None => engine[e].rec.version \in Versions)
    <2>1. NewEngine \in Objects /\ NewEngine.uid = 1 /\ NewEngine.rec = None
      BY <1>0, Zenon DEF NewEngine, Objects
    <2>2. AcceptedEngine(ruleset.content) \in Objects /\ AcceptedEngine(ruleset.content).uid = 1
          /\ AcceptedEngine(ruleset.content).rec.version \in Versions
      BY <1>0, <1>1, Zenon DEF AcceptedEngine, Objects, Records, Versions, RuleSets
    <2> QED
      BY <2>1, <2>2, Zenon DEF Init
  <1>3. engine \in [Engines -> Objects]
    BY <1>2, Zenon DEF Init
  <1>4. log \in [Engines -> Seq(Versions \cup {None})]
    <2>1. /\ <<None>> \in Seq(Versions \cup {None})
          /\ \A v \in Versions : <<None, v>> \in Seq(Versions \cup {None})
      OBVIOUS
    <2>2. ASSUME NEW e \in Engines
          PROVE  (IF engine[e].rec = None THEN <<None>> ELSE <<None, engine[e].rec.version>>)
                    \in Seq(Versions \cup {None})
      BY <1>2, <2>1, Zenon
    <2> QED
      BY <2>2, Zenon DEF Init
  <1>5. NoState \in [fingerprint : (UIDs \X Nat) \cup {None}, version : Versions \cup {None},
                     mismatch : BOOLEAN]
    BY Zenon DEF NoState
  <1>6. NewGate \in [initialized : BOOLEAN, pending : SUBSET Engines,
                     late : BOOLEAN, expired : BOOLEAN]
    BY Zenon DEF NewGate
  <1>7. /\ build \in [Replicas -> Builds]
        /\ seen \in [Replicas -> [Engines -> Objects]]
        /\ inputs \in [Replicas -> RuleSets]
        /\ queue \in [Replicas -> SUBSET Engines]
        /\ job \in [Replicas -> [Engines -> Objects \cup {None}]]
        /\ store \in [Replicas -> [Engines -> Versions \cup {None}]]
        /\ pos \in [Replicas -> [Engines -> Nat]]
        /\ startup \in [Replicas -> [Engines -> Nat]]
    BY <1>1, <1>3, Zenon DEF Init
  <1>8. changes \in 0..MaxChanges /\ faults \in 0..MaxFaults
    BY PublicationAssumption DEF Init
  <1>9. Numbered
    BY <1>1, <1>2 DEF Init, Numbered
  <1> QED
    BY <1>1, <1>3, <1>4, <1>5, <1>6, <1>7, <1>8, <1>9, Zenon DEF Init, Typed, PublicationTypeOK

\* What the API server does keeps the types of the replicas' state.
LEMMA ChangeTyped ==
    ASSUME Typed, Change,
           engine' \in [Engines -> Objects], ruleset' \in RuleSets,
           log' \in [Engines -> Seq(Versions \cup {None})], Numbered'
    PROVE  Typed'
  <1>1. changes' \in 0..MaxChanges
    BY PublicationAssumption DEF Typed, PublicationTypeOK, Change
  <1>2. UNCHANGED <<build, seen, inputs, queue, job, store, states, gate, pos, startup, faults>>
    BY Zenon DEF Change
  <1> QED
    BY <1>1, <1>2, Zenon DEF Typed, PublicationTypeOK

\* A decision of the leader keeps the types.
LEMMA WriteTyped ==
    ASSUME Typed, Change, NEW e \in Engines, NEW uid \in 1..(changes + 2),
           NEW live \in BOOLEAN, NEW rec \in Records \cup {None}, Write(e, uid, live, rec)
    PROVE  Typed'
  <1>0. changes' = changes + 1 /\ changes \in Nat /\ changes + 2 <= MaxChanges + 1
    BY PublicationAssumption DEF Change, Typed, PublicationTypeOK
  <1>1. uid \in UIDs
    BY <1>0, PublicationAssumption DEF UIDs
  <1>2. Len(log[e]) + 1 \in Nat /\ log[e] \in Seq(Versions \cup {None})
    BY DEF Typed, PublicationTypeOK
  <1>3. engine' \in [Engines -> Objects]
    <2>1. [uid |-> uid, live |-> live, rec |-> rec, n |-> Len(log[e]) + 1] \in Objects
      BY <1>1, <1>2, Zenon DEF Objects
    <2> QED
      BY <2>1, Zenon DEF Write, Typed, PublicationTypeOK
  <1>4. log' \in [Engines -> Seq(Versions \cup {None})]
    <2>1. (IF rec = None THEN None ELSE rec.version) \in Versions \cup {None}
      BY Zenon DEF Records
    <2>2. Append(log[e], IF rec = None THEN None ELSE rec.version) \in Seq(Versions \cup {None})
      BY <1>2, <2>1
    <2> QED
      BY <2>2, Zenon DEF Write, Typed, PublicationTypeOK
  <1>5. Numbered'
    <2>1. ruleset'.uid <= changes' + 1
      BY <1>0 DEF Write, Typed, PublicationTypeOK, Numbered, RuleSets, UIDs
    <2>2. ASSUME NEW f \in Engines PROVE engine'[f].uid <= changes' + 1
      BY <1>0 DEF Write, Typed, PublicationTypeOK, Numbered, Objects, UIDs
    <2> QED
      BY <2>1, <2>2, Zenon DEF Numbered
  <1> QED
    BY <1>3, <1>4, <1>5, ChangeTyped, Zenon DEF Write, Typed, PublicationTypeOK

\* An edit of the RuleSet keeps the types.
LEMMA RuleSetTyped ==
    ASSUME Typed, Change, NEW uid \in 1..(changes + 2), NEW live \in BOOLEAN,
           NEW gen \in Nat, NEW c \in Contents, UNCHANGED <<engine, log>>,
           ruleset' = [uid |-> uid, live |-> live, gen |-> gen, content |-> c]
    PROVE  Typed'
  <1>0. changes' = changes + 1 /\ changes \in Nat /\ changes + 2 <= MaxChanges + 1
    BY PublicationAssumption DEF Change, Typed, PublicationTypeOK
  <1>1. ruleset' \in RuleSets
    BY <1>0, PublicationAssumption DEF UIDs, RuleSets
  <1>2. Numbered'
    <2>1. ASSUME NEW f \in Engines PROVE engine'[f].uid <= changes' + 1
      BY <1>0 DEF Typed, PublicationTypeOK, Numbered, Objects, UIDs
    <2> QED
      BY <1>0, <2>1 DEF Numbered
  <1> QED
    BY <1>1, <1>2, ChangeTyped, Zenon DEF Typed, PublicationTypeOK

\* Every write to the API server keeps the types.
LEMMA ServerTyped == Typed /\ Server => Typed'
  <1> SUFFICES ASSUME Typed, Server PROVE Typed'
    OBVIOUS
  <1>0. /\ changes \in Nat
        /\ ruleset.uid \in 1..(changes + 2) /\ ruleset.uid + 1 \in 1..(changes + 2)
        /\ ruleset.gen \in Nat /\ ruleset.gen + 1 \in Nat /\ 1 \in Nat
        /\ ruleset.content \in Contents
        /\ TRUE \in BOOLEAN /\ FALSE \in BOOLEAN /\ None \in Records \cup {None}
        /\ \A e \in Engines : /\ engine[e].uid \in 1..(changes + 2)
                              /\ engine[e].uid + 1 \in 1..(changes + 2)
    <2>1. changes \in Nat /\ ruleset \in RuleSets /\ \A e \in Engines : engine[e] \in Objects
      BY DEF Typed, PublicationTypeOK
    <2> QED
      BY <2>1, PublicationAssumption DEF Typed, Numbered, Objects, RuleSets, UIDs
  <1>1. ASSUME NEW e \in Engines, CreateEngine(e) PROVE Typed'
    BY <1>0, <1>1, WriteTyped, Zenon DEF CreateEngine
  <1>2. ASSUME NEW e \in Engines, DeleteEngine(e) PROVE Typed'
    BY <1>0, <1>2, WriteTyped, Zenon DEF DeleteEngine
  <1>3. ASSUME NEW e \in Engines, Withdraw(e) PROVE Typed'
    BY <1>0, <1>3, WriteTyped, Zenon DEF Withdraw
  <1>4. ASSUME NEW e \in Engines, NEW b \in Builds, NEW complete \in BOOLEAN,
               Accept(e, b, complete)
        PROVE  Typed'
    <2> DEFINE rec == [version |-> [schema |-> b, engine |-> engine[e].uid,
                                    ruleset |-> ruleset.uid, content |-> ruleset.content],
                       complete |-> complete]
    <2>1. rec \in Records
      <3>1. engine[e].uid \in UIDs /\ ruleset.uid \in UIDs
        BY Zenon DEF Typed, PublicationTypeOK, Objects, RuleSets
      <3> QED
        BY <1>0, <3>1, Zenon DEF Records, Versions
    <2>2. Change /\ Write(e, engine[e].uid, TRUE, rec)
      BY <1>4, Zenon DEF Accept
    <2> HIDE DEF rec
    <2> QED
      BY <1>0, <2>1, <2>2, WriteTyped, Zenon
  <1>5. ASSUME NEW c \in Contents, EditRuleSet(c) PROVE Typed'
    <2>1. ruleset' = [uid |-> ruleset.uid, live |-> ruleset.live, gen |-> ruleset.gen + 1,
                      content |-> c]
      BY <1>5, Zenon DEF EditRuleSet, Typed, PublicationTypeOK, RuleSets
    <2>2. ruleset.live \in BOOLEAN
      BY Zenon DEF Typed, PublicationTypeOK, RuleSets
    <2> QED
      BY <1>0, <1>5, <2>1, <2>2, RuleSetTyped, Zenon DEF EditRuleSet
  <1>6. ASSUME NEW c \in Contents, CreateRuleSet(c) PROVE Typed'
    BY <1>0, <1>6, RuleSetTyped, Zenon DEF CreateRuleSet
  <1>7. ASSUME DeleteRuleSet PROVE Typed'
    <2>1. ruleset' = [uid |-> ruleset.uid, live |-> FALSE, gen |-> ruleset.gen,
                      content |-> ruleset.content]
      BY <1>7, Zenon DEF DeleteRuleSet, Typed, PublicationTypeOK, RuleSets
    <2> QED
      BY <1>0, <1>7, <2>1, RuleSetTyped, Zenon DEF DeleteRuleSet
  <1> QED
    BY <1>1, <1>2, <1>3, <1>4, <1>5, <1>6, <1>7, Zenon DEF Server

\* A write to the API server reaches no replica by itself.
LEMMA ServerRemote ==
    ASSUME Server
    PROVE  UNCHANGED <<build, seen, inputs, queue, job, store, states, gate, pos, startup>>
  BY Zenon DEF Server, CreateEngine, DeleteEngine, Withdraw, Accept, EditRuleSet, DeleteRuleSet,
         CreateRuleSet, Change

\* The type of publicationState, and of the readiness gate.
States == [fingerprint : (UIDs \X Nat) \cup {None}, version : Versions \cup {None},
           mismatch : BOOLEAN]
Gates == [initialized : BOOLEAN, pending : SUBSET Engines, late : BOOLEAN, expired : BOOLEAN]

\* Updates of a gate have its type.
LEMMA GateTyped ==
    ASSUME NEW g \in [Replicas -> Gates], NEW r \in Replicas, NEW P \in SUBSET Engines
    PROVE  /\ [g EXCEPT ![r].initialized = TRUE, ![r].pending = P] \in [Replicas -> Gates]
           /\ [g EXCEPT ![r].late = TRUE] \in [Replicas -> Gates]
           /\ [g EXCEPT ![r].expired = TRUE, ![r].pending = P] \in [Replicas -> Gates]
           /\ [g EXCEPT ![r].pending = P] \in [Replicas -> Gates]
  <1>1. [g EXCEPT ![r].initialized = TRUE, ![r].pending = P] \in [Replicas -> Gates]
    BY Zenon DEF Gates
  <1>2. [g EXCEPT ![r].late = TRUE] \in [Replicas -> Gates]
    BY Zenon DEF Gates
  <1>3. [g EXCEPT ![r].expired = TRUE, ![r].pending = P] \in [Replicas -> Gates]
    BY Zenon DEF Gates
  <1>4. [g EXCEPT ![r].pending = P] \in [Replicas -> Gates]
    BY Zenon DEF Gates
  <1> QED
    BY <1>1, <1>2, <1>3, <1>4, Zenon

\* An update of the lag marker has its type.
LEMMA StateTyped ==
    ASSUME NEW s \in [Replicas -> [Engines -> States]], NEW r \in Replicas, NEW e \in Engines,
           NEW b \in BOOLEAN
    PROVE  [s EXCEPT ![r][e].mismatch = b] \in [Replicas -> [Engines -> States]]
  <1>1. s[r][e] \in States
    OBVIOUS
  <1>2. [s[r][e] EXCEPT !.mismatch = b] \in States
    BY <1>1, Zenon DEF States
  <1> QED
    BY <1>2, Zenon

\* What a replica does keeps the types of the API server's state.
LEMMA LocalTyped ==
    ASSUME Typed, UNCHANGED api,
           build' \in [Replicas -> Builds],
           seen' \in [Replicas -> [Engines -> Objects]],
           inputs' \in [Replicas -> RuleSets],
           queue' \in [Replicas -> SUBSET Engines],
           job' \in [Replicas -> [Engines -> Objects \cup {None}]],
           store' \in [Replicas -> [Engines -> Versions \cup {None}]],
           states' \in [Replicas -> [Engines -> States]],
           gate' \in [Replicas -> Gates],
           pos' \in [Replicas -> [Engines -> Nat]],
           startup' \in [Replicas -> [Engines -> Nat]],
           faults' \in 0..MaxFaults
    PROVE  Typed'
  BY Zenon DEF Typed, PublicationTypeOK, Numbered, States, Gates

\* A step of a reconcile returns what has its type.
LEMMA ReturnTyped ==
    ASSUME Typed, NEW r \in Replicas, NEW e \in Engines, Return(r, e)
    PROVE  /\ job' \in [Replicas -> [Engines -> Objects \cup {None}]]
           /\ queue' \in [Replicas -> SUBSET Engines]
           /\ faults' \in 0..MaxFaults
           /\ UNCHANGED <<engine, ruleset, log, changes, build, seen, inputs, startup>>
  <1>1. job' \in [Replicas -> [Engines -> Objects \cup {None}]]
    BY Zenon DEF Typed, PublicationTypeOK, Return
  <1>2. queue' \in [Replicas -> SUBSET Engines]
    <2>1. queue \in [Replicas -> SUBSET Engines]
      BY Zenon DEF Typed, PublicationTypeOK
    <2> QED
      BY <2>1, Zenon DEF Return, Requeue
  <1>3. faults' \in 0..MaxFaults
    BY PublicationAssumption DEF Typed, PublicationTypeOK, Return, Requeue
  <1> QED
    BY <1>1, <1>2, <1>3, Zenon DEF Return

\* What a reconcile has read has the type of an Engine.
LEMMA JobTyped ==
    ASSUME Typed, NEW r \in Replicas, NEW e \in Engines, job[r][e] # None
    PROVE  /\ job[r][e] \in Objects /\ job[r][e].n \in Nat
           /\ HasRecord(job[r][e]) => job[r][e].rec.version \in Versions
           /\ Rendered(r, job[r][e]) \in Versions
  <1>1. job[r][e] \in Objects /\ build[r] \in Builds /\ inputs[r] \in RuleSets
    BY DEF Typed, PublicationTypeOK
  <1> QED
    BY <1>1, Zenon DEF Objects, RuleSets, HasRecord, Records, Rendered, Versions

\* Every step of a replica keeps the types.
LEMMA ReplicaTyped ==
    ASSUME Typed, NEW r \in Replicas, Replica(r)
    PROVE  Typed'
  <1>0. /\ engine \in [Engines -> Objects] /\ ruleset \in RuleSets
        /\ build \in [Replicas -> Builds]
        /\ seen \in [Replicas -> [Engines -> Objects]]
        /\ inputs \in [Replicas -> RuleSets]
        /\ queue \in [Replicas -> SUBSET Engines]
        /\ job \in [Replicas -> [Engines -> Objects \cup {None}]]
        /\ store \in [Replicas -> [Engines -> Versions \cup {None}]]
        /\ states \in [Replicas -> [Engines -> States]]
        /\ gate \in [Replicas -> Gates]
        /\ pos \in [Replicas -> [Engines -> Nat]]
        /\ startup \in [Replicas -> [Engines -> Nat]]
        /\ faults \in 0..MaxFaults /\ (faults < MaxFaults => faults + 1 \in 0..MaxFaults)
    BY PublicationAssumption DEF Typed, PublicationTypeOK, States, Gates
  <1>1. ASSUME NEW e \in Engines, SyncEngine(r, e) PROVE Typed'
    <2>1. seen' \in [Replicas -> [Engines -> Objects]] /\ queue' \in [Replicas -> SUBSET Engines]
      BY <1>0, <1>1, Zenon DEF SyncEngine
    <2> QED
      BY <1>0, <1>1, <2>1, LocalTyped, Zenon DEF SyncEngine
  <1>2. ASSUME NEW e \in Engines, Nudge(r, e) PROVE Typed'
    <2>1. queue' \in [Replicas -> SUBSET Engines]
      BY <1>0, <1>2, Zenon DEF Nudge
    <2> QED
      BY <1>0, <1>2, <2>1, LocalTyped, Zenon DEF Nudge
  <1>3. ASSUME SyncRuleSet(r) PROVE Typed'
    <2>1. inputs' \in [Replicas -> RuleSets] /\ queue' \in [Replicas -> SUBSET Engines]
      BY <1>0, <1>3, Zenon DEF SyncRuleSet, mapRuleSet
    <2> QED
      BY <1>0, <1>3, <2>1, LocalTyped, Zenon DEF SyncRuleSet
  <1>4. ASSUME NEW b \in Builds, Restart(r, b) PROVE Typed'
    <2>1. NoState \in States /\ NewGate \in Gates
      BY Zenon DEF NoState, States, NewGate, Gates
    <2>2. /\ build' \in [Replicas -> Builds] /\ seen' \in [Replicas -> [Engines -> Objects]]
          /\ inputs' \in [Replicas -> RuleSets] /\ queue' \in [Replicas -> SUBSET Engines]
          /\ job' \in [Replicas -> [Engines -> Objects \cup {None}]]
          /\ store' \in [Replicas -> [Engines -> Versions \cup {None}]]
      BY <1>0, <1>4, Zenon DEF Restart
    <2>3. states' \in [Replicas -> [Engines -> States]] /\ gate' \in [Replicas -> Gates]
      BY <1>0, <1>4, <2>1, Zenon DEF Restart
    <2>4. pos' \in [Replicas -> [Engines -> Nat]] /\ startup' \in [Replicas -> [Engines -> Nat]]
      BY <1>0, <1>4, Zenon DEF Restart
    <2> QED
      BY <1>0, <1>4, <2>2, <2>3, <2>4, LocalTyped, Zenon DEF Restart
  <1>5. ASSUME Initialize(r) PROVE Typed'
    <2>1. gate' \in [Replicas -> Gates]
      <3>1. Gating(r) \in SUBSET Engines
        BY Zenon DEF Gating
      <3> QED
        BY <1>0, <1>5, <3>1, GateTyped, Zenon DEF Initialize
    <2>2. startup' \in [Replicas -> [Engines -> Nat]]
      BY <1>0, <1>5 DEF Initialize, Gating, Objects
    <2> QED
      BY <1>0, <1>5, <2>1, <2>2, LocalTyped, Zenon DEF Initialize
  <1>6. ASSUME DeadlinePasses(r) \/ CheckExpired(r) PROVE Typed'
    <2>1. gate' \in [Replicas -> Gates]
      <3>1. {} \in SUBSET Engines
        OBVIOUS
      <3>2. CASE DeadlinePasses(r)
        BY <1>0, <3>1, <3>2, GateTyped, Zenon DEF DeadlinePasses
      <3>3. CASE CheckExpired(r)
        BY <1>0, <3>1, <3>3, GateTyped, Zenon DEF CheckExpired
      <3> QED
        BY <1>6, <3>2, <3>3, Zenon
    <2> QED
      BY <1>0, <1>6, <2>1, LocalTyped, Zenon DEF DeadlinePasses, CheckExpired
  <1>7. ASSUME NEW e \in Engines, Begin(r, e) PROVE Typed'
    <2>1. /\ queue' \in [Replicas -> SUBSET Engines]
          /\ job' \in [Replicas -> [Engines -> Objects \cup {None}]]
      BY <1>0, <1>7 DEF Begin
    <2> QED
      BY <1>0, <1>7, <2>1, LocalTyped, Zenon DEF Begin
  <1>8. ASSUME NEW e \in Engines, RecordSuccess(r, e) PROVE gate' \in [Replicas -> Gates]
    <2>1. gate[r].pending \ {e} \in SUBSET Engines
      BY <1>0, Zenon DEF Gates
    <2> QED
      BY <1>0, <1>8, <2>1, GateTyped, Zenon DEF RecordSuccess
  <1>9. ASSUME NEW e \in Engines, Forget(r, e) PROVE Typed'
    <2>1. NoState \in States
      BY Zenon DEF NoState, States
    <2>2. /\ store' \in [Replicas -> [Engines -> Versions \cup {None}]]
          /\ pos' \in [Replicas -> [Engines -> Nat]]
          /\ job' \in [Replicas -> [Engines -> Objects \cup {None}]]
      BY <1>0, <1>9, JobTyped, Zenon DEF Forget
    <2>3. states' \in [Replicas -> [Engines -> States]] /\ gate' \in [Replicas -> Gates]
      BY <1>0, <1>8, <1>9, <2>1, Zenon DEF Forget
    <2> QED
      BY <1>0, <1>9, <2>2, <2>3, LocalTyped, Zenon DEF Forget
  <1>10. ASSUME NEW e \in Engines, Coalesce(r, e) PROVE Typed'
    <2>1. states' \in [Replicas -> [Engines -> States]] /\ gate' \in [Replicas -> Gates]
      BY <1>0, <1>8, <1>10, StateTyped, Zenon DEF Coalesce
    <2> QED
      BY <1>0, <1>10, <2>1, ReturnTyped, LocalTyped, Zenon DEF Coalesce
  <1>11. ASSUME NEW e \in Engines, Publish(r, e) PROVE Typed'
    <2>1. Rendered(r, job[r][e]) \in Versions /\ job[r][e].n \in Nat
          /\ job[r][e].rec.version \in Versions
      BY <1>11, JobTyped, Zenon DEF Publish
    <2>2. Fingerprint(r) \in UIDs \X Nat
      BY <1>0, Zenon DEF Fingerprint, RuleSets
    <2>3. [fingerprint |-> Fingerprint(r), version |-> job[r][e].rec.version,
           mismatch |-> FALSE] \in States
      BY <2>1, <2>2, Zenon DEF States
    <2>4. states' \in [Replicas -> [Engines -> States]] /\ gate' \in [Replicas -> Gates]
      BY <1>0, <1>8, <1>11, <2>3, Zenon DEF Publish
    <2>5. /\ store' \in [Replicas -> [Engines -> Versions \cup {None}]]
          /\ pos' \in [Replicas -> [Engines -> Nat]]
      BY <1>0, <1>11, <2>1, Zenon DEF Publish
    <2> QED
      BY <1>0, <1>11, <2>4, <2>5, ReturnTyped, LocalTyped, Zenon DEF Publish
  <1>12. ASSUME NEW e \in Engines, KeepPrevious(r, e) PROVE Typed'
    <2>1. states' \in [Replicas -> [Engines -> States]]
      BY <1>0, <1>12, StateTyped, Zenon DEF KeepPrevious
    <2> QED
      BY <1>0, <1>12, <2>1, ReturnTyped, LocalTyped, Zenon DEF KeepPrevious
  <1>13. ASSUME NEW e \in Engines, Transient(r, e) PROVE Typed'
    <2>1. /\ job' \in [Replicas -> [Engines -> Objects \cup {None}]]
          /\ queue' \in [Replicas -> SUBSET Engines]
          /\ faults' \in 0..MaxFaults
      BY <1>0, <1>13, Zenon DEF Transient, Requeue
    <2> QED
      BY <1>0, <1>13, <2>1, LocalTyped, Zenon DEF Transient
  <1> QED
    BY <1>1, <1>2, <1>3, <1>4, <1>5, <1>6, <1>7, <1>9, <1>10, <1>11, <1>12, <1>13, Zenon
       DEF Replica, Finish

\* Every step keeps the types.
LEMMA TypedStep == Typed /\ [Next]_vars => Typed'
  <1> SUFFICES ASSUME Typed, [Next]_vars PROVE Typed'
    OBVIOUS
  <1>1. CASE Server
    BY <1>1, ServerTyped, Zenon
  <1>2. ASSUME NEW r \in Replicas, Replica(r) PROVE Typed'
    BY <1>2, ReplicaTyped, Zenon
  <1>3. CASE UNCHANGED vars
    BY <1>3, Zenon DEF Typed, PublicationTypeOK, Numbered
  <1> QED
    BY <1>1, <1>2, <1>3, Zenon DEF Next

\* Publication keeps the types of its state: records, caches, work queues,
\* snapshots and the readiness gate of publication_controller.go.
THEOREM PublicationTypeCorrect == Spec => []PublicationTypeOK
  <1>1. Typed => PublicationTypeOK
    BY Zenon DEF Typed
  <1> QED
    BY <1>1, TypedInit, TypedStep, PTL DEF Spec

----------------------------------------------------------------------------
(***************************************************************************)
(* What a replica serves and reports between reconciles.                   *)
(***************************************************************************)

\* The store of replica r is as Engine e, in the state obj, calls for.
ServedAs(r, e, obj) ==
  IF HasRecord(obj)
  THEN /\ Available(r, obj.rec) /\ Reproduces(r, obj) => store[r][e] = obj.rec.version
       /\ store[r][e] = obj.rec.version \/ states[r][e].mismatch
  ELSE store[r][e] = None /\ ~states[r][e].mismatch

\* Engines that enginePublicationPredicate does not tell apart.
Same(old, new) == old.live = new.live /\ old.uid = new.uid /\ old.rec = new.rec

\* An Engine that is not queued is served as its cached state calls for, or a
\* reconcile that will see to it has read that state.
UpToDate(r, e) == e \notin queue[r] => IF job[r][e] = None THEN ServedAs(r, e, seen[r][e])
                                        ELSE Same(job[r][e], seen[r][e])

SettledInv == \A r \in Replicas, e \in Engines : UpToDate(r, e)

\* What is served depends on nothing that the predicate ignores.
LEMMA SameServed ==
    ASSUME NEW r, NEW e, NEW old, NEW new, Same(old, new), ServedAs(r, e, old)
    PROVE  ServedAs(r, e, new)
  BY Zenon DEF Same, ServedAs, HasRecord, Available, Reproduces, Rendered

\* A step that leaves an Engine's state on a replica alone, or queues it.
LEMMA Untouched ==
    ASSUME NEW r \in Replicas, NEW e \in Engines, UpToDate(r, e),
           e \in queue'[r] \/ /\ e \notin queue[r]
                              /\ build'[r] = build[r] /\ inputs'[r] = inputs[r]
                              /\ seen'[r][e] = seen[r][e] /\ job'[r][e] = job[r][e]
                              /\ store'[r][e] = store[r][e] /\ states'[r][e] = states[r][e]
    PROVE  UpToDate(r, e)'
  BY Zenon DEF UpToDate, ServedAs, Same, HasRecord, Available, Reproduces, Rendered

\* Every step of a replica keeps its Engines up to date.
LEMMA ReplicaSettles ==
    ASSUME Typed, SettledInv, NEW r \in Replicas, Replica(r)
    PROVE  SettledInv'
  <1>0. /\ seen \in [Replicas -> [Engines -> Objects]]
        /\ inputs \in [Replicas -> RuleSets] /\ build \in [Replicas -> Builds]
        /\ job \in [Replicas -> [Engines -> Objects \cup {None}]]
        /\ queue \in [Replicas -> SUBSET Engines]
        /\ store \in [Replicas -> [Engines -> Versions \cup {None}]]
        /\ states \in [Replicas -> [Engines -> States]]
    BY Zenon DEF Typed, PublicationTypeOK, States
  <1>a. \A q \in Replicas, f \in Engines : UpToDate(q, f)
    BY Zenon DEF SettledInv
  <1>1. ASSUME NEW e \in Engines, SyncEngine(r, e) PROVE SettledInv'
    <2>0. /\ seen' = [seen EXCEPT ![r][e] = engine[e]]
          /\ queue' = [queue EXCEPT ![r] =
                 IF enginePublicationPredicate(seen[r][e], engine[e]) THEN @ \cup {e} ELSE @]
          /\ UNCHANGED <<build, inputs, job, store, states>>
      BY <1>1, Zenon DEF SyncEngine
    <2>1. ASSUME NEW q \in Replicas, NEW f \in Engines PROVE UpToDate(q, f)'
      <3>1. CASE ~(q = r /\ f = e)
        <4>1. seen'[q][f] = seen[q][f] /\ (f \in queue[q] => f \in queue'[q])
          BY <1>0, <2>0, <3>1, Zenon
        <4> QED
          BY <1>a, <2>0, <4>1, Untouched, Zenon
      <3>2. CASE q = r /\ f = e
        <4>1. CASE enginePublicationPredicate(seen[r][e], engine[e])
          BY <1>0, <2>0, <3>2, <4>1, Zenon DEF UpToDate
        <4>2. CASE ~enginePublicationPredicate(seen[r][e], engine[e])
          <5>1. Same(seen[r][e], engine[e])
            BY <4>2, Zenon DEF enginePublicationPredicate, Same
          <5>2. seen'[q][f] = engine[e] /\ queue'[q] = queue[q]
            BY <1>0, <2>0, <3>2, <4>2, Zenon
          <5>3. CASE f \in queue[q]
            BY <5>2, <5>3, Zenon DEF UpToDate
          <5>4. CASE f \notin queue[q] /\ job[q][f] = None
            <6>1. ServedAs(q, f, engine[e])
              BY <1>a, <3>2, <5>1, <5>4, SameServed, Zenon DEF UpToDate
            <6> QED
              BY <2>0, <5>2, <5>4, <6>1, Zenon DEF UpToDate, ServedAs, Available, Reproduces,
                                                   Rendered
          <5>5. CASE f \notin queue[q] /\ job[q][f] # None
            BY <1>a, <2>0, <3>2, <5>1, <5>2, <5>5, Zenon DEF UpToDate, Same
          <5> QED
            BY <5>3, <5>4, <5>5, Zenon
        <4> QED
          BY <4>1, <4>2, Zenon
      <3> QED
        BY <3>1, <3>2, Zenon
    <2> QED
      BY <2>1, Zenon DEF SettledInv
  <1>2. ASSUME \/ \E e \in Engines : Nudge(r, e)
               \/ Initialize(r) \/ DeadlinePasses(r) \/ CheckExpired(r)
        PROVE  SettledInv'
    <2>0. UNCHANGED <<build, seen, inputs, job, store, states>>
      BY <1>2, Zenon DEF Nudge, Initialize, DeadlinePasses, CheckExpired
    <2>1. ASSUME NEW q \in Replicas, NEW f \in Engines
          PROVE  f \in queue[q] => f \in queue'[q]
      <3>1. CASE \E e \in Engines : Nudge(r, e)
        BY <1>0, <3>1 DEF Nudge
      <3>2. CASE Initialize(r) \/ DeadlinePasses(r) \/ CheckExpired(r)
        BY <3>2, Zenon DEF Initialize, DeadlinePasses, CheckExpired
      <3> QED
        BY <1>2, <3>1, <3>2, Zenon
    <2> QED
      BY <1>a, <2>0, <2>1, Untouched, Zenon DEF SettledInv
  <1>3. ASSUME SyncRuleSet(r) PROVE SettledInv'
    <2>0. /\ inputs' = [inputs EXCEPT ![r] = ruleset]
          /\ queue' = [queue EXCEPT ![r] = @ \cup mapRuleSet(r)]
          /\ UNCHANGED <<build, seen, job, store, states>>
      BY <1>3, Zenon DEF SyncRuleSet
    <2>1. ASSUME NEW q \in Replicas, NEW f \in Engines PROVE UpToDate(q, f)'
      <3>1. CASE q # r
        <4>1. inputs'[q] = inputs[q] /\ queue'[q] = queue[q]
          BY <1>0, <2>0, <3>1, Zenon
        <4> QED
          BY <1>a, <2>0, <4>1, Untouched, Zenon
      <3>2. CASE q = r /\ seen[q][f].live
        <4>1. f \in queue'[q]
          BY <1>0, <2>0, <3>2, Zenon DEF mapRuleSet
        <4> QED
          BY <4>1, Zenon DEF UpToDate
      <3>3. CASE q = r /\ ~seen[q][f].live
        <4>1. f \in queue[q] => f \in queue'[q]
          BY <1>0, <2>0, Zenon
        <4> QED
          BY <1>a, <2>0, <3>3, <4>1, Zenon DEF UpToDate, ServedAs, HasRecord, Same
      <3> QED
        BY <3>1, <3>2, <3>3, Zenon
    <2> QED
      BY <2>1, Zenon DEF SettledInv
  <1>4. ASSUME NEW b \in Builds, Restart(r, b) PROVE SettledInv'
    <2>1. ASSUME NEW q \in Replicas, NEW f \in Engines, q # r PROVE UpToDate(q, f)'
      <3>1. /\ build'[q] = build[q] /\ inputs'[q] = inputs[q] /\ seen'[q] = seen[q]
            /\ job'[q] = job[q] /\ store'[q] = store[q] /\ states'[q] = states[q]
            /\ queue'[q] = queue[q]
        BY <1>0, <1>4, <2>1, Zenon DEF Restart
      <3> QED
        BY <1>a, <3>1, Untouched, Zenon
    <2>2. ASSUME NEW f \in Engines PROVE UpToDate(r, f)'
      <3>1. /\ seen'[r][f] = engine[f] /\ queue'[r] = {e \in Engines : engine[e].live}
            /\ job'[r][f] = None /\ store'[r][f] = None /\ states'[r][f] = NoState
        BY <1>0, <1>4, Zenon DEF Restart
      <3>2. ~NoState.mismatch
        BY Zenon DEF NoState
      <3>3. CASE engine[f].live
        BY <3>1, <3>3, Zenon DEF UpToDate
      <3>4. CASE ~engine[f].live
        BY <3>1, <3>2, <3>4, Zenon DEF UpToDate, ServedAs, HasRecord
      <3> QED
        BY <3>3, <3>4, Zenon
    <2> QED
      BY <2>1, <2>2, Zenon DEF SettledInv
  <1>5. ASSUME NEW e \in Engines, Begin(r, e) PROVE SettledInv'
    <2>0. /\ job' = [job EXCEPT ![r][e] = seen[r][e]] /\ queue' = [queue EXCEPT ![r] = @ \ {e}]
          /\ UNCHANGED <<build, seen, inputs, store, states>>
      BY <1>5, Zenon DEF Begin
    <2>1. ASSUME NEW q \in Replicas, NEW f \in Engines PROVE UpToDate(q, f)'
      <3>1. CASE ~(q = r /\ f = e)
        <4>1. job'[q][f] = job[q][f] /\ (f \in queue[q] => f \in queue'[q])
          BY <1>0, <2>0, <3>1, Zenon
        <4> QED
          BY <1>a, <2>0, <4>1, Untouched, Zenon
      <3>2. CASE q = r /\ f = e
        <4>1. job'[q][f] = seen'[q][f] /\ seen'[q][f] # None
          BY <1>0, <2>0, <3>2, NoneAssumption
        <4> QED
          BY <4>1, Zenon DEF UpToDate, Same
      <3> QED
        BY <3>1, <3>2, Zenon
    <2> QED
      BY <2>1, Zenon DEF SettledInv
  <1>6. ASSUME NEW e \in Engines, Finish(r, e) \/ Transient(r, e) PROVE SettledInv'
    <2>0. /\ job[r][e] # None /\ job' = [job EXCEPT ![r][e] = None]
          /\ UNCHANGED <<build, seen, inputs>>
          /\ queue' = queue \/ queue' = [queue EXCEPT ![r] = @ \cup {e}]
      BY <1>6, Zenon DEF Finish, Forget, Coalesce, Publish, KeepPrevious, Transient, Return, Requeue
    <2>1. ASSUME NEW q \in Replicas, NEW f \in Engines, ~(q = r /\ f = e) PROVE UpToDate(q, f)'
      <3>1. job'[q][f] = job[q][f] /\ (f \in queue[q] => f \in queue'[q])
        BY <1>0, <2>0, <2>1
      <3>2. store'[q][f] = store[q][f]
        BY <1>0, <1>6, <2>1 DEF Finish, Forget, Coalesce, Publish, KeepPrevious, Transient
      <3>3. states'[q][f] = states[q][f]
        BY <1>0, <1>6, <2>1 DEF Finish, Forget, Coalesce, Publish, KeepPrevious, Transient
      <3> QED
        BY <1>a, <2>0, <3>1, <3>2, <3>3, Untouched, Zenon
    <2>2. UpToDate(r, e)'
      <3> SUFFICES ASSUME e \notin queue'[r] PROVE ServedAs(r, e, seen[r][e])'
        BY <1>0, <2>0, Zenon DEF UpToDate
      <3>1. Same(job[r][e], seen[r][e])
        BY <1>0, <1>a, <2>0 DEF UpToDate
      <3>2. CASE Forget(r, e)
        <4>1. store'[r][e] = None /\ states'[r][e] = NoState /\ ~NoState.mismatch
          BY <1>0, <3>2, Zenon DEF Forget, NoState
        <4>2. ~HasRecord(seen'[r][e])
          BY <2>0, <3>1, <3>2, Zenon DEF Forget, HasRecord, Same
        <4> QED
          BY <4>1, <4>2, Zenon DEF ServedAs
      <3>3. CASE Coalesce(r, e) \/ Publish(r, e)
        <4>1. HasRecord(seen'[r][e])
          BY <2>0, <3>1, <3>3, Zenon DEF Coalesce, Publish, HasRecord, Same
        <4>2. store'[r][e] = job[r][e].rec.version
          BY <1>0, <3>3 DEF Coalesce, Publish, coalesced, Reproduces
        <4> QED
          BY <2>0, <3>1, <4>1, <4>2, Zenon DEF ServedAs, Same
      <3>4. CASE KeepPrevious(r, e)
        <4>1. HasRecord(seen'[r][e])
          BY <2>0, <3>1, <3>4, Zenon DEF KeepPrevious, HasRecord, Same
        <4>2. ~(Available(r, seen[r][e].rec) /\ Reproduces(r, seen[r][e]))
          BY <3>1, <3>4, Zenon DEF KeepPrevious, Available, Reproduces, Rendered, Same
        <4>3. states'[r][e].mismatch
          BY <1>0, <3>4 DEF KeepPrevious, States
        <4> QED
          BY <2>0, <4>1, <4>2, <4>3, Zenon DEF ServedAs, Available, Reproduces, Rendered
      <3>5. CASE Transient(r, e)
        BY <1>0, <3>5, Zenon DEF Transient, Requeue
      <3> QED
        BY <1>6, <3>2, <3>3, <3>4, <3>5, Zenon DEF Finish
    <2> QED
      BY <2>1, <2>2, Zenon DEF SettledInv
  <1> QED
    BY <1>1, <1>2, <1>3, <1>4, <1>5, <1>6, Zenon DEF Replica

\* SettledInv is inductive relative to the types.
LEMMA SettledStep == Typed /\ SettledInv /\ [Next]_vars => SettledInv'
  <1> SUFFICES ASSUME Typed, SettledInv, [Next]_vars PROVE SettledInv'
    OBVIOUS
  <1>1. CASE Server \/ UNCHANGED vars
    <2>1. UNCHANGED <<build, seen, inputs, queue, job, store, states>>
      BY <1>1, ServerRemote, Zenon
    <2> QED
      BY <2>1, Untouched, Zenon DEF SettledInv
  <1>2. ASSUME NEW r \in Replicas, Replica(r) PROVE SettledInv'
    BY <1>2, ReplicaSettles, Zenon
  <1> QED
    BY <1>1, <1>2, Zenon DEF Next

\* It holds always.
LEMMA SettledAlways == Spec => [](Typed /\ SettledInv)
  <1>1. Init => Typed /\ SettledInv
    <2>1. Init => SettledInv
      BY Zenon DEF Init, SettledInv, UpToDate
    <2> QED
      BY <2>1, TypedInit, Zenon
  <1>2. Typed /\ SettledInv /\ [Next]_vars => (Typed /\ SettledInv)'
    BY TypedStep, SettledStep, Zenon
  <1> QED
    BY <1>1, <1>2, PTL DEF Spec

\* Between reconciles a record that the caches reproduce is served, and an
\* Engine without one is not (Reconcile, enginePublicationPredicate).
THEOREM PublicationSettles == Spec => []SettledServes
  <1>1. SettledInv => SettledServes
    BY Zenon DEF SettledInv, UpToDate, ServedAs, SettledServes, Settled
  <1> QED
    BY <1>1, SettledAlways, PTL

\* Between reconciles the lag marker is set for every record that is not
\* served, and for no Engine without one (recordMismatch, forgetEngine).
THEOREM PublicationLagReported == Spec => []LagReported
  <1>1. SettledInv => LagReported
    BY Zenon DEF SettledInv, UpToDate, ServedAs, LagReported, Settled
  <1> QED
    BY <1>1, SettledAlways, PTL

----------------------------------------------------------------------------
\* The decision an Engine's record stands for.
Decision(obj) == IF obj.rec = None THEN None ELSE obj.rec.version

\* An Engine as it was when decision n was written: an Engine that is gone
\* has no record.
Logged(e, obj) == /\ obj.n \in 1..Len(log[e])
                  /\ log[e][obj.n] = Decision(obj)
                  /\ obj.rec # None => obj.live

\* The API server holds the latest decision.
ServerLogged == \A e \in Engines : /\ Logged(e, engine[e])
                                   /\ engine[e].n = Len(log[e])
                                   /\ log[e][1] = None

\* What replica r has adopted, is adopting and has in its cache are decisions
\* in the order in which they were made, and the store holds the first.
InOrder(r, e) == /\ Logged(e, seen[r][e])
                 /\ pos[r][e] \in 1..seen[r][e].n
                 /\ store[r][e] = log[e][pos[r][e]]
                 /\ job[r][e] # None => /\ Logged(e, job[r][e])
                                        /\ pos[r][e] <= job[r][e].n
                                        /\ job[r][e].n <= seen[r][e].n

ReplicasLogged == \A r \in Replicas, e \in Engines : InOrder(r, e)

LogInv == Typed /\ ServerLogged /\ ReplicasLogged

\* Every state starts with the decisions that were made before.
LEMMA LogInit == Init => ServerLogged /\ ReplicasLogged
  <1> SUFFICES ASSUME Init PROVE ServerLogged /\ ReplicasLogged
    OBVIOUS
  <1>1. ASSUME NEW e \in Engines
        PROVE  Logged(e, engine[e]) /\ engine[e].n = Len(log[e]) /\ log[e][1] = None
    <2>1. log[e] = IF engine[e].rec = None THEN <<None>> ELSE <<None, engine[e].rec.version>>
      BY Zenon DEF Init
    <2>2. CASE engine[e] = NewEngine
      BY <2>1, <2>2 DEF NewEngine, Logged, Decision
    <2>3. CASE engine[e] = AcceptedEngine(ruleset.content)
      <3>1. 1 \in Builds /\ 1 \in UIDs
        BY PublicationAssumption DEF Builds, UIDs
      <3>2. ruleset.content \in Contents
        BY DEF Init
      <3>3. engine[e].rec \in Records
        BY <2>3, <3>1, <3>2 DEF AcceptedEngine, Records, Versions
      <3>4. engine[e].rec # None /\ engine[e].n = 2 /\ engine[e].live
        <4>1. engine[e].rec # None
          BY <3>3, NoneAssumption, Zenon
        <4>2. engine[e].n = 2 /\ engine[e].live
          BY <2>3 DEF AcceptedEngine
        <4> QED
          BY <4>1, <4>2, Zenon
      <3>5. log[e] = <<None, engine[e].rec.version>>
        BY <2>1, <3>4, Zenon
      <3> QED
        BY <3>4, <3>5 DEF Logged, Decision
    <2> QED
      BY <2>2, <2>3, Zenon DEF Init
  <1>2. ASSUME NEW r \in Replicas, NEW e \in Engines PROVE InOrder(r, e)
    <2>1. seen[r][e] = engine[e] /\ pos[r][e] = 1 /\ store[r][e] = None /\ job[r][e] = None
      BY Zenon DEF Init
    <2>2. engine[e].n \in Nat /\ engine[e].n >= 1
      BY <1>1 DEF Logged
    <2> QED
      BY <1>1, <2>1, <2>2 DEF InOrder
  <1> QED
    BY <1>1, <1>2, Zenon DEF ServerLogged, ReplicasLogged

\* A new decision leaves the earlier ones where they are.
LEMMA LogGrows ==
    ASSUME Typed, NEW e \in Engines, NEW v, log' = [log EXCEPT ![e] = Append(@, v)],
           NEW f \in Engines
    PROVE  /\ Len(log'[f]) \in Nat /\ Len(log[f]) <= Len(log'[f])
           /\ \A i \in 1..Len(log[f]) : log'[f][i] = log[f][i]
  BY DEF Typed, PublicationTypeOK

\* A decision of the leader keeps every replica's position in the log.
LEMMA WriteLogged ==
    ASSUME LogInv, Change, NEW e \in Engines, NEW uid, NEW live \in BOOLEAN,
           NEW rec \in Records \cup {None}, rec # None => live, Write(e, uid, live, rec)
    PROVE  ServerLogged' /\ ReplicasLogged' /\ Serving!Next
  <1> DEFINE v == IF rec = None THEN None ELSE rec.version
             new == [uid |-> uid, live |-> live, rec |-> rec, n |-> Len(log[e]) + 1]
  <1>0. /\ log' = [log EXCEPT ![e] = Append(@, v)]
        /\ engine' = [engine EXCEPT ![e] = new]
        /\ UNCHANGED <<seen, pos, store, job>>
        /\ log \in [Engines -> Seq(Versions \cup {None})]
        /\ engine \in [Engines -> Objects]
    BY Zenon DEF Write, Change, LogInv, Typed, PublicationTypeOK
  <1>1. ASSUME NEW f \in Engines, NEW obj, Logged(f, obj)
        PROVE  obj.n \in 1..Len(log'[f]) /\ log'[f][obj.n] = Decision(obj)
    BY <1>0, <1>1, LogGrows DEF Logged, LogInv, Typed, PublicationTypeOK
  <1>2. ASSUME NEW f \in Engines
        PROVE  Logged(f, engine[f])' /\ engine'[f].n = Len(log'[f]) /\ log'[f][1] = None
    <2>1. log'[f][1] = None
      <3>1. log[f][1] = None /\ Len(log[f]) \in Nat /\ 1 <= Len(log[f])
        <4>1. Len(log[f]) \in Nat
          BY <1>0
        <4>2. log[f][1] = None /\ engine[f].n \in 1..Len(log[f])
          BY Zenon DEF LogInv, ServerLogged, Logged
        <4> QED
          BY <4>1, <4>2
      <3>2. Typed /\ log' = [log EXCEPT ![e] = Append(@, v)]
        BY <1>0, Zenon DEF LogInv
      <3> HIDE DEF v
      <3>3. \A i \in 1..Len(log[f]) : log'[f][i] = log[f][i]
        BY <3>2, LogGrows, Zenon
      <3>4. 1 \in 1..Len(log[f])
        BY <3>1
      <3> QED
        BY <3>1, <3>3, <3>4, Zenon
    <2>2. CASE f = e
      <3>1. engine'[f] = new /\ log'[f] = Append(log[e], v) /\ log[e] \in Seq(Versions \cup {None})
        BY <1>0, <2>2, Zenon
      <3>2. Len(log'[f]) = Len(log[e]) + 1 /\ log'[f][Len(log[e]) + 1] = v /\ Len(log[e]) \in Nat
        BY <3>1
      <3>3. new.n = Len(log[e]) + 1 /\ new.rec = rec /\ new.live = live
        OBVIOUS
      <3> HIDE DEF new
      <3> QED
        BY <2>1, <3>1, <3>2, <3>3 DEF Logged, Decision
    <2>3. CASE f # e
      <3>1. engine'[f] = engine[f] /\ log'[f] = log[f]
        BY <1>0, <2>3, Zenon
      <3> QED
        BY <2>1, <3>1, Zenon DEF Logged, LogInv, ServerLogged
    <2> QED
      BY <2>2, <2>3, Zenon
  <1>3. ASSUME NEW r \in Replicas, NEW f \in Engines PROVE InOrder(r, f)'
    <2>1. InOrder(r, f)
      BY Zenon DEF LogInv, ReplicasLogged
    <2>2. Logged(f, seen[r][f])'
      BY <1>0, <1>1, <2>1, Zenon DEF InOrder, Logged
    <2>3. job[r][f] # None => Logged(f, job[r][f])'
      BY <1>0, <1>1, <2>1, Zenon DEF InOrder, Logged
    <2>4. store[r][f] = log'[f][pos[r][f]]
      BY <2>1, LogGrows, <1>0 DEF InOrder, Logged, LogInv
    <2> QED
      BY <1>0, <2>1, <2>2, <2>3, <2>4, Zenon DEF InOrder
  <1>4. Serving!Next
    <2>1. v \in Versions \cup {None}
      BY Zenon DEF Records
    <2>2. Serving!Accept(e, v)
      BY <1>0, Zenon DEF Serving!Accept
    <2> HIDE DEF v
    <2> QED
      BY <2>1, <2>2, Zenon DEF Serving!Next
  <1> QED
    BY <1>2, <1>3, <1>4, Zenon DEF ServerLogged, ReplicasLogged

\* A step that touches neither the log, nor the Engines, nor what a replica
\* has adopted, read or cached is invisible.
LEMMA Invisible ==
    ASSUME LogInv, UNCHANGED <<engine, log, seen, job, store, pos>>
    PROVE  ServerLogged' /\ ReplicasLogged' /\ UNCHANGED Serving!vars
  BY DEF LogInv, ServerLogged, ReplicasLogged, Logged, InOrder, Serving!vars

\* Every write to the API server is a decision or changes nothing served.
LEMMA ServerKeepsLog ==
    ASSUME LogInv, Server
    PROVE  ServerLogged' /\ ReplicasLogged' /\ [Serving!Next]_(Serving!vars)
  <1>1. ASSUME NEW e \in Engines, CreateEngine(e) \/ DeleteEngine(e) \/ Withdraw(e)
        PROVE  ServerLogged' /\ ReplicasLogged' /\ Serving!Next
    BY <1>1, WriteLogged, Zenon DEF CreateEngine, DeleteEngine, Withdraw
  <1>2. ASSUME NEW e \in Engines, NEW b \in Builds, NEW complete \in BOOLEAN,
               Accept(e, b, complete)
        PROVE  ServerLogged' /\ ReplicasLogged' /\ Serving!Next
    <2> DEFINE rec == [version |-> [schema |-> b, engine |-> engine[e].uid,
                                    ruleset |-> ruleset.uid, content |-> ruleset.content],
                       complete |-> complete]
    <2>1. rec \in Records
      BY Zenon DEF Records, Versions, LogInv, Typed, PublicationTypeOK, Objects, RuleSets
    <2>2. Change /\ Write(e, engine[e].uid, TRUE, rec)
      BY <1>2, Zenon DEF Accept
    <2> HIDE DEF rec
    <2> QED
      BY <2>1, <2>2, WriteLogged, Zenon
  <1>3. ASSUME \/ \E c \in Contents : EditRuleSet(c) \/ CreateRuleSet(c)
               \/ DeleteRuleSet
        PROVE  ServerLogged' /\ ReplicasLogged' /\ UNCHANGED Serving!vars
    BY <1>3, Invisible, Zenon DEF EditRuleSet, CreateRuleSet, DeleteRuleSet, Change
  <1> QED
    BY <1>1, <1>2, <1>3, Zenon DEF Server

\* A reconcile that serves the decision it has read adopts it.
LEMMA Adopts ==
    ASSUME LogInv, NEW r \in Replicas, NEW e \in Engines, job[r][e] # None,
           pos' = [pos EXCEPT ![r][e] = job[r][e].n],
           store' = [store EXCEPT ![r][e] = Decision(job[r][e])],
           job' = [job EXCEPT ![r][e] = None],
           UNCHANGED <<engine, log, seen>>
    PROVE  ServerLogged' /\ ReplicasLogged' /\ [Serving!Next]_(Serving!vars)
  <1>0. /\ pos \in [Replicas -> [Engines -> Nat]]
        /\ store \in [Replicas -> [Engines -> Versions \cup {None}]]
        /\ job \in [Replicas -> [Engines -> Objects \cup {None}]]
    BY Zenon DEF LogInv, Typed, PublicationTypeOK
  <1>1. /\ Logged(e, job[r][e]) /\ pos[r][e] <= job[r][e].n /\ job[r][e].n <= seen[r][e].n
        /\ store[r][e] = log[e][pos[r][e]] /\ seen[r][e].n \in Nat
    BY DEF LogInv, ReplicasLogged, InOrder, Logged
  <1>2. job[r][e].n \in 1..Len(log[e]) /\ log[e][job[r][e].n] = Decision(job[r][e])
    BY <1>1, Zenon DEF Logged
  <1>3. ServerLogged'
    BY Zenon DEF LogInv, ServerLogged, Logged
  <1>4. ASSUME NEW q \in Replicas, NEW f \in Engines PROVE InOrder(q, f)'
    <2>1. InOrder(q, f)
      BY Zenon DEF LogInv, ReplicasLogged
    <2>2. CASE q = r /\ f = e
      <3>1. pos'[q][f] = job[r][e].n /\ store'[q][f] = Decision(job[r][e]) /\ job'[q][f] = None
        BY <1>0, <2>2, Zenon
      <3>2. job[r][e].n \in 1..seen[r][e].n
        BY <1>1, <1>2
      <3> QED
        BY <1>2, <2>1, <2>2, <3>1, <3>2, Zenon DEF InOrder, Logged
    <2>3. CASE ~(q = r /\ f = e)
      <3>1. pos'[q][f] = pos[q][f] /\ store'[q][f] = store[q][f] /\ job'[q][f] = job[q][f]
        BY <1>0, <2>3, Zenon
      <3> QED
        BY <2>1, <3>1, Zenon DEF InOrder, Logged
    <2> QED
      BY <2>2, <2>3, Zenon
  <1>5. CASE job[r][e].n = pos[r][e]
    <2>1. pos' = pos /\ store' = store
      BY <1>0, <1>1, <1>2, <1>5
    <2> QED
      BY <1>3, <1>4, <2>1, Zenon DEF ReplicasLogged, Serving!vars
  <1>6. CASE job[r][e].n > pos[r][e]
    <2>1. Serving!Adopt(r, e, job[r][e].n)
      BY <1>2, <1>6, Zenon DEF Serving!Adopt
    <2> QED
      BY <1>2, <1>3, <1>4, <2>1, Zenon DEF ReplicasLogged, Serving!Next
  <1>7. pos[r][e] \in Nat /\ job[r][e].n \in Nat
    BY <1>0, <1>2
  <1> QED
    BY <1>1, <1>5, <1>6, <1>7

\* A reconcile that ends without a new snapshot is invisible.
LEMMA Keeps ==
    ASSUME LogInv, NEW r \in Replicas, NEW e \in Engines,
           job' = [job EXCEPT ![r][e] = None],
           UNCHANGED <<engine, log, seen, pos, store>>
    PROVE  ServerLogged' /\ ReplicasLogged' /\ UNCHANGED Serving!vars
  <1>1. ServerLogged' /\ UNCHANGED Serving!vars
    BY Zenon DEF LogInv, ServerLogged, Logged, Serving!vars
  <1>2. ASSUME NEW q \in Replicas, NEW f \in Engines PROVE InOrder(q, f)'
    <2>1. InOrder(q, f) /\ (job'[q][f] = None \/ job'[q][f] = job[q][f])
      BY Zenon DEF LogInv, ReplicasLogged, Typed, PublicationTypeOK
    <2> QED
      BY <2>1, Zenon DEF InOrder, Logged
  <1> QED
    BY <1>1, <1>2, Zenon DEF ReplicasLogged

\* Every step of a replica adopts a decision, forgets all, or is invisible.
LEMMA ReplicaKeepsLog ==
    ASSUME LogInv, NEW r \in Replicas, Replica(r)
    PROVE  ServerLogged' /\ ReplicasLogged' /\ [Serving!Next]_(Serving!vars)
  <1> DEFINE Goal == ServerLogged' /\ ReplicasLogged' /\ [Serving!Next]_(Serving!vars)
  <1>0. /\ seen \in [Replicas -> [Engines -> Objects]]
        /\ job \in [Replicas -> [Engines -> Objects \cup {None}]]
        /\ pos \in [Replicas -> [Engines -> Nat]]
        /\ store \in [Replicas -> [Engines -> Versions \cup {None}]]
    BY Zenon DEF LogInv, Typed, PublicationTypeOK
  <1>1. ASSUME NEW e \in Engines, SyncEngine(r, e) PROVE Goal
    <2>0. /\ seen' = [seen EXCEPT ![r][e] = engine[e]]
          /\ UNCHANGED <<engine, log, job, store, pos>>
      BY <1>1, Zenon DEF SyncEngine
    <2>1. ServerLogged' /\ UNCHANGED Serving!vars
      BY <2>0, Zenon DEF LogInv, ServerLogged, Logged, Serving!vars
    <2>2. ASSUME NEW q \in Replicas, NEW f \in Engines PROVE InOrder(q, f)'
      <3>1. InOrder(q, f)
        BY Zenon DEF LogInv, ReplicasLogged
      <3>2. CASE q = r /\ f = e
        <4>1. seen'[q][f] = engine[f] /\ Logged(f, engine[f]) /\ engine[f].n = Len(log[f])
          BY <1>0, <2>0, <3>2, Zenon DEF LogInv, ServerLogged
        <4>2. seen[q][f].n \in Nat /\ engine[f].n \in Nat /\ seen[q][f].n <= engine[f].n
          BY <3>1, <4>1 DEF InOrder, Logged
        <4>3. pos[q][f] \in 1..engine[f].n
          BY <3>1, <4>2 DEF InOrder
        <4>4. job[q][f] # None => job[q][f].n <= engine[f].n /\ Logged(f, job[q][f])
          BY <3>1, <4>2 DEF InOrder, Logged
        <4> QED
          BY <2>0, <3>1, <4>1, <4>3, <4>4, Zenon DEF InOrder, Logged
      <3>3. CASE ~(q = r /\ f = e)
        <4>1. seen'[q][f] = seen[q][f]
          BY <1>0, <2>0, <3>3, Zenon
        <4> QED
          BY <2>0, <3>1, <4>1, Zenon DEF InOrder, Logged
      <3> QED
        BY <3>2, <3>3, Zenon
    <2> QED
      BY <2>1, <2>2, Zenon DEF ReplicasLogged
  <1>2. ASSUME \/ \E e \in Engines : Nudge(r, e)
               \/ SyncRuleSet(r) \/ Initialize(r) \/ DeadlinePasses(r) \/ CheckExpired(r)
        PROVE  Goal
    <2>1. UNCHANGED <<engine, log, seen, job, store, pos>>
      BY <1>2, Zenon DEF Nudge, SyncRuleSet, Initialize, DeadlinePasses, CheckExpired
    <2> QED
      BY <2>1, Invisible, Zenon
  <1>3. ASSUME NEW b \in Builds, Restart(r, b) PROVE Goal
    <2>0. /\ seen' = [seen EXCEPT ![r] = engine]
          /\ job' = [job EXCEPT ![r] = [e \in Engines |-> None]]
          /\ store' = [store EXCEPT ![r] = [e \in Engines |-> None]]
          /\ pos' = [pos EXCEPT ![r] = [e \in Engines |-> 1]]
          /\ UNCHANGED <<engine, log>>
      BY <1>3, Zenon DEF Restart
    <2>1. ServerLogged'
      BY <2>0, Zenon DEF LogInv, ServerLogged, Logged
    <2>2. ASSUME NEW q \in Replicas, NEW f \in Engines PROVE InOrder(q, f)'
      <3>1. CASE q = r
        <4>1. seen'[q][f] = engine[f] /\ job'[q][f] = None /\ store'[q][f] = None /\ pos'[q][f] = 1
          BY <1>0, <2>0, <3>1, Zenon
        <4>2. Logged(f, engine[f]) /\ log[f][1] = None /\ engine[f].n \in Nat /\ 1 <= engine[f].n
          BY DEF LogInv, ServerLogged, Logged
        <4>3. Logged(f, seen[q][f])'
          BY <2>0, <4>1, <4>2, Zenon DEF Logged
        <4>4. pos'[q][f] \in 1..seen'[q][f].n /\ store'[q][f] = log'[f][pos'[q][f]]
          BY <2>0, <4>1, <4>2
        <4> QED
          BY <4>1, <4>3, <4>4, Zenon DEF InOrder
      <3>2. CASE q # r
        <4>1. seen'[q] = seen[q] /\ job'[q] = job[q] /\ store'[q] = store[q] /\ pos'[q] = pos[q]
          BY <1>0, <2>0, <3>2, Zenon
        <4> QED
          BY <2>0, <4>1 DEF LogInv, ReplicasLogged, InOrder, Logged
      <3> QED
        BY <3>1, <3>2, Zenon
    <2>3. Serving!Restart(r)
      BY <2>0, Zenon DEF Serving!Restart
    <2> QED
      BY <2>1, <2>2, <2>3, Zenon DEF ReplicasLogged, Serving!Next
  <1>4. ASSUME NEW e \in Engines, Begin(r, e) PROVE Goal
    <2>0. job' = [job EXCEPT ![r][e] = seen[r][e]] /\ UNCHANGED <<engine, log, seen, store, pos>>
      BY <1>4, Zenon DEF Begin
    <2>1. ServerLogged' /\ UNCHANGED Serving!vars
      BY <2>0, Zenon DEF LogInv, ServerLogged, Logged, Serving!vars
    <2>2. ASSUME NEW q \in Replicas, NEW f \in Engines PROVE InOrder(q, f)'
      <3>1. InOrder(q, f) /\ (job'[q][f] = seen[q][f] \/ job'[q][f] = job[q][f])
        BY <1>0, <2>0, Zenon DEF LogInv, ReplicasLogged
      <3> QED
        BY <2>0, <3>1 DEF InOrder, Logged
    <2> QED
      BY <2>1, <2>2, Zenon DEF ReplicasLogged
  <1>5. ASSUME NEW e \in Engines, Forget(r, e) PROVE Goal
    <2>1. Decision(job[r][e]) = None
      <3>1. job[r][e].rec # None => job[r][e].live
        BY <1>5, Zenon DEF Forget, LogInv, ReplicasLogged, InOrder, Logged
      <3> QED
        BY <1>5, <3>1, Zenon DEF Forget, HasRecord, Decision
    <2> QED
      BY <1>5, <2>1, Adopts, Zenon DEF Forget
  <1>6. ASSUME NEW e \in Engines, Publish(r, e) PROVE Goal
    <2>1. Decision(job[r][e]) = Rendered(r, job[r][e])
      BY <1>6, Zenon DEF Publish, HasRecord, Decision, Reproduces
    <2> QED
      BY <1>6, <2>1, Adopts, Zenon DEF Publish, Return
  <1>7. ASSUME NEW e \in Engines, Coalesce(r, e) \/ KeepPrevious(r, e) \/ Transient(r, e)
        PROVE  Goal
    <2>1. job' = [job EXCEPT ![r][e] = None] /\ UNCHANGED <<engine, log, seen, pos, store>>
      BY <1>7, Zenon DEF Coalesce, KeepPrevious, Transient, Return
    <2> QED
      BY <2>1, Keeps, Zenon
  <1> QED
    BY <1>1, <1>2, <1>3, <1>4, <1>5, <1>6, <1>7, Zenon DEF Replica, Finish

\* LogInv is inductive, and a step from it is a step of EcdsServing.
LEMMA LogStep == LogInv /\ [Next]_vars => LogInv' /\ [Serving!Next]_(Serving!vars)
  <1> SUFFICES ASSUME LogInv, [Next]_vars
               PROVE  LogInv' /\ [Serving!Next]_(Serving!vars)
    OBVIOUS
  <1>1. CASE Server
    BY <1>1, ServerTyped, ServerKeepsLog, Zenon DEF LogInv
  <1>2. ASSUME NEW r \in Replicas, Replica(r)
        PROVE  LogInv' /\ [Serving!Next]_(Serving!vars)
    BY <1>2, ReplicaTyped, ReplicaKeepsLog, Zenon DEF LogInv
  <1>3. CASE UNCHANGED vars
    <2>1. Typed'
      BY <1>3, Zenon DEF LogInv, Typed, PublicationTypeOK, Numbered
    <2> QED
      BY <1>3, <2>1, Invisible, Zenon DEF LogInv
  <1> QED
    BY <1>1, <1>2, <1>3, Zenon DEF Next

\* The replicas implement EcdsServing: each snapshot served is a decision of
\* the leader, adopted in the order of the decisions (PublicationReconciler).
THEOREM PublicationServes == Spec => Serves
  <1>1. Init => LogInv /\ Serving!Init
    <2> SUFFICES ASSUME Init PROVE LogInv /\ Serving!Init
      OBVIOUS
    <2>1. LogInv
      BY TypedInit, LogInit, Zenon DEF LogInv
    <2>2. \A e \in Engines : log[e] # <<>> /\ log[e][1] = None
      BY Zenon DEF Init
    <2> QED
      BY <2>1, <2>2, Zenon DEF Init, Serving!Init
  <1> QED
    BY <1>1, LogStep, PTL DEF Spec, Serves, Serving!Spec

----------------------------------------------------------------------------
(***************************************************************************)
(* A replica that is ready serves what it found at startup.                *)
(***************************************************************************)

\* A record that gates readiness is a decision with a configuration, every
\* reconcile reads it or a later one, and it gates until it is served.
Awaited(r, e) ==
  /\ ~gate[r].initialized => job[r][e] = None /\ startup[r][e] = 0
  /\ startup[r][e] # 0 =>
       /\ startup[r][e] \in 1..seen[r][e].n
       /\ log[e][startup[r][e]] # None
       /\ job[r][e] # None => startup[r][e] <= job[r][e].n
       /\ e \notin gate[r].pending /\ ~gate[r].late /\ seen[r][e].n = startup[r][e]
            => store[r][e] # None

AwaitedInv == \A r \in Replicas, e \in Engines : Awaited(r, e)

\* A step that leaves a record's progress alone, or puts the deadline behind it.
LEMMA Waiting ==
    ASSUME NEW r \in Replicas, NEW e \in Engines, Awaited(r, e),
           gate'[r].initialized = gate[r].initialized,
           e \in gate'[r].pending <=> e \in gate[r].pending,
           gate[r].late => gate'[r].late,
           startup'[r][e] = startup[r][e], seen'[r][e] = seen[r][e],
           job'[r][e] = job[r][e] \/ job'[r][e] = None, store'[r][e] = store[r][e],
           startup[r][e] # 0 => log'[e][startup[r][e]] = log[e][startup[r][e]]
    PROVE  Awaited(r, e)'
  BY Zenon DEF Awaited

\* Every step of a replica keeps track of the records that gate it.
LEMMA ReplicaAwaits ==
    ASSUME LogInv, AwaitedInv, NEW r \in Replicas, Replica(r)
    PROVE  AwaitedInv'
  <1>0. /\ seen \in [Replicas -> [Engines -> Objects]]
        /\ job \in [Replicas -> [Engines -> Objects \cup {None}]]
        /\ store \in [Replicas -> [Engines -> Versions \cup {None}]]
        /\ gate \in [Replicas -> Gates]
        /\ startup \in [Replicas -> [Engines -> Nat]]
    BY Zenon DEF LogInv, Typed, PublicationTypeOK, Gates
  <1>a. \A q \in Replicas, f \in Engines : Awaited(q, f) /\ InOrder(q, f)
    BY Zenon DEF AwaitedInv, LogInv, ReplicasLogged
  <1>b. UNCHANGED log
    BY Zenon DEF Replica, SyncEngine, Nudge, SyncRuleSet, Restart, Initialize, DeadlinePasses,
           CheckExpired, Begin, Finish, Forget, Coalesce, Publish, KeepPrevious, Transient, Return
  <1>1. ASSUME NEW e \in Engines, SyncEngine(r, e) PROVE AwaitedInv'
    <2>0. /\ seen' = [seen EXCEPT ![r][e] = engine[e]]
          /\ UNCHANGED <<job, store, gate, startup>>
      BY <1>1, Zenon DEF SyncEngine
    <2>1. ASSUME NEW q \in Replicas, NEW f \in Engines PROVE Awaited(q, f)'
      <3>1. CASE ~(q = r /\ f = e)
        <4>1. seen'[q][f] = seen[q][f]
          BY <1>0, <2>0, <3>1, Zenon
        <4>2. /\ gate'[q] = gate[q] /\ startup'[q][f] = startup[q][f]
              /\ job'[q][f] = job[q][f] /\ store'[q][f] = store[q][f] /\ log' = log
          BY <1>b, <2>0, Zenon
        <4> QED
          BY <1>a, <4>1, <4>2, Waiting, Zenon
      <3>2. CASE q = r /\ f = e
        <4>1. seen'[q][f] = engine[f] /\ engine[f].n = Len(log[f])
          BY <1>0, <2>0, <3>2, Zenon DEF LogInv, ServerLogged
        <4>2. seen[q][f].n \in Nat /\ engine[f].n \in Nat /\ seen[q][f].n <= engine[f].n
          BY <1>a, <4>1 DEF InOrder, Logged, LogInv, ServerLogged
        <4>3. startup[q][f] \in Nat
          BY <1>0, Zenon
        <4> QED
          BY <1>a, <1>b, <2>0, <4>1, <4>2, <4>3 DEF Awaited
      <3> QED
        BY <3>1, <3>2, Zenon
    <2> QED
      BY <2>1, Zenon DEF AwaitedInv
  <1>2. ASSUME (\E e \in Engines : Nudge(r, e)) \/ SyncRuleSet(r) PROVE AwaitedInv'
    <2>1. UNCHANGED <<seen, job, store, gate, startup>>
      BY <1>2, Zenon DEF Nudge, SyncRuleSet
    <2> QED
      BY <1>a, <1>b, <2>1, Waiting, Zenon DEF AwaitedInv
  <1>3. ASSUME NEW b \in Builds, Restart(r, b) PROVE AwaitedInv'
    <2>1. ASSUME NEW q \in Replicas, NEW f \in Engines, q # r PROVE Awaited(q, f)'
      <3>1. /\ seen'[q] = seen[q] /\ job'[q] = job[q] /\ store'[q] = store[q]
            /\ gate'[q] = gate[q] /\ startup'[q] = startup[q]
        BY <1>0, <1>3, <2>1, Zenon DEF Restart
      <3> QED
        BY <1>a, <1>b, <3>1, Waiting, Zenon
    <2>2. ASSUME NEW f \in Engines PROVE Awaited(r, f)'
      <3>1. job'[r][f] = None /\ startup'[r][f] = 0
        BY <1>0, <1>3, Zenon DEF Restart
      <3> QED
        BY <3>1, Zenon DEF Awaited
    <2> QED
      BY <2>1, <2>2, Zenon DEF AwaitedInv
  <1>4. ASSUME Initialize(r) PROVE AwaitedInv'
    <2>0. /\ ~gate[r].initialized
          /\ gate' = [gate EXCEPT ![r].initialized = TRUE, ![r].pending = Gating(r)]
          /\ startup' = [startup EXCEPT ![r] = [e \in Engines |->
                            IF e \in Gating(r) THEN seen[r][e].n ELSE 0]]
          /\ UNCHANGED <<seen, job, store>>
      BY <1>4, Zenon DEF Initialize
    <2>1. ASSUME NEW q \in Replicas, NEW f \in Engines, q # r PROVE Awaited(q, f)'
      <3>1. gate'[q] = gate[q] /\ startup'[q] = startup[q]
        BY <1>0, <2>0, <2>1, Zenon
      <3> QED
        BY <1>a, <1>b, <2>0, <3>1, Waiting, Zenon
    <2>2. ASSUME NEW f \in Engines PROVE Awaited(r, f)'
      <3>1. gate'[r].pending = Gating(r) /\ gate'[r].initialized
        BY <1>0, <2>0 DEF Gates
      <3>2. startup'[r][f] = (IF f \in Gating(r) THEN seen[r][f].n ELSE 0) /\ job'[r][f] = None
        BY <1>0, <1>a, <2>0, Zenon DEF Awaited
      <3>3. CASE f \in Gating(r)
        <4>1. seen[r][f].rec # None /\ seen[r][f] \in Objects
          BY <1>0, <3>3, Zenon DEF Gating
        <4>2. Decision(seen[r][f]) # None
          BY <4>1, NoneAssumption, Zenon DEF Decision, Objects, Records
        <4>3. seen[r][f].n \in 1..seen[r][f].n /\ log[f][seen[r][f].n] # None
          BY <1>a, <4>2 DEF InOrder, Logged
        <4> QED
          BY <1>b, <2>0, <3>1, <3>2, <3>3, <4>3, Zenon DEF Awaited
      <3>4. CASE f \notin Gating(r)
        BY <3>1, <3>2, <3>4, Zenon DEF Awaited
      <3> QED
        BY <3>3, <3>4, Zenon
    <2> QED
      BY <2>1, <2>2, Zenon DEF AwaitedInv
  <1>5. ASSUME DeadlinePasses(r) \/ CheckExpired(r) PROVE AwaitedInv'
    <2>0. UNCHANGED <<seen, job, store, startup>>
      BY <1>5, Zenon DEF DeadlinePasses, CheckExpired
    <2>1. ASSUME NEW q \in Replicas, NEW f \in Engines, q # r PROVE Awaited(q, f)'
      <3>1. gate'[q] = gate[q]
        BY <1>0, <1>5, <2>1, Zenon DEF DeadlinePasses, CheckExpired
      <3> QED
        BY <1>a, <1>b, <2>0, <3>1, Waiting, Zenon
    <2>2. ASSUME NEW f \in Engines PROVE Awaited(r, f)'
      <3>1. gate'[r].late
        <4>1. CASE DeadlinePasses(r)
          BY <1>0, <4>1 DEF DeadlinePasses, Gates
        <4>2. CASE CheckExpired(r)
          BY <1>0, <4>2, Zenon DEF CheckExpired, Gates
        <4> QED
          BY <1>5, <4>1, <4>2, Zenon
      <3>2. gate'[r].initialized = gate[r].initialized
        BY <1>0, <1>5 DEF DeadlinePasses, CheckExpired, Gates
      <3> QED
        BY <1>a, <1>b, <2>0, <3>1, <3>2, Zenon DEF Awaited
    <2> QED
      BY <2>1, <2>2, Zenon DEF AwaitedInv
  <1>6. ASSUME NEW e \in Engines, Begin(r, e) PROVE AwaitedInv'
    <2>0. /\ gate[r].initialized /\ job' = [job EXCEPT ![r][e] = seen[r][e]]
          /\ UNCHANGED <<seen, store, gate, startup>>
      BY <1>6, Zenon DEF Begin
    <2>1. ASSUME NEW q \in Replicas, NEW f \in Engines PROVE Awaited(q, f)'
      <3>1. CASE ~(q = r /\ f = e)
        <4>1. job'[q][f] = job[q][f]
          BY <1>0, <2>0, <3>1, Zenon
        <4> QED
          BY <1>a, <1>b, <2>0, <4>1, Waiting, Zenon
      <3>2. CASE q = r /\ f = e
        <4>1. job'[q][f] = seen[q][f] /\ seen[q][f].n \in Nat
          BY <1>0, <2>0, <3>2 DEF Objects
        <4> QED
          BY <1>a, <1>b, <2>0, <3>2, <4>1 DEF Awaited
      <3> QED
        BY <3>1, <3>2, Zenon
    <2> QED
      BY <2>1, Zenon DEF AwaitedInv
  <1>7. ASSUME NEW e \in Engines, Finish(r, e) \/ Transient(r, e) PROVE AwaitedInv'
    <2>0. /\ job[r][e] # None /\ job' = [job EXCEPT ![r][e] = None]
          /\ UNCHANGED <<seen, startup>>
          /\ gate' = gate \/ gate' = [gate EXCEPT ![r].pending = @ \ {e}]
      BY <1>7, Zenon
         DEF Finish, Forget, Coalesce, Publish, KeepPrevious, Transient, Return, RecordSuccess
    <2>1. \A q \in Replicas : /\ gate'[q].initialized = gate[q].initialized
                              /\ gate'[q].late = gate[q].late
      <3>1. ASSUME NEW q \in Replicas, gate' = [gate EXCEPT ![r].pending = @ \ {e}]
            PROVE  gate'[q].initialized = gate[q].initialized /\ gate'[q].late = gate[q].late
        <4>1. gate'[q] = gate[q] \/ gate'[q] = [gate[q] EXCEPT !.pending = @ \ {e}]
          BY <1>0, <3>1, Zenon
        <4>2. gate[q] \in Gates
          BY <1>0, Zenon
        <4> QED
          BY <4>1, <4>2, Zenon DEF Gates
      <3> QED
        BY <2>0, <3>1, Zenon
    <2>2. ASSUME NEW q \in Replicas, NEW f \in Engines, ~(q = r /\ f = e) PROVE Awaited(q, f)'
      <3>1. job'[q][f] = job[q][f] /\ (f \in gate'[q].pending <=> f \in gate[q].pending)
        BY <1>0, <2>0, <2>2 DEF Gates
      <3>2. store'[q][f] = store[q][f]
        BY <1>0, <1>7, <2>2 DEF Finish, Forget, Coalesce, Publish, KeepPrevious, Transient
      <3> QED
        BY <1>a, <1>b, <2>0, <2>1, <3>1, <3>2, Waiting, Zenon
    <2>3. Awaited(r, e)'
      <3>1. job'[r][e] = None /\ startup'[r][e] = startup[r][e] /\ seen'[r][e] = seen[r][e]
        BY <1>0, <2>0, Zenon
      <3>2. CASE Forget(r, e)
        <4>1. log[e][job[r][e].n] = None
          <5>1. job[r][e].rec = None
            BY <1>a, <3>2, Zenon DEF Forget, HasRecord, InOrder, Logged
          <5> QED
            BY <1>a, <2>0, <5>1, Zenon DEF InOrder, Logged, Decision
        <4>2. startup[r][e] # 0 => seen[r][e].n # startup[r][e]
          <5>1. seen[r][e].n \in Nat /\ job[r][e].n \in Nat /\ job[r][e].n <= seen[r][e].n
            BY <1>a, <2>0 DEF InOrder, Logged
          <5> QED
            <6> SUFFICES ASSUME startup[r][e] # 0, seen[r][e].n = startup[r][e] PROVE FALSE
              OBVIOUS
            <6>1. startup[r][e] \in Nat /\ startup[r][e] <= job[r][e].n
                  /\ log[e][startup[r][e]] # None
              BY <1>0, <1>a, <2>0 DEF Awaited
            <6>2. job[r][e].n = startup[r][e]
              BY <5>1, <6>1
            <6> QED
              BY <4>1, <6>1, <6>2, Zenon
        <4> QED
          BY <1>a, <1>b, <2>1, <3>1, <4>2, Zenon DEF Awaited
      <3>3. CASE Coalesce(r, e) \/ Publish(r, e)
        <4>1. store'[r][e] = job[r][e].rec.version
          BY <1>0, <3>3 DEF Coalesce, Publish, coalesced, Reproduces
        <4>2. job[r][e].rec.version \in Versions
          BY <3>3, JobTyped, Zenon DEF Coalesce, Publish, LogInv
        <4>3. store'[r][e] # None
          BY <4>1, <4>2, NoneAssumption
        <4> QED
          BY <1>a, <1>b, <2>1, <3>1, <4>3, Zenon DEF Awaited
      <3>4. CASE KeepPrevious(r, e) \/ Transient(r, e)
        <4>1. UNCHANGED <<store, gate>>
          BY <3>4 DEF KeepPrevious, Transient
        <4> QED
          BY <1>a, <1>b, <3>1, <4>1, Waiting
      <3> QED
        BY <1>7, <3>2, <3>3, <3>4, Zenon DEF Finish
    <2> QED
      BY <2>2, <2>3, Zenon DEF AwaitedInv
  <1> QED
    BY <1>1, <1>2, <1>3, <1>4, <1>5, <1>6, <1>7, Zenon DEF Replica

\* AwaitedInv is inductive relative to LogInv.
LEMMA AwaitedStep == LogInv /\ AwaitedInv /\ [Next]_vars => AwaitedInv'
  <1> SUFFICES ASSUME LogInv, AwaitedInv, [Next]_vars PROVE AwaitedInv'
    OBVIOUS
  <1>1. CASE Server \/ UNCHANGED vars
    <2>1. UNCHANGED <<seen, job, store, gate, startup>>
      BY <1>1, ServerRemote
    <2>2. ASSUME NEW r \in Replicas, NEW e \in Engines PROVE Awaited(r, e)'
      <3>1. Awaited(r, e) /\ InOrder(r, e)
        BY DEF AwaitedInv, LogInv, ReplicasLogged
      <3>2. \A i \in 1..Len(log[e]) : log'[e][i] = log[e][i]
        <4>1. CASE UNCHANGED log
          BY <4>1
        <4>2. ASSUME NEW f \in Engines, NEW uid, NEW live, NEW rec, Write(f, uid, live, rec)
              PROVE  \A i \in 1..Len(log[e]) : log'[e][i] = log[e][i]
          BY <4>2, LogGrows DEF Write, LogInv
        <4>3. \/ UNCHANGED log
              \/ \E f \in Engines : \E uid, live, rec : Write(f, uid, live, rec)
          BY <1>1, Zenon DEF Server, CreateEngine, DeleteEngine, Withdraw, Accept, EditRuleSet,
                      DeleteRuleSet, CreateRuleSet
        <4> QED
          BY <4>1, <4>2, <4>3, Zenon
      <3>3. startup[r][e] # 0 => startup[r][e] \in 1..Len(log[e])
        BY <3>1 DEF Awaited, InOrder, Logged
      <3> QED
        BY <2>1, <3>1, <3>2, <3>3, Waiting
    <2> QED
      BY <2>2 DEF AwaitedInv
  <1>2. ASSUME NEW r \in Replicas, Replica(r) PROVE AwaitedInv'
    BY <1>2, ReplicaAwaits
  <1> QED
    BY <1>1, <1>2 DEF Next

\* A replica that is ready before the deadline serves the records it found at
\* startup (PublicationReadiness.Check).
THEOREM PublicationReadyServes == Spec => []ReadyServes
  <1>1. Init => LogInv /\ AwaitedInv
    <2>1. Init => AwaitedInv
      <3>1. Init => \A r \in Replicas, e \in Engines : job[r][e] = None /\ startup[r][e] = 0
        BY DEF Init
      <3> QED
        BY <3>1 DEF AwaitedInv, Awaited
    <2> QED
      BY <2>1, TypedInit, LogInit DEF LogInv
  <1>2. LogInv /\ AwaitedInv /\ [Next]_vars => (LogInv /\ AwaitedInv)'
    BY LogStep, AwaitedStep
  <1>3. LogInv /\ AwaitedInv => ReadyServes
    <2> SUFFICES ASSUME AwaitedInv, NEW r \in Replicas, NEW e \in Engines,
                        Ready(r), ~gate[r].late, startup[r][e] # 0,
                        seen[r][e].n = startup[r][e]
                 PROVE  store[r][e] # None
      BY DEF ReadyServes
    <2>1. e \notin gate[r].pending
      BY DEF Ready
    <2> QED
      BY <2>1 DEF AwaitedInv, Awaited
  <1> QED
    BY <1>1, <1>2, <1>3, PTL DEF Spec

=============================================================================
