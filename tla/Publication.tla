---------------------------- MODULE Publication ----------------------------
(***************************************************************************)
(* The publication controller and the publication readiness gate, on every *)
(* replica of the operator.  The leader's accepted record in an Engine's   *)
(* status is the input; the controller rebuilds the configuration from its *)
(* own caches, publishes it only when it reproduces the record, and keeps  *)
(* the previous snapshot otherwise.  At startup the replica stays unready  *)
(* until the records it found are rebuilt, or a deadline has passed.       *)
(*                                                                         *)
(* All Engines reference one RuleSet; its generation stands for those of   *)
(* the RuleSet and of the inputs it names.  A version is the hash of what  *)
(* it is rendered from, so it is those inputs.  Authz.Refresh is modelled  *)
(* in AuthzIndex; here only its error, which requeues, remains.            *)
(***************************************************************************)
EXTENDS Naturals, Sequences, FiniteSets

CONSTANTS Engines, Replicas,
          Contents,     \* assembled rules and data of the RuleSet
          None,
          MaxBuild,     \* builds of the operator; build b renders schema b
          Fits,         \* Fits[b]: the contents within the limits of build b
          Workers,      \* MaxConcurrentReconciles
          MaxChanges,   \* bound: writes to the API server
          MaxFaults     \* bound: restarts, errors and events that change nothing

Builds == 1..MaxBuild
UIDs == 1..(MaxChanges + 1)

ASSUME PublicationAssumption == /\ MaxBuild \in Nat \ {0}
                                /\ Workers \in Nat \ {0}
                                /\ MaxChanges \in Nat
                                /\ MaxFaults \in Nat

Versions == [schema : Builds, engine : UIDs, ruleset : UIDs, content : Contents]

\* EngineAcceptedConfiguration: complete is whether it records every
\* rendering input (acceptedRenderingInputs).
Records == [version : Versions, complete : BOOLEAN]

VARIABLES
  engine,    \* the Engines in the API server
  ruleset,   \* the RuleSet in the API server
  log,       \* history: the versions accepted for each Engine
  build,     \* the build each replica runs
  seen,      \* seen[r][e]: the Engine in replica r's cache
  inputs,    \* inputs[r]: the RuleSet and its inputs in replica r's cache
  queue,     \* queue[r]: the Engines in the workqueue
  job,       \* job[r][e]: the Engine a running reconcile has read
  store,     \* store[r][e]: the version of the snapshot
  states,    \* states[r][e]: publicationState
  gate,      \* gate[r]: PublicationReadiness
  pos,       \* history: the position in log of what a replica has adopted
  startup,   \* history: the records that gated the replica's readiness
  changes, faults

api == <<engine, ruleset, log, changes>>
cache == <<build, seen, inputs>>
vars == <<engine, ruleset, log, build, seen, inputs, queue, job, store,
          states, gate, pos, startup, changes, faults>>

\* n is the position in log at which this Engine's record was written.
NewEngine == [uid |-> 1, live |-> TRUE, rec |-> None, n |-> 1]

\* An Engine the leader accepted, at build 1, before this history starts.
AcceptedEngine(c) ==
  [uid |-> 1, live |-> TRUE, n |-> 2,
   rec |-> [version |-> [schema |-> 1, engine |-> 1, ruleset |-> 1, content |-> c],
            complete |-> TRUE]]

NoState == [fingerprint |-> None, version |-> None, mismatch |-> FALSE]

\* late: the deadline has passed; expired: reportExpired has run.
NewGate == [initialized |-> FALSE, pending |-> {}, late |-> FALSE, expired |-> FALSE]

Init == /\ \E c \in Contents : ruleset = [uid |-> 1, live |-> TRUE, gen |-> 1, content |-> c]
        /\ engine \in [Engines -> {NewEngine, AcceptedEngine(ruleset.content)}]
        /\ log = [e \in Engines |-> IF engine[e].rec = None THEN <<None>>
                                    ELSE <<None, engine[e].rec.version>>]
        /\ build \in [Replicas -> Builds]
        /\ seen = [r \in Replicas |-> engine]
        /\ inputs = [r \in Replicas |-> ruleset]
        /\ queue = [r \in Replicas |-> Engines]
        /\ job = [r \in Replicas |-> [e \in Engines |-> None]]
        /\ store = [r \in Replicas |-> [e \in Engines |-> None]]
        /\ states = [r \in Replicas |-> [e \in Engines |-> NoState]]
        /\ gate = [r \in Replicas |-> NewGate]
        /\ pos = [r \in Replicas |-> [e \in Engines |-> 1]]
        /\ startup = [r \in Replicas |-> [e \in Engines |-> 0]]
        /\ changes = 0
        /\ faults = 0

----------------------------------------------------------------------------
(* The API server: the leader writes records, users create, edit, delete.  *)

Change == /\ changes < MaxChanges
          /\ changes' = changes + 1
          /\ UNCHANGED <<cache, queue, job, store, states, gate, pos, startup, faults>>

\* Every write that touches Engine e's record is a decision in its log.
Write(e, uid, live, rec) ==
  /\ log' = [log EXCEPT ![e] = Append(@, IF rec = None THEN None ELSE rec.version)]
  /\ engine' = [engine EXCEPT ![e] = [uid |-> uid, live |-> live, rec |-> rec,
                                      n |-> Len(log[e]) + 1]]
  /\ UNCHANGED ruleset

CreateEngine(e) == /\ ~engine[e].live
                   /\ Write(e, engine[e].uid + 1, TRUE, None)
                   /\ Change

\* A deletion timestamp withdraws the configuration like the deletion does.
DeleteEngine(e) == /\ engine[e].live
                   /\ Write(e, engine[e].uid, FALSE, None)
                   /\ Change

\* The leader, at build b, accepts the RuleSet's content.  Old builds left
\* rendering inputs out of the record.
Accept(e, b, complete) ==
  LET rec == [version |-> [schema |-> b, engine |-> engine[e].uid,
                           ruleset |-> ruleset.uid, content |-> ruleset.content],
              complete |-> complete]
  IN /\ engine[e].live
     /\ ruleset.live
     /\ complete \/ b < MaxBuild
     /\ rec # engine[e].rec
     /\ Write(e, engine[e].uid, TRUE, rec)
     /\ Change

Withdraw(e) == /\ engine[e].live
               /\ engine[e].rec # None
               /\ Write(e, engine[e].uid, TRUE, None)
               /\ Change

EditRuleSet(c) == /\ ruleset.live
                  /\ c # ruleset.content
                  /\ ruleset' = [ruleset EXCEPT !.gen = @ + 1, !.content = c]
                  /\ UNCHANGED <<engine, log>>
                  /\ Change

DeleteRuleSet == /\ ruleset.live
                 /\ ruleset' = [ruleset EXCEPT !.live = FALSE]
                 /\ UNCHANGED <<engine, log>>
                 /\ Change

CreateRuleSet(c) == /\ ~ruleset.live
                    /\ ruleset' = [uid |-> ruleset.uid + 1, live |-> TRUE, gen |-> 1,
                                   content |-> c]
                    /\ UNCHANGED <<engine, log>>
                    /\ Change

----------------------------------------------------------------------------
(* Watches                                                                 *)

\* Fault: the record is not part of the key.
publicationPredicateNoRecord(old, new) == old.live # new.live \/ old.uid # new.uid

\* acceptedRecordKey, and the creations and deletions that always pass.
enginePublicationPredicate(old, new) ==
  \/ old.live # new.live
  \/ old.uid # new.uid
  \/ old.rec # new.rec

SyncEngine(r, e) ==
  /\ seen[r][e] # engine[e]
  /\ seen' = [seen EXCEPT ![r][e] = engine[e]]
  /\ queue' = [queue EXCEPT ![r] =
                 IF enginePublicationPredicate(seen[r][e], engine[e]) THEN @ \cup {e} ELSE @]
  /\ UNCHANGED <<api, build, inputs, job, store, states, gate, pos, startup, faults>>

\* Every Engine whose RuleSet changed.
mapRuleSet(r) == {e \in Engines : seen[r][e].live}

SyncRuleSet(r) ==
  /\ inputs[r] # ruleset
  /\ inputs' = [inputs EXCEPT ![r] = ruleset]
  /\ queue' = [queue EXCEPT ![r] = @ \cup mapRuleSet(r)]
  /\ UNCHANGED <<api, build, seen, job, store, states, gate, pos, startup, faults>>

\* A Gateway or Pod event queues an Engine none of whose inputs changed.
Nudge(r, e) ==
  /\ faults < MaxFaults
  /\ faults' = faults + 1
  /\ seen[r][e].live
  /\ e \notin queue[r]
  /\ queue' = [queue EXCEPT ![r] = @ \cup {e}]
  /\ UNCHANGED <<api, cache, job, store, states, gate, pos, startup>>

----------------------------------------------------------------------------
(* Startup and readiness                                                   *)

\* The process is replaced, by the same or another build.  Its caches list
\* the API server and every Engine arrives as a creation.
Restart(r, b) ==
  /\ faults < MaxFaults
  /\ faults' = faults + 1
  /\ build' = [build EXCEPT ![r] = b]
  /\ seen' = [seen EXCEPT ![r] = engine]
  /\ inputs' = [inputs EXCEPT ![r] = ruleset]
  /\ queue' = [queue EXCEPT ![r] = {e \in Engines : engine[e].live}]
  /\ job' = [job EXCEPT ![r] = [e \in Engines |-> None]]
  /\ store' = [store EXCEPT ![r] = [e \in Engines |-> None]]
  /\ states' = [states EXCEPT ![r] = [e \in Engines |-> NoState]]
  /\ gate' = [gate EXCEPT ![r] = NewGate]
  /\ pos' = [pos EXCEPT ![r] = [e \in Engines |-> 1]]
  /\ startup' = [startup EXCEPT ![r] = [e \in Engines |-> 0]]
  /\ UNCHANGED api

\* The records the startup list gates on: an older schema never reproduces.
Gating(r) == {e \in Engines : /\ seen[r][e].rec # None
                              /\ seen[r][e].rec.version.schema = build[r]}

Initialize(r) ==
  /\ ~gate[r].initialized
  /\ gate' = [gate EXCEPT ![r].initialized = TRUE, ![r].pending = Gating(r)]
  /\ startup' = [startup EXCEPT ![r] = [e \in Engines |->
                    IF e \in Gating(r) THEN seen[r][e].n ELSE 0]]
  /\ UNCHANGED <<api, cache, queue, job, store, states, pos, faults>>

\* deadlinePassed becomes true; it is only asked while records are pending.
DeadlinePasses(r) ==
  /\ gate[r].pending # {}
  /\ ~gate[r].late
  /\ gate' = [gate EXCEPT ![r].late = TRUE]
  /\ UNCHANGED <<api, cache, queue, job, store, states, pos, startup, faults>>

\* A probe after the deadline: reportExpired, once.
CheckExpired(r) ==
  /\ gate[r].late
  /\ gate[r].pending # {}
  /\ ~gate[r].expired
  /\ gate' = [gate EXCEPT ![r].expired = TRUE, ![r].pending = {}]
  /\ UNCHANGED <<api, cache, queue, job, store, states, pos, startup, faults>>

\* Fault: the deadline is never consulted.
ReadyNoDeadline(r) == gate[r].initialized /\ gate[r].pending = {}

\* Check returns nil.
Ready(r) == /\ gate[r].initialized
            /\ gate[r].pending = {} \/ gate[r].late

----------------------------------------------------------------------------
(* Reconcile                                                               *)

\* A worker takes Engine e, after Await, and reads it from the cache.
Begin(r, e) ==
  /\ gate[r].initialized
  /\ e \in queue[r]
  /\ job[r][e] = None
  /\ Cardinality({f \in Engines : job[r][f] # None}) < Workers
  /\ queue' = [queue EXCEPT ![r] = @ \ {e}]
  /\ job' = [job EXCEPT ![r][e] = seen[r][e]]
  /\ UNCHANGED <<api, cache, store, states, gate, pos, startup, faults>>

Requeue(r, e) == /\ faults < MaxFaults
                 /\ faults' = faults + 1
                 /\ queue' = [queue EXCEPT ![r] = @ \cup {e}]

\* The reconcile returns, with the error of Authz.Refresh if there was one.
Return(r, e) == /\ job' = [job EXCEPT ![r][e] = None]
                /\ \/ UNCHANGED <<queue, faults>>
                   \/ Requeue(r, e)
                /\ UNCHANGED <<api, cache, startup>>

RecordSuccess(r, e) == gate' = [gate EXCEPT ![r].pending = @ \ {e}]

HasRecord(obj) == obj.live /\ obj.rec # None

\* Fault: the lag marker of a forgotten Engine stays.
ForgetKeepsState(r, e) ==
  /\ job[r][e] # None
  /\ ~HasRecord(job[r][e])
  /\ store' = [store EXCEPT ![r][e] = None]
  /\ RecordSuccess(r, e)
  /\ pos' = [pos EXCEPT ![r][e] = job[r][e].n]
  /\ job' = [job EXCEPT ![r][e] = None]
  /\ UNCHANGED <<api, cache, queue, states, startup, faults>>

\* forgetEngine: the Engine is gone, or has no accepted record.
Forget(r, e) ==
  /\ job[r][e] # None
  /\ ~HasRecord(job[r][e])
  /\ store' = [store EXCEPT ![r][e] = None]
  /\ RecordSuccess(r, e)
  /\ states' = [states EXCEPT ![r][e] = NoState]
  /\ pos' = [pos EXCEPT ![r][e] = job[r][e].n]
  /\ job' = [job EXCEPT ![r][e] = None]
  /\ UNCHANGED <<api, cache, queue, startup, faults>>

\* An input in the cache and of the accepted RuleSet.
Available(r, rec) == inputs[r].live /\ inputs[r].uid = rec.version.ruleset

Fingerprint(r) == <<inputs[r].uid, inputs[r].gen>>

\* Fault: unchanged inputs are taken for an unchanged record.
coalescedByInputs(r, e, rec) == states[r][e].fingerprint = Fingerprint(r)

coalesced(r, e, rec) == /\ states[r][e].fingerprint = Fingerprint(r)
                        /\ states[r][e].version = rec.version
                        /\ store[r][e] = rec.version

\* render.Render from the accepted record and the cached inputs.
Rendered(r, obj) == [schema |-> build[r], engine |-> obj.uid,
                     ruleset |-> inputs[r].uid, content |-> inputs[r].content]

\* Fault: the rendered version is not compared with the accepted one.
ReproducesUnmatched(r, obj) == /\ inputs[r].content \in Fits[build[r]]
                               /\ obj.rec.complete

\* Assemble, limits, acceptedRenderingInputs, Render and Matches all succeed.
Reproduces(r, obj) == /\ inputs[r].content \in Fits[build[r]]
                      /\ obj.rec.complete
                      /\ Rendered(r, obj) = obj.rec.version

\* The inputs and the record are those of the snapshot in the store.
Coalesce(r, e) ==
  /\ job[r][e] # None
  /\ HasRecord(job[r][e])
  /\ Available(r, job[r][e].rec)
  /\ coalesced(r, e, job[r][e].rec)
  /\ RecordSuccess(r, e)
  /\ states' = [states EXCEPT ![r][e].mismatch = FALSE]
  /\ Return(r, e)
  /\ UNCHANGED <<store, pos>>

\* Store.Replace and remember.
Publish(r, e) ==
  /\ job[r][e] # None
  /\ HasRecord(job[r][e])
  /\ Available(r, job[r][e].rec)
  /\ ~coalesced(r, e, job[r][e].rec)
  /\ Reproduces(r, job[r][e])
  /\ store' = [store EXCEPT ![r][e] = Rendered(r, job[r][e])]
  /\ states' = [states EXCEPT ![r][e] = [fingerprint |-> Fingerprint(r),
                                        version |-> job[r][e].rec.version,
                                        mismatch |-> FALSE]]
  /\ pos' = [pos EXCEPT ![r][e] = job[r][e].n]
  /\ RecordSuccess(r, e)
  /\ Return(r, e)

\* Fault: a failed attempt counts as reconstructed.
KeepPreviousReady(r, e) ==
  /\ job[r][e] # None
  /\ HasRecord(job[r][e])
  /\ ~ /\ Available(r, job[r][e].rec)
       /\ coalesced(r, e, job[r][e].rec) \/ Reproduces(r, job[r][e])
  /\ states' = [states EXCEPT ![r][e].mismatch = TRUE]
  /\ RecordSuccess(r, e)
  /\ Return(r, e)
  /\ UNCHANGED <<store, pos>>

\* The record is not reproduced: the previous snapshot stays.
KeepPrevious(r, e) ==
  /\ job[r][e] # None
  /\ HasRecord(job[r][e])
  /\ ~ /\ Available(r, job[r][e].rec)
       /\ coalesced(r, e, job[r][e].rec) \/ Reproduces(r, job[r][e])
  /\ states' = [states EXCEPT ![r][e].mismatch = TRUE]
  /\ Return(r, e)
  /\ UNCHANGED <<store, gate, pos>>

\* A read of the inputs fails for another reason than their absence.
Transient(r, e) ==
  /\ job[r][e] # None
  /\ HasRecord(job[r][e])
  /\ Requeue(r, e)
  /\ job' = [job EXCEPT ![r][e] = None]
  /\ UNCHANGED <<api, cache, startup, store, states, gate, pos>>

Finish(r, e) == Forget(r, e) \/ Coalesce(r, e) \/ Publish(r, e) \/ KeepPrevious(r, e)

----------------------------------------------------------------------------

Server == \/ \E e \in Engines : CreateEngine(e) \/ DeleteEngine(e) \/ Withdraw(e)
          \/ \E e \in Engines, b \in Builds, complete \in BOOLEAN : Accept(e, b, complete)
          \/ \E c \in Contents : EditRuleSet(c) \/ CreateRuleSet(c)
          \/ DeleteRuleSet

Replica(r) == \/ \E e \in Engines : SyncEngine(r, e) \/ Nudge(r, e)
              \/ SyncRuleSet(r)
              \/ \E b \in Builds : Restart(r, b)
              \/ Initialize(r) \/ DeadlinePasses(r) \/ CheckExpired(r)
              \/ \E e \in Engines : Begin(r, e) \/ Finish(r, e) \/ Transient(r, e)

Next == Server \/ \E r \in Replicas : Replica(r)

Spec == Init /\ [][Next]_vars

\* Informers deliver, the queue is drained and a failed item retried, the
\* startup runnable and the clock advance.
Fairness == \A r \in Replicas :
              /\ WF_vars(SyncRuleSet(r))
              /\ WF_vars(Initialize(r))
              /\ WF_vars(DeadlinePasses(r))
              /\ \A e \in Engines : /\ WF_vars(SyncEngine(r, e))
                                    /\ WF_vars(Begin(r, e))
                                    /\ WF_vars(Finish(r, e))

FairSpec == Spec /\ Fairness

----------------------------------------------------------------------------
(* Properties                                                              *)

Objects == [uid : UIDs, live : BOOLEAN, rec : Records \cup {None}, n : Nat]
RuleSets == [uid : UIDs, live : BOOLEAN, gen : Nat, content : Contents]

ASSUME NoneAssumption == None \notin Versions /\ None \notin Records /\ None \notin Objects

\* The type of the state.
PublicationTypeOK ==
  /\ engine \in [Engines -> Objects]
  /\ ruleset \in RuleSets
  /\ log \in [Engines -> Seq(Versions \cup {None})]
  /\ build \in [Replicas -> Builds]
  /\ seen \in [Replicas -> [Engines -> Objects]]
  /\ inputs \in [Replicas -> RuleSets]
  /\ queue \in [Replicas -> SUBSET Engines]
  /\ job \in [Replicas -> [Engines -> Objects \cup {None}]]
  /\ store \in [Replicas -> [Engines -> Versions \cup {None}]]
  /\ states \in [Replicas -> [Engines ->
        [fingerprint : (UIDs \X Nat) \cup {None}, version : Versions \cup {None},
         mismatch : BOOLEAN]]]
  /\ gate \in [Replicas -> [initialized : BOOLEAN, pending : SUBSET Engines,
                            late : BOOLEAN, expired : BOOLEAN]]
  /\ pos \in [Replicas -> [Engines -> Nat]]
  /\ startup \in [Replicas -> [Engines -> Nat]]
  /\ changes \in 0..MaxChanges
  /\ faults \in 0..MaxFaults

Serving == INSTANCE EcdsServing WITH served <- store

\* The replicas implement EcdsServing: whatever the order in which caches,
\* reconciles, restarts, upgrades and the leader's writes interleave, each
\* snapshot in a store is a configuration the leader accepted for that
\* Engine, none is replaced by an older decision, and a snapshot is only
\* dropped when its record was withdrawn (PublicationReconciler: "keeps the
\* previous snapshot whenever its local reconstruction does not reproduce
\* the accepted record byte-for-byte").
Serves == Serving!Spec

\* No reconcile of Engine e is due on replica r.
Settled(r, e) == e \notin queue[r] /\ job[r][e] = None /\ gate[r].initialized

\* Between reconciles, a record the caches reproduce is the one served, and
\* an Engine without a record is not served: the watches miss no change that
\* matters and coalescing skips no publication that is due.
SettledServes ==
  \A r \in Replicas, e \in Engines : Settled(r, e) =>
     /\ ~HasRecord(seen[r][e]) => store[r][e] = None
     /\ /\ HasRecord(seen[r][e])
        /\ Available(r, seen[r][e].rec)
        /\ Reproduces(r, seen[r][e])
        => store[r][e] = seen[r][e].rec.version

\* Between reconciles, the lag marker is set for every accepted record that
\* is not served, and for no Engine without a record: the age reported by
\* oldestMismatchSeconds misses no stuck Engine and outlives none.
LagReported ==
  \A r \in Replicas, e \in Engines : Settled(r, e) =>
     IF HasRecord(seen[r][e])
     THEN store[r][e] = seen[r][e].rec.version \/ states[r][e].mismatch
     ELSE ~states[r][e].mismatch

\* A replica that is ready before the deadline serves every Engine whose
\* record it found at startup, unless that record has been replaced since.
ReadyServes ==
  \A r \in Replicas, e \in Engines :
     /\ Ready(r)
     /\ ~gate[r].late
     /\ startup[r][e] # 0
     /\ seen[r][e].n = startup[r][e]
     => store[r][e] # None

\* No replica stays unready: a record this build can never reconstruct stops
\* gating readiness at the deadline.
EventuallyReady == \A r \in Replicas : []<>Ready(r)

\* The record in the API server is one replica r can reproduce.
Agrees(r, e) == /\ HasRecord(engine[e])
                /\ engine[e].rec.complete
                /\ ruleset.live
                /\ ruleset.content \in Fits[build[r]]
                /\ engine[e].rec.version =
                     [schema |-> build[r], engine |-> engine[e].uid,
                      ruleset |-> ruleset.uid, content |-> ruleset.content]

\* A replica ends up serving the accepted record if it can reproduce it, and
\* nothing if there is none.
Converges ==
  \A r \in Replicas, e \in Engines :
     /\ <>[]Agrees(r, e) => <>[](HasRecord(engine[e]) /\ store[r][e] = engine[e].rec.version)
     /\ <>[](~HasRecord(engine[e])) => <>[](store[r][e] = None)

=============================================================================
