-------------------------- MODULE EngineController --------------------------
(***************************************************************************)
(* The Engine controller on the leader: target checks, the conflict of     *)
(* Engines over one Gateway, the wait for the RuleSet, the NetworkPolicy,  *)
(* Telemetry and EnvoyFilter it provisions, and the accepted record.       *)
(*                                                                         *)
(* One worker reconciles; between two of its calls to the API server       *)
(* anything else may happen.  Objects the controller itself writes are     *)
(* read through a cache that may lag (seen, seenEf, seenNp).  The Gateway, *)
(* the GatewayClass, the RuleSet and its inputs are written by others, so  *)
(* a lagging read of them is the same as a later write: these variables    *)
(* are the cache's view.  Delays of a requeue are left out.                *)
(***************************************************************************)
EXTENDS Naturals, FiniteSets

CONSTANTS Engines,     \* names, ordered: a set of naturals; all target one Gateway
          Contents,    \* contents of the RuleSet's inputs
          Oversized,   \* the contents above the delivery limits
          Names,       \* names of an Engine's NetworkPolicies; bound: how many it may have
          None,
          MaxUID,      \* bound: incarnations of the RuleSet
          MaxChanges,  \* bound: writes by users and by the RuleSet controller
          MaxFaults,   \* bound: failed calls and restarts
          Starts       \* Engines, input content and bounds used, as a behaviour starts

Policies == {"fail", "allow"}

\* The conditions of an Engine.  phase is what Ready and Progressing say, with
\* the generation they observed; a Degraded condition may outlive it.
NoConds == [accepted |-> "none", acceptedGen |-> 0, phase |-> "none", phaseGen |-> 0,
            degraded |-> FALSE, observability |-> "none"]

\* fin: the NetworkPolicy finalizer; born: creationTimestamp.
Absent == [live |-> FALSE, deleting |-> FALSE, fin |-> FALSE, gen |-> 0, born |-> 0,
           policy |-> "fail", observed |-> FALSE, conds |-> NoConds, rec |-> None]

Created(born, policy, observed) ==
  [Absent EXCEPT !.live = TRUE, !.gen = 1, !.born = born, !.policy = policy,
                 !.observed = observed]

\* An object is gone once it is deleted and has no finalizer left.
Gone(obj) == [Absent EXCEPT !.born = obj.born]

\* A version is the hash of what it is rendered from.
Version(uid, content, policy) == <<uid, content, policy>>
Versions == (1..MaxUID) \X Contents \X Policies

Records == [gen : Nat, version : Versions, uid : 1..MaxUID, hash : Contents,
            policy : Policies]
Conds == [accepted : {"none", "true", "false"}, acceptedGen : Nat,
          phase : {"none", "starting", "awaiting", "ready", "degraded", "rejected"},
          phaseGen : Nat, degraded : BOOLEAN, observability : {"none", "true", "false"}]
Objects == [live : BOOLEAN, deleting : BOOLEAN, fin : BOOLEAN, gen : Nat, born : Nat,
            policy : Policies, observed : BOOLEAN, rec : Records \cup {None}, conds : Conds]
Owners == [Engines -> [filter : Nat, telemetry : Nat]]

\* A new Engine, and one that a reconcile has provisioned for content c.
Provision(c, policy, observed) ==
  [Created(0, policy, observed) EXCEPT !.fin = TRUE,
     !.conds = [accepted |-> "true", acceptedGen |-> 1, phase |-> "ready", phaseGen |-> 1,
                degraded |-> FALSE, observability |-> IF observed THEN "true" ELSE "none"],
     !.rec = [gen |-> 1, version |-> Version(1, c, policy), uid |-> 1, hash |-> c,
              policy |-> policy]]

\* As a behaviour starts, an Engine is new, provisioned for the content, or not there.
StartObjects(c) ==
  UNION {{Created(b, p, o), Gone(Created(b, p, o)), Provision(c, p, o)} :
            b \in 0..MaxChanges, p \in Policies, o \in BOOLEAN}

ASSUME EngineAssumption ==
  /\ Engines \subseteq Nat /\ Names # {}
  /\ MaxUID \in Nat \ {0} /\ MaxChanges \in Nat /\ MaxFaults \in Nat
  /\ None \notin Policies \cup Contents \cup Records \cup Versions
  /\ \A start \in Starts : /\ start.content \in Contents
                            /\ start.eng \in [Engines -> StartObjects(start.content)]
                            /\ start.changes \in 0..MaxChanges
                            /\ start.faults \in 0..MaxFaults

VARIABLES
  eng,        \* the Engines in the API server
  gateway,    \* whether the target Gateway exists
  collector,  \* whether its GatewayClass declares a WAF log collector
  rs,         \* the RuleSet
  src,        \* its inputs: their content, None when one is missing, and the
              \* generation, which stands for those of the RuleSet and of each input
  ef,         \* ef[e]: bootstrap policy annotation of the EnvoyFilter, or None
  np,         \* np[e]: the NetworkPolicies labelled with Engine e
  tele,       \* the Engines that have a Telemetry
  owner,      \* owner[e]: the incarnations of Engine e that EnvoyFilter and Telemetry name
  seen, seenEf, seenNp,  \* the caches
  queue, job, \* the workqueue and the running reconcile
  recorded,   \* history: versions ever recorded as accepted, by Engine
  approved,   \* history: the contents the RuleSet controller accepted
  changes, faults

api == <<eng, ef, np, tele, owner>>
world == <<gateway, collector, rs, src>>
caches == <<seen, seenEf, seenNp>>
vars == <<eng, gateway, collector, rs, src, ef, np, tele, owner, seen, seenEf, seenNp,
          queue, job, recorded, approved, changes, faults>>

\* inputs is what the version was rendered from; applied the bootstrap
\* policy the reconcile applied.
Idle == [e |-> 0, at |-> "idle", obj |-> Absent, version |-> None, inputs |-> 0,
         applied |-> None]

\* generateName.  Which free name it is makes no difference.
NewName(used) == CHOOSE n \in Names : n \notin used

Init == /\ \E start \in Starts : /\ eng = start.eng
                                 /\ src = [content |-> start.content, gen |-> 1]
                                 /\ changes = start.changes
                                 /\ faults = start.faults
        /\ gateway = TRUE
        /\ collector = TRUE
        /\ rs = [live |-> TRUE, uid |-> 1, accepted |-> src.content, bad |-> "no"]
        /\ recorded = [e \in Engines |-> IF eng[e].rec = None THEN {} ELSE {eng[e].rec.version}]
        /\ ef = [e \in Engines |-> IF eng[e].rec = None THEN None ELSE eng[e].policy]
        /\ np = [e \in Engines |-> IF eng[e].rec = None THEN {} ELSE {NewName({})}]
        /\ tele = {e \in Engines : eng[e].rec # None /\ eng[e].observed}
        /\ owner = [e \in Engines |-> [filter |-> eng[e].born, telemetry |-> eng[e].born]]
        /\ seen = eng
        /\ seenEf = ef
        /\ seenNp = np
        /\ queue = {e \in Engines : eng[e].live}
        /\ job = Idle
        /\ approved = {<<1, src.content>>}

----------------------------------------------------------------------------
(* Users and the RuleSet controller, and the watches on what they write.   *)

Change == /\ changes < MaxChanges
          /\ changes' = changes + 1
          /\ UNCHANGED <<ef, np, tele, owner, caches, job, recorded, faults>>

\* A name is used at most twice.
CreateEngine(e, p, o) == /\ ~eng[e].live
                         /\ eng[e].born = 0
                         /\ eng' = [eng EXCEPT ![e] = Created(changes + 1, p, o)]
                         /\ UNCHANGED <<world, queue, approved>>
                         /\ Change

EditEngine(e, p, o) == /\ eng[e].live /\ ~eng[e].deleting
                       /\ <<p, o>> # <<eng[e].policy, eng[e].observed>>
                       /\ eng' = [eng EXCEPT ![e].policy = p, ![e].observed = o, ![e].gen = @ + 1]
                       /\ UNCHANGED <<world, queue, approved>>
                       /\ Change

DeleteEngine(e) == /\ eng[e].live /\ ~eng[e].deleting
                   /\ eng' = [eng EXCEPT ![e] = IF eng[e].fin
                                THEN [eng[e] EXCEPT !.deleting = TRUE, !.gen = eng[e].gen + 1]
                                ELSE Gone(eng[e])]
                   /\ UNCHANGED <<world, queue, approved>>
                   /\ Change

\* findEnginesForRuleSet, findEnginesForGateway, findEnginesForGatewayClass.
Cached == {e \in Engines : seen[e].live}
Observed == {e \in Cached : seen[e].observed}

ChangeGateway == /\ gateway' = ~gateway
                 /\ queue' = queue \cup Cached
                 /\ UNCHANGED <<eng, collector, rs, src, approved>>
                 /\ Change

ChangeCollector == /\ collector' = ~collector
                   /\ queue' = queue \cup Observed
                   /\ UNCHANGED <<eng, gateway, rs, src, approved>>
                   /\ Change

\* An input is edited, which this controller does not watch, or the list of them
\* in the spec of the RuleSet, which it does.
EditInputs(c) == /\ c # src.content
                 /\ src' = [content |-> c, gen |-> src.gen + 1]
                 /\ queue' = queue \/ (rs.live /\ queue' = queue \cup Cached)
                 /\ UNCHANGED <<eng, gateway, collector, rs, approved>>
                 /\ Change

WriteRuleSet(new) == /\ rs' = new
                     /\ queue' = queue \cup Cached
                     /\ approved' = IF new.accepted = None THEN approved
                                    ELSE approved \cup {<<new.uid, new.accepted>>}
                     /\ UNCHANGED <<eng, gateway, collector, src>>
                     /\ Change

RuleSetAccepts == /\ rs.live /\ src.content # None
                  /\ rs.accepted # src.content \/ rs.bad # "no"
                  /\ WriteRuleSet([rs EXCEPT !.accepted = src.content, !.bad = "no"])

\* A missing input or an invalid edit keeps the accepted content; content
\* that this build refuses drops it.
RuleSetDegrades == /\ rs.live /\ rs.bad = "no"
                   /\ WriteRuleSet([rs EXCEPT !.bad = "degraded"])

RuleSetRejects == /\ rs.live /\ rs.bad = "no"
                  /\ WriteRuleSet([rs EXCEPT !.accepted = None, !.bad = "rejected"])

DeleteRuleSet == /\ rs.live
                 /\ WriteRuleSet([rs EXCEPT !.live = FALSE, !.accepted = None, !.bad = "no"])

CreateRuleSet == /\ ~rs.live /\ rs.uid < MaxUID
                 /\ WriteRuleSet([rs EXCEPT !.live = TRUE, !.uid = @ + 1])

World == \/ \E e \in Engines, p \in Policies, o \in BOOLEAN :
               CreateEngine(e, p, o) \/ EditEngine(e, p, o)
         \/ \E e \in Engines : DeleteEngine(e)
         \/ \E c \in Contents \cup {None} : EditInputs(c)
         \/ ChangeGateway \/ ChangeCollector
         \/ RuleSetAccepts \/ RuleSetDegrades \/ RuleSetRejects
         \/ DeleteRuleSet \/ CreateRuleSet

----------------------------------------------------------------------------
(* The watches on what the controller writes.                            *)

\* GenerationChangedPredicate, and creations and deletions; born tells incarnations apart.
Passes(old, new) == old.live # new.live \/ old.gen # new.gen \/ old.born # new.born

\* Fault: only the Engine itself is queued.
SyncEngineAlone(e) ==
  /\ seen[e] # eng[e]
  /\ seen' = [seen EXCEPT ![e] = eng[e]]
  /\ queue' = IF Passes(seen[e], eng[e]) THEN queue \cup {e} ELSE queue
  /\ UNCHANGED <<api, world, seenEf, seenNp, job, recorded, approved, changes, faults>>

\* The Engine itself and, by competingEngineHandler, those with its target.
SyncEngine(e) ==
  /\ seen[e] # eng[e]
  /\ seen' = [seen EXCEPT ![e] = eng[e]]
  /\ queue' = IF Passes(seen[e], eng[e]) THEN queue \cup {e} \cup Cached ELSE queue
  /\ UNCHANGED <<api, world, seenEf, seenNp, job, recorded, approved, changes, faults>>

SyncEnvoyFilter(e) ==
  /\ seenEf[e] # ef[e]
  /\ seenEf' = [seenEf EXCEPT ![e] = ef[e]]
  /\ queue' = queue \cup {e}
  /\ UNCHANGED <<api, world, seen, seenNp, job, recorded, approved, changes, faults>>

SyncNetworkPolicy(e) ==
  /\ seenNp[e] # np[e]
  /\ seenNp' = [seenNp EXCEPT ![e] = np[e]]
  /\ queue' = queue \cup {e}
  /\ UNCHANGED <<api, world, seen, seenEf, job, recorded, approved, changes, faults>>

\* The EnvoyFilter or the Telemetry names an owner that is gone, though there may be
\* another Engine of that name.
GarbageCollect(e) ==
  /\ \/ /\ ef[e] # None /\ ~(eng[e].live /\ owner[e].filter = eng[e].born)
        /\ ef' = [ef EXCEPT ![e] = None]
        /\ UNCHANGED <<tele, queue>>
     \/ /\ e \in tele /\ ~(eng[e].live /\ owner[e].telemetry = eng[e].born)
        /\ tele' = tele \ {e}
        /\ queue' = queue \cup {e}
        /\ UNCHANGED ef
  /\ UNCHANGED <<eng, np, owner, world, caches, job, recorded, approved, changes, faults>>

----------------------------------------------------------------------------
(* Reconcile.  job.at names the call to the API server that comes next.    *)

AtStep(step) == job.at = step

Fault == faults < MaxFaults /\ faults' = faults + 1

\* Fault: an Engine that is gone is ignored.
BeginNoOrphan(e) ==
  LET obj == seen[e]
      at == IF ~obj.live \/ (obj.deleting /\ ~obj.fin) THEN "idle"
            ELSE IF obj.deleting THEN "cleanup"
            ELSE IF ~obj.fin THEN "finalizer"
            ELSE IF obj.conds.phase = "none" THEN "start" ELSE "target"
  IN /\ AtStep("idle")
     /\ e \in queue
     /\ queue' = queue \ {e}
     /\ job' = IF at = "idle" THEN Idle ELSE [Idle EXCEPT !.e = e, !.at = at, !.obj = obj]
     /\ UNCHANGED <<api, world, caches, recorded, approved, changes, faults>>

\* Get and the branches before the first write.
Begin(e) ==
  LET obj == seen[e]
      at == IF ~obj.live THEN "orphan"
            ELSE IF obj.deleting THEN IF obj.fin THEN "cleanup" ELSE "idle"
            ELSE IF ~obj.fin THEN "finalizer"
            ELSE IF obj.conds.phase = "none" THEN "start" ELSE "target"
  IN /\ AtStep("idle")
     /\ e \in queue
     /\ queue' = queue \ {e}
     /\ job' = IF at = "idle" THEN Idle ELSE [Idle EXCEPT !.e = e, !.at = at, !.obj = obj]
     /\ UNCHANGED <<api, world, caches, recorded, approved, changes, faults>>

\* The owner of a Telemetry that this step writes or deletes is queued.
Queued == IF tele' = tele THEN queue ELSE queue \cup {job.e}

\* Reconcile goes on to another call, or returns.
GoTo(step) == /\ job' = [job EXCEPT !.at = step]
              /\ queue' = Queued

Return(again) == /\ job' = Idle
                 /\ queue' = IF again THEN queue \cup {job.e} ELSE Queued

Quiet == UNCHANGED <<world, caches, recorded, approved, changes, faults>>

\* JSON merge patch: what the reconcile did not change stays as it is in the
\* API server.  Of a record that is there, only the fields that differ are sent.
MergedConds(new) == IF new = job.obj.conds THEN eng[job.e].conds ELSE new

MergedRecord(new) ==
  IF new = job.obj.rec THEN eng[job.e].rec
  ELSE IF new = None \/ job.obj.rec = None THEN new
  ELSE LET field(f) == IF new[f] = job.obj.rec[f] THEN eng[job.e].rec[f] ELSE new[f]
       IN [gen |-> field("gen"), version |-> field("version"), uid |-> field("uid"),
           hash |-> field("hash"), policy |-> field("policy")]

\* The Engine is gone, or the patch would leave a record without the
\* required fields that did not change.
Refused(new) == \/ ~eng[job.e].live
                \/ /\ new # None /\ job.obj.rec # None /\ new # job.obj.rec
                   /\ eng[job.e].rec = None

\* Status().Patch, which also reads the object back into the reconcile; after
\* it the reconcile goes on to step, or returns ("idle").
Patch(conds, rec, step, again) ==
  IF Refused(rec) THEN Return(TRUE) /\ UNCHANGED eng
  ELSE /\ eng' = [eng EXCEPT ![job.e].conds = MergedConds(conds),
                             ![job.e].rec = MergedRecord(rec)]
       /\ IF step = "idle" THEN Return(again)
          ELSE /\ job' = [job EXCEPT !.at = step, !.obj = eng'[job.e]]
               /\ queue' = Queued

Ready(conds, gen) == [conds EXCEPT !.phase = "ready", !.phaseGen = gen, !.degraded = FALSE]
Progressing(conds, gen, phase) == [conds EXCEPT !.phase = phase, !.phaseGen = gen]
Degraded(conds, gen) == [conds EXCEPT !.phase = "degraded", !.phaseGen = gen, !.degraded = TRUE]
NotAccepted(conds, gen) ==
  [conds EXCEPT !.accepted = "false", !.acceptedGen = gen,
                !.phase = "rejected", !.phaseGen = gen, !.degraded = FALSE]

patchDegraded(rec, again) ==
  Patch(Degraded(job.obj.conds, job.obj.gen), rec, "idle", again)

\* cleanupNetworkPolicy: those the cache lists.
cleanupNetworkPolicy == np' = [np EXCEPT ![job.e] = @ \ seenNp[job.e]]

CleanupOrphan == /\ AtStep("orphan")
                 /\ UNCHANGED <<eng, ef, tele, owner>> /\ Quiet
                 /\ cleanupNetworkPolicy
                 /\ Return(FALSE)

\* handleNetworkPolicyDeletion.
CleanupDeleted == /\ AtStep("cleanup")
                  /\ UNCHANGED <<eng, ef, tele, owner>> /\ Quiet
                  /\ cleanupNetworkPolicy
                  /\ GoTo("release")

\* The merge patch goes by name: another Engine of that name, which is not being
\* deleted, only loses its finalizer.
RemoveFinalizer == /\ AtStep("release")
                   /\ UNCHANGED <<ef, np, tele, owner>> /\ Quiet
                   /\ eng' = [eng EXCEPT ![job.e] = IF @.deleting THEN Gone(@)
                                                    ELSE [@ EXCEPT !.fin = FALSE]]
                   /\ Return(~eng[job.e].live)

ensureNetworkPolicyFinalizer ==
  /\ AtStep("finalizer")
  /\ UNCHANGED <<ef, np, tele, owner>> /\ Quiet
  /\ eng' = [eng EXCEPT ![job.e].fin = @ \/ eng[job.e].live]
  /\ Return(TRUE)

InitialStatus ==
  /\ AtStep("start")
  /\ UNCHANGED <<ef, np, tele, owner>> /\ Quiet
  /\ Patch(Progressing(job.obj.conds, job.obj.gen, "starting"), job.obj.rec, "target", TRUE)

\* hasTargetConflict: the oldest Engine that is not being deleted wins.
Candidates(objs) == {f \in Engines : objs[f].live /\ ~objs[f].deleting}
Older(objs, f, g) == \/ objs[f].born < objs[g].born
                     \/ objs[f].born = objs[g].born /\ f < g
Winner(objs) == CHOOSE f \in Candidates(objs) :
                  \A g \in Candidates(objs) \ {f} : Older(objs, f, g)
hasTargetConflict(e) == Cardinality(Candidates(seen)) > 1 /\ Winner(seen) # e

TargetRefused == ~gateway \/ hasTargetConflict(job.e)

\* rejectTarget: Telemetry, EnvoyFilter, NetworkPolicies, then the status.
CleanupTelemetry ==
  /\ AtStep("target")
  /\ TargetRefused
  /\ tele' = tele \ {job.e}
  /\ GoTo("detaching")
  /\ UNCHANGED <<eng, ef, np, owner>> /\ Quiet

\* Fault: the EnvoyFilter stays.
CleanupEnvoyFilterNever ==
  /\ AtStep("detaching")
  /\ UNCHANGED <<eng, ef, np, tele, owner>> /\ Quiet
  /\ GoTo("rejecting")

CleanupEnvoyFilter ==
  /\ AtStep("detaching")
  /\ UNCHANGED <<eng, np, tele, owner>> /\ Quiet
  /\ ef' = [ef EXCEPT ![job.e] = IF seenEf[job.e] = None THEN @ ELSE None]
  /\ GoTo("rejecting")

CleanupPolicies == /\ AtStep("rejecting")
                   /\ UNCHANGED <<eng, ef, tele, owner>> /\ Quiet
                   /\ cleanupNetworkPolicy
                   /\ GoTo("reject")

patchNotAccepted ==
  /\ AtStep("reject")
  /\ UNCHANGED <<ef, np, tele, owner>> /\ Quiet
  /\ Patch(NotAccepted(job.obj.conds, job.obj.gen), job.obj.rec, "idle", FALSE)

needsAcceptedUpdate == \/ job.obj.conds.accepted # "true"
                       \/ job.obj.conds.acceptedGen # job.obj.gen

AcceptTarget ==
  /\ AtStep("target")
  /\ UNCHANGED <<ef, np, tele, owner>> /\ Quiet
  /\ ~TargetRefused
  /\ IF needsAcceptedUpdate
     THEN Patch([job.obj.conds EXCEPT !.accepted = "true", !.acceptedGen = job.obj.gen],
                job.obj.rec, "ruleset", TRUE)
     ELSE GoTo("ruleset") /\ UNCHANGED eng


\* acceptedRecordUnjustified.
Justified(rec) == IF rec # None /\ (rec.uid # rs.uid \/ rs.bad = "rejected") THEN None ELSE rec

\* Telemetry goes when observability is off; then isRuleSetDegraded.
CheckRuleSet ==
  /\ AtStep("ruleset")
  /\ tele' = IF job.obj.observed THEN tele ELSE tele \ {job.e}
  /\ CASE ~rs.live -> patchDegraded(None, FALSE)
       [] rs.live /\ rs.bad # "no" -> patchDegraded(Justified(job.obj.rec), FALSE)
       [] rs.live /\ rs.bad = "no" -> GoTo("content") /\ UNCHANGED eng
  /\ UNCHANGED <<ef, np, owner>> /\ Quiet

\* awaitRuleSetAcceptance.
Await(rec) ==
  IF /\ job.obj.conds.phase = "awaiting" /\ job.obj.conds.phaseGen = job.obj.gen
     /\ rec = job.obj.rec
  THEN Return(TRUE) /\ UNCHANGED eng
  ELSE Patch(Progressing(job.obj.conds, job.obj.gen, "awaiting"), rec, "idle", TRUE)

\* Fault: the inputs are rendered whatever content was accepted.
AcceptedContentUnmatched ==
  /\ AtStep("content")
  /\ UNCHANGED <<ef, np, tele, owner>> /\ Quiet
  /\ IF ~rs.live THEN patchDegraded(None, TRUE)
     ELSE /\ job' = [job EXCEPT !.at = "policy", !.inputs = src.gen,
                       !.version = Version(rs.uid, src.content, job.obj.policy)]
          /\ UNCHANGED <<eng, queue>>

\* acceptedRuleSetContent, and Render.
AcceptedContent ==
  /\ AtStep("content")
  /\ UNCHANGED <<ef, np, tele, owner>> /\ Quiet
  /\ LET rec == Justified(job.obj.rec) IN
     CASE ~rs.live -> patchDegraded(None, TRUE)
       [] rs.live /\ (rs.accepted = None \/ rs.bad # "no") -> Await(rec)
       [] rs.live /\ rs.accepted # None /\ rs.bad = "no" /\ src.content = None ->
            patchDegraded(rec, TRUE)
       [] rs.live /\ rs.accepted # None /\ rs.bad = "no" /\ src.content # None ->
            IF src.content # rs.accepted THEN Await(rec)
            ELSE IF src.content \in Oversized THEN patchDegraded(None, TRUE)
            ELSE /\ job' = [job EXCEPT !.at = "policy", !.inputs = src.gen,
                              !.version = Version(rs.uid, src.content, job.obj.policy)]
                 /\ UNCHANGED <<eng, queue>>

engineInputsChanged == \/ ~seen[job.e].live
                       \/ seen[job.e].born # job.obj.born
                       \/ seen[job.e].gen # job.obj.gen
                       \/ ~rs.live
                       \/ rs.uid # job.version[1]
                       \/ src.gen # job.inputs

InputsChanged == /\ AtStep("policy")
                 /\ UNCHANGED api /\ Quiet
                 /\ engineInputsChanged
                 /\ Return(TRUE)

\* applyNetworkPolicy updates one the cache lists, or creates one.
applyNetworkPolicy ==
  /\ AtStep("policy")
  /\ UNCHANGED <<ef, tele, owner>> /\ Quiet
  /\ ~engineInputsChanged
  /\ \/ /\ seenNp[job.e] \cap np[job.e] # {}
        /\ GoTo("telemetry")
        /\ UNCHANGED <<eng, np>>
     \/ /\ seenNp[job.e] \ np[job.e] # {}
        /\ patchDegraded(job.obj.rec, TRUE)
        /\ UNCHANGED np
     \/ /\ seenNp[job.e] = {} /\ np[job.e] # Names
        /\ np' = [np EXCEPT ![job.e] = @ \cup {NewName(@)}]
        /\ GoTo("telemetry")
        /\ UNCHANGED eng

\* reconcileTelemetry and the ObservabilityReady condition; its failure does
\* not stop the provisioning.
reconcileTelemetry ==
  /\ AtStep("telemetry")
  /\ tele' = IF ~job.obj.observed \/ (gateway /\ ~collector) THEN tele \ {job.e}
             ELSE IF gateway THEN tele \cup {job.e} ELSE tele
  /\ owner' = IF job.obj.observed /\ gateway /\ collector
              THEN [owner EXCEPT ![job.e].telemetry = job.obj.born] ELSE owner
  /\ IF job.obj.observed
     THEN LET ready == IF gateway /\ collector THEN "true" ELSE "false"
          IN Patch([job.obj.conds EXCEPT !.observability = ready], job.obj.rec, "filter", TRUE)
     ELSE GoTo("filter") /\ UNCHANGED eng
  /\ UNCHANGED <<ef, np>> /\ Quiet

Desired == job.version[3]

\* Fault: the desired policy is applied at once.
bootstrapPolicyDesired(previous, desired, acceptedActive) == desired

bootstrapPolicy(previous, desired, acceptedActive) ==
  IF desired = "allow" /\ (previous = "allow" \/ (previous # None /\ acceptedActive))
  THEN "allow" ELSE "fail"

applyEnvoyFilter ==
  LET rec == job.obj.rec
      acceptedActive == rec # None /\ rec.version = job.version /\ rec.policy = Desired
      applied == bootstrapPolicy(seenEf[job.e], Desired, acceptedActive)
  IN /\ AtStep("filter")
     /\ UNCHANGED <<eng, np, tele, queue>> /\ Quiet
     /\ ef' = [ef EXCEPT ![job.e] = applied]
     /\ owner' = [owner EXCEPT ![job.e].filter = job.obj.born]
     /\ job' = [job EXCEPT !.at = "record", !.applied = applied]

NewRecord == [gen |-> job.obj.gen, version |-> job.version, uid |-> job.version[1],
              hash |-> job.version[2], policy |-> Desired]

\* The requeue that converges a deferred weakening or retries the Telemetry.
Again == \/ job.applied # Desired
         \/ job.obj.observed /\ job.obj.conds.observability = "false"

patchAcceptedConfiguration ==
  /\ AtStep("record")
  /\ UNCHANGED <<ef, np, tele, owner, world, caches, approved, changes, faults>>
  /\ IF /\ job.obj.rec = NewRecord
        /\ job.obj.conds.phase = "ready" /\ job.obj.conds.phaseGen = job.obj.gen
     THEN Return(Again) /\ UNCHANGED <<eng, recorded>>
     ELSE /\ Patch(Ready(job.obj.conds, job.obj.gen), NewRecord, "idle", Again)
          /\ recorded' = IF Refused(NewRecord) THEN recorded
                         ELSE [recorded EXCEPT ![job.e] = @ \cup {job.version}]

----------------------------------------------------------------------------
(* Faults                                                                  *)

\* The next call fails; the workqueue retries.
CallFails == /\ ~AtStep("idle")
             /\ Fault
             /\ UNCHANGED <<api, world, caches, recorded, approved, changes>>
             /\ Return(TRUE)

\* It fails where the Engine is then marked Degraded: an invalid driver,
\* binary or target, Render, the NetworkPolicy, the CA, the EnvoyFilter.
ProvisioningFails == /\ job.at \in {"content", "policy", "filter"}
                     /\ Fault
                     /\ UNCHANGED <<ef, np, tele, owner, world, caches, recorded, approved, changes>>
                     /\ patchDegraded(job.obj.rec, TRUE)

\* A new leader: its caches list the API server, every object is a creation.
Restart == /\ Fault
           /\ job' = Idle
           /\ seen' = eng
           /\ seenEf' = ef
           /\ seenNp' = np
           /\ queue' = {e \in Engines : eng[e].live \/ ef[e] # None \/ np[e] # {}}
           /\ UNCHANGED <<api, world, recorded, approved, changes>>

----------------------------------------------------------------------------

Step == \/ CleanupOrphan \/ CleanupDeleted \/ RemoveFinalizer
        \/ ensureNetworkPolicyFinalizer \/ InitialStatus
        \/ CleanupTelemetry \/ CleanupEnvoyFilter \/ CleanupPolicies \/ patchNotAccepted
        \/ AcceptTarget
        \/ CheckRuleSet \/ AcceptedContent \/ InputsChanged \/ applyNetworkPolicy
        \/ reconcileTelemetry \/ applyEnvoyFilter \/ patchAcceptedConfiguration

Caches == \E e \in Engines : SyncEngine(e) \/ SyncEnvoyFilter(e) \/ SyncNetworkPolicy(e)

Next == \/ World
        \/ Caches
        \/ \E e \in Engines : GarbageCollect(e) \/ Begin(e)
        \/ Step
        \/ CallFails \/ ProvisioningFails \/ Restart

Spec == Init /\ [][Next]_vars

\* The worker runs, every queued Engine gets its turn, watches deliver and
\* garbage collection runs.
Fairness == /\ WF_vars(Step)
            /\ \A e \in Engines : /\ SF_vars(Begin(e))
                                  /\ WF_vars(SyncEngine(e))
                                  /\ WF_vars(SyncEnvoyFilter(e))
                                  /\ WF_vars(SyncNetworkPolicy(e))
                                  /\ WF_vars(GarbageCollect(e))

FairSpec == Spec /\ Fairness

----------------------------------------------------------------------------
(* Properties                                                              *)

\* The type of the state.
EngineTypeOK ==
  /\ eng \in [Engines -> Objects] /\ seen \in [Engines -> Objects]
  /\ gateway \in BOOLEAN /\ collector \in BOOLEAN
  /\ rs \in [live : BOOLEAN, uid : 1..MaxUID, accepted : Contents \cup {None},
             bad : {"no", "degraded", "rejected"}]
  /\ src \in [content : Contents \cup {None}, gen : Nat]
  /\ ef \in [Engines -> Policies \cup {None}] /\ seenEf \in [Engines -> Policies \cup {None}]
  /\ np \in [Engines -> SUBSET Names] /\ seenNp \in [Engines -> SUBSET Names]
  /\ tele \subseteq Engines /\ owner \in Owners /\ queue \subseteq Engines
  /\ ~AtStep("idle") => job.e \in Engines /\ job.obj \in Objects
  /\ job.version \in Versions \cup {None} /\ job.applied \in Policies \cup {None}
  /\ changes \in 0..MaxChanges /\ faults \in 0..MaxFaults

\* A Gateway is only allowed to pass traffic before its WAF is live
\* (bootstrap policy "allow") after a fail-open configuration was recorded
\* as accepted for its Engine, whatever the caches said when it was applied.
WeakenedAfterAcceptance ==
  \A e \in Engines : ef[e] = "allow" => \E v \in recorded[e] : v[3] = "allow"

\* The accepted record names a content the RuleSet controller accepted for
\* that RuleSet: inputs read while they change are never recorded.
RecordApproved ==
  \A e \in Engines : eng[e].rec # None =>
     <<eng[e].rec.version[1], eng[e].rec.version[2]>> \in approved

\* Nothing is due for Engine e and the caches hold what the controller wrote.
Quiescent(e) == /\ AtStep("idle") /\ e \notin queue
                /\ seen = eng /\ seenEf = ef /\ seenNp = np

\* Between reconciles no WAF is attached without its network restrictions, as long
\* as its RuleSet is there and not degraded: a reconcile that stops at the RuleSet does
\* not get to restore what a rejected target has removed.
AttachedRestricted ==
  \A e \in Engines :
     Quiescent(e) /\ eng[e].live /\ ef[e] # None /\ rs.live /\ rs.bad = "no" => np[e] # {}

\* The Engine that should be attached to the Gateway.
Wins(e) == gateway /\ e \in Candidates(eng) /\ Winner(eng) = e

\* Whatever was created for an Engine that is gone, has lost its Gateway, or
\* has lost the conflict over it, is removed in the end, although it was
\* created and cleaned up through caches that lag.
OrphansRemoved ==
  \A e \in Engines : <>[]~Wins(e) => <>[](ef[e] = None /\ np[e] = {} /\ e \notin tele)

\* A reconcile works on a status that has the controller's last write.
OwnWritesSeen ==
  ~AtStep("idle") /\ eng[job.e].live =>
     job.obj.conds = eng[job.e].conds /\ job.obj.rec = eng[job.e].rec

Usable == rs.live /\ rs.bad = "no" /\ rs.accepted = src.content /\ src.content \notin Oversized

\* What is recorded and provisioned is what the Engine and the RuleSet say.
Provisioned(e) ==
  /\ eng[e].rec # None
  /\ eng[e].rec.version = Version(rs.uid, src.content, eng[e].policy)
  /\ eng[e].rec.gen = eng[e].gen
  /\ eng[e].conds.phase = "ready" /\ eng[e].conds.accepted = "true"
  /\ ef[e] = eng[e].policy
  /\ np[e] # {}
  /\ e \in tele <=> eng[e].observed /\ collector

Settled(e) ==
  /\ ~eng[e].deleting
  /\ Wins(e) /\ Usable => Provisioned(e)
  /\ Wins(e) /\ ~rs.live => eng[e].rec = None /\ eng[e].conds.phase = "degraded"
  /\ eng[e].live /\ ~Wins(e) => eng[e].conds.accepted = "false"

\* When users and the RuleSet controller stop, every Engine ends up as it
\* should be, provided a reconcile never works on a status older than the
\* controller's own last write: the watch ignores status changes, so a
\* reconcile that skipped its patch on an old status is not repeated.
EngineSettles == []OwnWritesSeen => \A e \in Engines : <>[]Settled(e)

=============================================================================
