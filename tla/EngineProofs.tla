---------------------------- MODULE EngineProofs ----------------------------
(***************************************************************************)
(* The kinds of steps a reconcile of EngineController is made of, the type *)
(* invariant they preserve, and what the controller promises of accepted   *)
(* records, bootstrap policies and network restrictions, for every set of  *)
(* Engines and contents and any number of changes, faults and restarts.    *)
(***************************************************************************)
EXTENDS EngineController, TLAPS

Steps == {"idle", "orphan", "cleanup", "release", "finalizer", "start", "target", "detaching",
          "rejecting", "reject", "ruleset", "content", "policy", "telemetry", "filter", "record"}

\* The steps that have rendered a version.
Rendered == {"policy", "telemetry", "filter", "record"}

\* The steps that have found or applied a NetworkPolicy.
Restricted == {"telemetry", "filter", "record"}

Jobs == [e : Engines \cup {0}, at : Steps, obj : Objects, version : Versions \cup {None},
         inputs : Nat, applied : Policies \cup {None}]

TypeInv ==
  /\ EngineTypeOK
  /\ job \in Jobs
  /\ job.at \in Rendered => job.version \in Versions
  /\ recorded \in [Engines -> SUBSET Versions]

\* A reconcile can go past the checks of the RuleSet.
Serving == rs.live /\ rs.bad = "no"

----------------------------------------------------------------------------
(* What a step of the reconcile does.                                      *)

\* Status is written, which a watch on the generation does not report.
Same(a, b) ==
  /\ a.live = b.live /\ a.deleting = b.deleting /\ a.fin = b.fin
  /\ a.gen = b.gen /\ a.born = b.born
StatusOnly ==
  /\ eng' \in [Engines -> Objects]
  /\ \A f \in Engines : Same(eng'[f], eng[f]) /\ (f # job.e => eng'[f] = eng[f])

\* The reconcile goes on to step, with the object it has.
GoesOn(step) ==
  /\ job' \in Jobs /\ job'.e = job.e /\ job'.at = step
  /\ job'.version = job.version /\ job'.applied = job.applied

Moves == {<<"start", "target">>, <<"target", "detaching">>, <<"target", "ruleset">>,
          <<"ruleset", "content">>, <<"telemetry", "filter">>}

\* It patches conditions, and a record other than the one it read is none.
Patches ==
  /\ UNCHANGED <<ef, np, recorded>>
  /\ \E c \in Conds, r \in {job.obj.rec, None}, step \in Steps, again \in BOOLEAN :
        /\ Patch(c, r, step, again)
        /\ step # "idle" => <<job.at, step>> \in Moves
        /\ step = "idle" /\ ~again => job.at = "reject" \/ (job.at = "ruleset" /\ ~Serving)

Goes ==
  /\ UNCHANGED <<eng, ef, np, recorded>>
  /\ \E step \in Steps : /\ <<job.at, step>> \in Moves
                         /\ GoesOn(step) /\ job'.obj = job.obj

Quits ==
  /\ UNCHANGED <<eng, ef, np, recorded>>
  /\ job' = Idle /\ job.e \in queue'

Renders ==
  /\ UNCHANGED <<eng, ef, np, recorded>>
  /\ AtStep("content") /\ Serving /\ rs.accepted # None
  /\ job' \in Jobs /\ job'.e = job.e /\ job'.at = "policy" /\ job'.obj = job.obj
  /\ job'.version = Version(rs.uid, rs.accepted, job.obj.policy)

Restricts ==
  /\ UNCHANGED <<eng, ef, recorded>>
  /\ AtStep("policy")
  /\ np' \in [Engines -> SUBSET Names]
  /\ np'[job.e] # {} /\ \A f \in Engines \ {job.e} : np'[f] = np[f]
  /\ GoesOn("telemetry") /\ job'.obj = job.obj

Cleans ==
  /\ UNCHANGED <<eng, ef, recorded>>
  /\ cleanupNetworkPolicy
  /\ \/ AtStep("orphan") /\ job' = Idle
     \/ AtStep("cleanup") /\ GoesOn("release") /\ job'.obj = job.obj
     \/ AtStep("rejecting") /\ GoesOn("reject") /\ job'.obj = job.obj

Detaches ==
  /\ UNCHANGED <<eng, np, recorded>>
  /\ AtStep("detaching")
  /\ ef' = [ef EXCEPT ![job.e] = IF seenEf[job.e] = None THEN @ ELSE None]
  /\ GoesOn("rejecting") /\ job'.obj = job.obj

Attaches ==
  /\ UNCHANGED <<eng, np, recorded>>
  /\ AtStep("filter")
  /\ \E p \in Policies :
        /\ ef' = [ef EXCEPT ![job.e] = p]
        /\ p = "allow" => \/ seenEf[job.e] = "allow"
                          \/ /\ job.obj.rec # None
                             /\ job.obj.rec.version[3] = "allow"
  /\ job' \in Jobs /\ job'.e = job.e /\ job'.at = "record" /\ job'.obj = job.obj
  /\ job'.version = job.version

Finalizes ==
  /\ UNCHANGED <<ef, np, recorded>>
  /\ job' = Idle
  /\ \/ /\ AtStep("finalizer") /\ job.e \in queue'
        /\ eng' = [eng EXCEPT ![job.e].fin = @ \/ eng[job.e].live]
     \/ /\ AtStep("release") /\ (~eng[job.e].live => job.e \in queue')
        /\ eng' = [eng EXCEPT ![job.e] = IF @.deleting THEN Gone(@) ELSE [@ EXCEPT !.fin = FALSE]]

Accepts ==
  /\ UNCHANGED <<ef, np>>
  /\ AtStep("record")
  /\ \/ UNCHANGED <<eng, recorded>> /\ job' = Idle
     \/ /\ \E c \in Conds, again \in BOOLEAN : Patch(c, NewRecord, "idle", again)
        /\ recorded' = IF Refused(NewRecord) THEN recorded
                       ELSE [recorded EXCEPT ![job.e] = @ \cup {job.version}]

Kinds ==
  \/ Patches \/ Goes \/ Quits \/ Renders \/ Restricts \/ Cleans \/ Detaches \/ Attaches
  \/ Finalizes \/ Accepts

Reconciles == Step \/ CallFails \/ ProvisioningFails

\* What every step of a reconcile leaves alone.
Local ==
  /\ UNCHANGED <<gateway, collector, rs, src, seen, seenEf, seenNp, approved, changes>>
  /\ queue \subseteq queue' /\ queue' \subseteq Engines
  /\ tele' \subseteq Engines /\ owner' \in Owners /\ faults' \in 0..MaxFaults

\* What the proofs use of the assumptions on the constants.
LEMMA ConstantFacts ==
  /\ MaxUID \in Nat /\ 1 \in 1..MaxUID /\ MaxChanges \in Nat /\ MaxFaults \in Nat
  /\ Engines \subseteq Nat /\ Names # {} /\ None \notin Records /\ None # "allow"
<1>1. MaxUID \in Nat \ {0} /\ MaxChanges \in Nat /\ MaxFaults \in Nat
  BY EngineAssumption, Zenon
<1>2. Engines \subseteq Nat /\ Names # {}
  BY EngineAssumption, Zenon
<1>3. None \notin Records /\ None \notin Policies
  BY EngineAssumption, Zenon
<1>4. 1 \in 1..MaxUID
  BY <1>1
<1> QED
  BY <1>1, <1>2, <1>3, <1>4, Zenon DEF Policies

\* No reconcile runs.
LEMMA IdleJob == Idle \in Jobs /\ Idle.at = "idle"
BY Zenon DEF Idle, Jobs, Absent, NoConds, Objects, Conds, Steps, Policies

\* A running reconcile has an Engine and the object it read.
LEMMA Running ==
  ASSUME TypeInv, ~AtStep("idle")
  PROVE  /\ job \in Jobs /\ job.e \in Engines /\ job.obj \in Objects /\ eng[job.e] \in Objects
         /\ job.obj.gen \in Nat /\ job.obj.conds \in Conds /\ job.obj.rec \in Records \cup {None}
         /\ job.obj.policy \in Policies /\ eng[job.e].rec \in Records \cup {None}
<1>1. job \in Jobs /\ job.e \in Engines /\ job.obj \in Objects /\ eng[job.e] \in Objects
  BY Zenon DEF TypeInv, EngineTypeOK
<1> QED
  BY <1>1, Zenon DEF Objects

\* The conditions that a reconcile writes.
LEMMA WrittenConds ==
  ASSUME NEW c \in Conds, NEW gen \in Nat
  PROVE  /\ Ready(c, gen) \in Conds /\ Degraded(c, gen) \in Conds /\ NotAccepted(c, gen) \in Conds
         /\ Progressing(c, gen, "starting") \in Conds /\ Progressing(c, gen, "awaiting") \in Conds
         /\ [c EXCEPT !.accepted = "true", !.acceptedGen = gen] \in Conds
         /\ [c EXCEPT !.observability = "true"] \in Conds
         /\ [c EXCEPT !.observability = "false"] \in Conds
BY Zenon DEF Conds, Ready, Degraded, NotAccepted, Progressing

\* MergedRecord keeps a record a record, and its version is the one there or the one written.
LEMMA MergedIsRecord ==
  ASSUME TypeInv, ~AtStep("idle"), NEW r \in Records \cup {None}, ~Refused(r)
  PROVE  /\ MergedRecord(r) \in Records \cup {None}
         /\ MergedRecord(r) # None =>
              \/ eng[job.e].rec # None /\ MergedRecord(r).version = eng[job.e].rec.version
              \/ r # None /\ r # job.obj.rec /\ MergedRecord(r).version = r.version
<1> DEFINE cur == eng[job.e].rec
           base == job.obj.rec
<1>1. cur \in Records \cup {None} /\ base \in Records \cup {None}
  BY Running, Zenon
<1>2. None \notin Records
  BY ConstantFacts, Zenon
<1>3. CASE r = base
  BY <1>1, <1>3, Zenon DEF MergedRecord
<1>4. CASE r # base /\ (r = None \/ base = None)
  BY <1>4, Zenon DEF MergedRecord
<1>5. CASE r # base /\ r # None /\ base # None
  <2> DEFINE field(f) == IF r[f] = base[f] THEN cur[f] ELSE r[f]
  <2>1. MergedRecord(r) = [gen |-> field("gen"), version |-> field("version"),
                           uid |-> field("uid"), hash |-> field("hash"),
                           policy |-> field("policy")]
    BY <1>5, Zenon DEF MergedRecord
  <2>2. cur \in Records /\ r \in Records
    BY <1>1, <1>5, Zenon DEF Refused
  <2> HIDE DEF cur, base
  <2>3. /\ field("gen") \in Nat /\ field("version") \in Versions /\ field("uid") \in 1..MaxUID
        /\ field("hash") \in Contents /\ field("policy") \in Policies
    BY <2>2, Zenon DEF Records
  <2>4. MergedRecord(r).version = field("version")
    BY <2>1
  <2>5. MergedRecord(r) \in Records
    BY <2>1, <2>3 DEF Records
  <2> QED
    BY <1>2, <1>5, <2>2, <2>4, <2>5, Zenon DEF cur, base
<1> QED
  BY <1>3, <1>4, <1>5, Zenon

\* Status().Patch writes the status of the one Engine, or is refused and tried again.
LEMMA PatchEffects ==
  ASSUME TypeInv, ~AtStep("idle"), NEW c \in Conds, NEW r \in Records \cup {None},
         NEW step \in Steps, NEW again \in BOOLEAN, Patch(c, r, step, again)
  PROVE  /\ StatusOnly
         /\ queue \subseteq queue' /\ queue' \subseteq Engines
         /\ \/ Refused(r) /\ eng' = eng /\ job' = Idle /\ job.e \in queue'
            \/ /\ ~Refused(r) /\ eng'[job.e].rec = MergedRecord(r)
               /\ step = "idle" => job' = Idle /\ (again => job.e \in queue')
               /\ step # "idle" => GoesOn(step) /\ job'.obj = eng'[job.e]
<1> DEFINE e == job.e
<1>0. /\ job \in Jobs /\ e \in Engines /\ queue \subseteq Engines /\ eng \in [Engines -> Objects]
      /\ eng[e] \in Objects
  BY Running, Zenon DEF TypeInv, EngineTypeOK
<1>1. CASE Refused(r)
  <2>1. eng' = eng /\ job' = Idle /\ queue' = queue \cup {job.e}
    BY <1>1, Zenon DEF Patch, Return
  <2> QED
    BY <1>0, <1>1, <2>1, Zenon DEF StatusOnly, Same
<1>2. CASE ~Refused(r)
  <2> DEFINE new == [[eng[e] EXCEPT !.conds = MergedConds(c)] EXCEPT !.rec = MergedRecord(r)]
  <2>1. MergedRecord(r) \in Records \cup {None}
    BY <1>2, MergedIsRecord, Zenon
  <2>2. MergedConds(c) \in Conds
    BY <1>0, Zenon DEF MergedConds, Objects
  <2>3. eng' = [eng EXCEPT ![e] = new]
    BY <1>0, <1>2, Zenon DEF Patch
  <2>4. new \in Objects /\ Same(new, eng[e]) /\ new.rec = MergedRecord(r)
    BY <1>0, <2>1, <2>2, Zenon DEF Objects, Same
  <2> HIDE DEF new
  <2>5. eng'[e] = new /\ \A f \in Engines \ {e} : eng'[f] = eng[f]
    BY <1>0, <2>3, Zenon
  <2>6. eng' \in [Engines -> Objects]
    BY <1>0, <2>3, <2>4, Zenon
  <2>7. StatusOnly
    BY <2>4, <2>5, <2>6, Zenon DEF StatusOnly, Same
  <2>8. CASE step = "idle"
    <3>1. job' = Idle /\ queue' = IF again THEN queue \cup {job.e} ELSE Queued
      BY <1>2, <2>8, Zenon DEF Patch, Return
    <3> QED
      BY <1>0, <1>2, <2>4, <2>5, <2>7, <2>8, <3>1, Zenon DEF Queued
  <2>9. CASE step # "idle"
    <3>1. job' = [[job EXCEPT !.at = step] EXCEPT !.obj = eng'[job.e]] /\ queue' = Queued
      BY <1>2, <2>9, Zenon DEF Patch
    <3>2. GoesOn(step) /\ job'.obj = eng'[job.e]
      BY <1>0, <2>4, <2>5, <3>1, Zenon DEF GoesOn, Jobs
    <3> QED
      BY <1>0, <1>2, <2>4, <2>5, <2>7, <2>9, <3>1, <3>2, Zenon DEF Queued
  <2> QED
    BY <2>8, <2>9, Zenon
<1> QED
  BY <1>1, <1>2, Zenon


\* A patch of the conditions, by a step that may follow the one the reconcile is at.
LEMMA PatchKind ==
  ASSUME TypeInv, ~AtStep("idle"), NEW c \in Conds, NEW r \in {job.obj.rec, None},
         NEW step \in Steps, NEW again \in BOOLEAN, Patch(c, r, step, again),
         UNCHANGED <<ef, np, world, caches, recorded, approved, changes>>,
         tele' \subseteq Engines /\ owner' \in Owners, faults' \in 0..MaxFaults,
         step # "idle" => <<job.at, step>> \in Moves,
         step = "idle" /\ ~again => job.at = "reject" \/ (job.at = "ruleset" /\ ~Serving)
  PROVE  Patches /\ Local
<1>1. r \in Records \cup {None}
  BY Running, Zenon
<1>2. queue \subseteq queue' /\ queue' \subseteq Engines
  BY <1>1, PatchEffects, Zenon
<1>3. Local
  BY <1>2, Zenon DEF Local, world, caches
<1>4. Patches
  BY Zenon DEF Patches
<1> QED
  BY <1>3, <1>4, Zenon

\* patchDegraded is such a patch.
LEMMA DegradedKind ==
  ASSUME TypeInv, ~AtStep("idle"), NEW r \in {job.obj.rec, None}, NEW again \in BOOLEAN,
         patchDegraded(r, again),
         UNCHANGED <<ef, np, world, caches, recorded, approved, changes>>,
         tele' \subseteq Engines /\ owner' \in Owners, faults' \in 0..MaxFaults,
         ~again => job.at = "ruleset" /\ ~Serving
  PROVE  Patches /\ Local
<1>1. Degraded(job.obj.conds, job.obj.gen) \in Conds /\ "idle" \in Steps
  BY Running, WrittenConds, Zenon DEF Steps
<1>2. Patch(Degraded(job.obj.conds, job.obj.gen), r, "idle", again)
  BY Zenon DEF patchDegraded
<1> QED
  BY <1>1, <1>2, PatchKind, Zenon

\* A step that only goes on to the next call.
LEMMA GoToKind ==
  ASSUME TypeInv, ~AtStep("idle"), NEW step \in Steps, GoTo(step)
  PROVE  /\ GoesOn(step) /\ job'.obj = job.obj
         /\ queue \subseteq queue' /\ queue' \subseteq Engines
<1>1. job \in Jobs /\ job.e \in Engines /\ queue \subseteq Engines
  BY Running, Zenon DEF TypeInv, EngineTypeOK
<1> QED
  BY <1>1, Zenon DEF GoTo, GoesOn, Queued, Jobs

\* A step that returns from Reconcile.
LEMMA ReturnKind ==
  ASSUME TypeInv, ~AtStep("idle"), NEW again \in BOOLEAN, Return(again)
  PROVE  /\ job' = Idle /\ (again => job.e \in queue')
         /\ queue \subseteq queue' /\ queue' \subseteq Engines
<1>1. job.e \in Engines /\ queue \subseteq Engines
  BY Running, Zenon DEF TypeInv, EngineTypeOK
<1> QED
  BY <1>1, Zenon DEF Return, Queued

\* What the steps that neither patch nor provision leave well formed.
LEMMA QuietTypes ==
  ASSUME TypeInv
  PROVE  /\ tele \subseteq Engines /\ owner \in Owners /\ faults \in 0..MaxFaults
         /\ \A x : tele \ {x} \subseteq Engines
         /\ ~AtStep("idle") => tele \cup {job.e} \subseteq Engines
BY Running, Zenon DEF TypeInv, EngineTypeOK

\* SetControllerReference: a filter or Telemetry is owned by the Engine the reconcile read.
LEMMA OwnerTypes ==
  ASSUME TypeInv, ~AtStep("idle")
  PROVE  /\ [owner EXCEPT ![job.e].filter = job.obj.born] \in Owners
         /\ [owner EXCEPT ![job.e].telemetry = job.obj.born] \in Owners
<1>1. owner \in Owners /\ job.e \in Engines
  BY Running, Zenon DEF TypeInv, EngineTypeOK
<1>2. job.obj.born \in Nat
  BY Running, Zenon DEF Objects
<1> QED
  BY <1>1, <1>2, Zenon DEF Owners

\* The steps that precede the checks of the RuleSet.
LEMMA TargetKinds ==
  ASSUME TypeInv,
         CleanupOrphan \/ CleanupDeleted \/ RemoveFinalizer \/ ensureNetworkPolicyFinalizer
           \/ InitialStatus \/ CleanupTelemetry \/ CleanupEnvoyFilter \/ CleanupPolicies
           \/ patchNotAccepted \/ AcceptTarget
  PROVE  ~AtStep("idle") /\ Local /\ Kinds
<1> USE QuietTypes
<1>1. CASE CleanupOrphan
  <2>1. ~AtStep("idle") /\ Return(FALSE)
    BY <1>1, Zenon DEF CleanupOrphan, AtStep
  <2>2. job' = Idle /\ queue \subseteq queue' /\ queue' \subseteq Engines
    BY <2>1, ReturnKind, Zenon
  <2>3. Local
    BY <1>1, <2>2, Zenon DEF CleanupOrphan, Local, Quiet, world, caches
  <2>4. Cleans
    BY <1>1, <2>2, Zenon DEF CleanupOrphan, Cleans, Quiet
  <2> QED
    BY <2>1, <2>3, <2>4, Zenon DEF Kinds
<1>2. CASE CleanupDeleted
  <2>1. /\ ~AtStep("idle") /\ GoTo("release") /\ "release" \in Steps /\ tele' \subseteq Engines
        /\ owner' \in Owners
    BY <1>2, Zenon DEF CleanupDeleted, AtStep, Steps
  <2>2. /\ GoesOn("release") /\ job'.obj = job.obj
        /\ queue \subseteq queue' /\ queue' \subseteq Engines
    BY <2>1, GoToKind, Zenon
  <2>3. Local
    BY <1>2, <2>2, Zenon DEF CleanupDeleted, Local, Quiet, world, caches
  <2>4. Cleans
    BY <1>2, <2>2, Zenon DEF CleanupDeleted, Cleans, Quiet
  <2> QED
    BY <2>1, <2>3, <2>4, Zenon DEF Kinds
<1>3. CASE RemoveFinalizer
  <2>1. ~AtStep("idle") /\ Return(~eng[job.e].live) /\ (~eng[job.e].live) \in BOOLEAN
    BY <1>3, Zenon DEF RemoveFinalizer, AtStep
  <2>2. /\ job' = Idle /\ (~eng[job.e].live => job.e \in queue')
        /\ queue \subseteq queue' /\ queue' \subseteq Engines
    BY <2>1, ReturnKind, Zenon
  <2>3. Local
    BY <1>3, <2>2, Zenon DEF RemoveFinalizer, Local, Quiet, world, caches
  <2>4. Finalizes
    BY <1>3, <2>2, Zenon DEF RemoveFinalizer, Finalizes, Quiet
  <2> QED
    BY <2>1, <2>3, <2>4, Zenon DEF Kinds
<1>4. CASE ensureNetworkPolicyFinalizer
  <2>1. ~AtStep("idle") /\ Return(TRUE)
    BY <1>4, Zenon DEF ensureNetworkPolicyFinalizer, AtStep
  <2>2. /\ job' = Idle /\ job.e \in queue'
        /\ queue \subseteq queue' /\ queue' \subseteq Engines
    BY <2>1, ReturnKind, Zenon
  <2>3. Local
    BY <1>4, <2>2, Zenon DEF ensureNetworkPolicyFinalizer, Local, Quiet, world, caches
  <2>4. Finalizes
    BY <1>4, <2>2, Zenon DEF ensureNetworkPolicyFinalizer, Finalizes, Quiet
  <2> QED
    BY <2>1, <2>3, <2>4, Zenon DEF Kinds
<1>5. CASE InitialStatus
  <2>1. ~AtStep("idle") /\ job.at = "start"
    BY <1>5, Zenon DEF InitialStatus, AtStep
  <2>2. Progressing(job.obj.conds, job.obj.gen, "starting") \in Conds /\ "target" \in Steps
    BY <2>1, Running, WrittenConds, Zenon DEF Steps
  <2>3. /\ Patch(Progressing(job.obj.conds, job.obj.gen, "starting"), job.obj.rec, "target", TRUE)
        /\ UNCHANGED <<ef, np, world, caches, recorded, approved, changes, tele, owner, faults>>
    BY <1>5, Zenon DEF InitialStatus, Quiet
  <2>4. <<job.at, "target">> \in Moves
    BY <2>1, Zenon DEF Moves
  <2>5. Patches /\ Local
    BY <2>1, <2>2, <2>3, <2>4, PatchKind, Zenon
  <2> QED
    BY <2>1, <2>5, Zenon DEF Kinds
<1>10. CASE CleanupTelemetry
  <2>1. /\ ~AtStep("idle") /\ job.at = "target" /\ GoTo("detaching") /\ "detaching" \in Steps
        /\ tele' \subseteq Engines /\ owner' \in Owners
    BY <1>10, Zenon DEF CleanupTelemetry, AtStep, Steps
  <2>2. /\ GoesOn("detaching") /\ job'.obj = job.obj
        /\ queue \subseteq queue' /\ queue' \subseteq Engines
    BY <2>1, GoToKind, Zenon
  <2>3. Local
    BY <1>10, <2>1, <2>2, Zenon DEF CleanupTelemetry, Local, Quiet, world, caches
  <2>4. <<job.at, "detaching">> \in Moves
    BY <2>1, Zenon DEF Moves
  <2>5. Goes
    BY <1>10, <2>1, <2>2, <2>4, Zenon DEF CleanupTelemetry, Goes, Quiet
  <2> QED
    BY <2>1, <2>3, <2>5, Zenon DEF Kinds
<1>6. CASE CleanupEnvoyFilter
  <2>1. /\ ~AtStep("idle") /\ GoTo("rejecting") /\ "rejecting" \in Steps
        /\ tele' \subseteq Engines /\ owner' \in Owners
    BY <1>6, Zenon DEF CleanupEnvoyFilter, AtStep, Steps
  <2>2. /\ GoesOn("rejecting") /\ job'.obj = job.obj
        /\ queue \subseteq queue' /\ queue' \subseteq Engines
    BY <2>1, GoToKind, Zenon
  <2>3. Local
    BY <1>6, <2>1, <2>2, Zenon DEF CleanupEnvoyFilter, Local, Quiet, world, caches
  <2>4. Detaches
    BY <1>6, <2>2, Zenon DEF CleanupEnvoyFilter, Detaches, Quiet
  <2> QED
    BY <2>1, <2>3, <2>4, Zenon DEF Kinds
<1>7. CASE CleanupPolicies
  <2>1. /\ ~AtStep("idle") /\ GoTo("reject") /\ "reject" \in Steps /\ tele' \subseteq Engines
        /\ owner' \in Owners
    BY <1>7, Zenon DEF CleanupPolicies, AtStep, Steps
  <2>2. /\ GoesOn("reject") /\ job'.obj = job.obj
        /\ queue \subseteq queue' /\ queue' \subseteq Engines
    BY <2>1, GoToKind, Zenon
  <2>3. Local
    BY <1>7, <2>2, Zenon DEF CleanupPolicies, Local, Quiet, world, caches
  <2>4. Cleans
    BY <1>7, <2>2, Zenon DEF CleanupPolicies, Cleans, Quiet
  <2> QED
    BY <2>1, <2>3, <2>4, Zenon DEF Kinds
<1>8. CASE patchNotAccepted
  <2>1. ~AtStep("idle") /\ job.at = "reject"
    BY <1>8, Zenon DEF patchNotAccepted, AtStep
  <2>2. NotAccepted(job.obj.conds, job.obj.gen) \in Conds /\ "idle" \in Steps
    BY <2>1, Running, WrittenConds, Zenon DEF Steps
  <2>3. /\ Patch(NotAccepted(job.obj.conds, job.obj.gen), job.obj.rec, "idle", FALSE)
        /\ UNCHANGED <<ef, np, world, caches, recorded, approved, changes, tele, owner, faults>>
    BY <1>8, Zenon DEF patchNotAccepted, Quiet
  <2>4. Patches /\ Local
    BY <2>1, <2>2, <2>3, PatchKind, Zenon
  <2> QED
    BY <2>1, <2>4, Zenon DEF Kinds
<1>9. CASE AcceptTarget
  <2>1. ~AtStep("idle") /\ job.at = "target" /\ "ruleset" \in Steps
    BY <1>9, Zenon DEF AcceptTarget, AtStep, Steps
  <2>2. /\ UNCHANGED <<ef, np, world, caches, recorded, approved, changes, tele, owner, faults>>
        /\ <<job.at, "ruleset">> \in Moves
    BY <1>9, <2>1, Zenon DEF AcceptTarget, Quiet, Moves
  <2>3. CASE needsAcceptedUpdate
    <3> DEFINE c == [job.obj.conds EXCEPT !.accepted = "true", !.acceptedGen = job.obj.gen]
    <3>1. c \in Conds
      BY <2>1, Running, WrittenConds, Zenon
    <3>2. Patch(c, job.obj.rec, "ruleset", TRUE)
      BY <1>9, <2>3, Zenon DEF AcceptTarget
    <3> HIDE DEF c
    <3>3. Patches /\ Local
      BY <2>1, <2>2, <3>1, <3>2, PatchKind, Zenon
    <3> QED
      BY <2>1, <3>3, Zenon DEF Kinds
  <2>4. CASE ~needsAcceptedUpdate
    <3>1. GoTo("ruleset") /\ UNCHANGED eng
      BY <1>9, <2>4, Zenon DEF AcceptTarget
    <3>2. /\ GoesOn("ruleset") /\ job'.obj = job.obj
          /\ queue \subseteq queue' /\ queue' \subseteq Engines
      BY <2>1, <2>2, <3>1, GoToKind, Zenon
    <3>3. Local
      BY <2>2, <3>2, Zenon DEF Local, world, caches
    <3>4. Goes
      BY <2>1, <2>2, <3>1, <3>2, Zenon DEF Goes
    <3> QED
      BY <2>1, <3>3, <3>4, Zenon DEF Kinds
  <2> QED
    BY <2>3, <2>4, Zenon
<1> QED
  BY <1>1, <1>2, <1>3, <1>4, <1>5, <1>6, <1>7, <1>8, <1>9, <1>10, Zenon


\* The steps that check the RuleSet and render its content.
LEMMA ContentKinds ==
  ASSUME TypeInv, CheckRuleSet \/ AcceptedContent
  PROVE  ~AtStep("idle") /\ Local /\ Kinds
<1> USE QuietTypes
<1>1. CASE CheckRuleSet
  <2>1. ~AtStep("idle") /\ job.at = "ruleset" /\ "content" \in Steps
    BY <1>1, Zenon DEF CheckRuleSet, AtStep, Steps
  <2>2. /\ UNCHANGED <<ef, np, world, caches, recorded, approved, changes, faults>>
        /\ tele' \subseteq Engines /\ owner' \in Owners /\ faults' \in 0..MaxFaults
        /\ <<job.at, "content">> \in Moves
    BY <1>1, <2>1, Zenon DEF CheckRuleSet, Quiet, Moves
  <2>3. CASE ~rs.live
    <3>1. patchDegraded(None, FALSE) /\ ~Serving
      BY <1>1, <2>3, Zenon DEF CheckRuleSet, Serving
    <3>2. Patches /\ Local
      BY <2>1, <2>2, <3>1, DegradedKind, Zenon
    <3> QED
      BY <2>1, <3>2, Zenon DEF Kinds
  <2>4. CASE rs.live /\ rs.bad # "no"
    <3>1. patchDegraded(Justified(job.obj.rec), FALSE) /\ ~Serving
      BY <1>1, <2>4, Zenon DEF CheckRuleSet, Serving
    <3>2. Justified(job.obj.rec) \in {job.obj.rec, None}
      BY Zenon DEF Justified
    <3>3. Patches /\ Local
      BY <2>1, <2>2, <3>1, <3>2, DegradedKind, Zenon
    <3> QED
      BY <2>1, <3>3, Zenon DEF Kinds
  <2>5. CASE rs.live /\ rs.bad = "no"
    <3>1. GoTo("content") /\ UNCHANGED eng
      BY <1>1, <2>5, Zenon DEF CheckRuleSet
    <3>2. /\ GoesOn("content") /\ job'.obj = job.obj
          /\ queue \subseteq queue' /\ queue' \subseteq Engines
      BY <2>1, <2>2, <3>1, GoToKind, Zenon
    <3>3. Local
      BY <2>2, <3>2, Zenon DEF Local, world, caches
    <3>4. Goes
      BY <2>1, <2>2, <3>1, <3>2, Zenon DEF Goes
    <3> QED
      BY <2>1, <3>3, <3>4, Zenon DEF Kinds
  <2> QED
    BY <2>3, <2>4, <2>5, Zenon
<1>2. CASE AcceptedContent
  <2> DEFINE rec == Justified(job.obj.rec)
  <2>1. ~AtStep("idle") /\ job.at = "content"
    BY <1>2, Zenon DEF AcceptedContent, AtStep
  <2>2. /\ UNCHANGED <<ef, np, world, caches, recorded, approved, changes, tele, owner, faults>>
        /\ tele' \subseteq Engines /\ owner' \in Owners /\ faults' \in 0..MaxFaults
    BY <1>2, Zenon DEF AcceptedContent, Quiet
  <2>3. rec \in {job.obj.rec, None}
    BY Zenon DEF Justified
  <2>4. ASSUME NEW r \in {rec, None}, patchDegraded(r, TRUE)
        PROVE  Local /\ Kinds
    <3>1. r \in {job.obj.rec, None}
      BY <2>3, Zenon
    <3>2. Patches /\ Local
      BY <2>1, <2>2, <2>4, <3>1, DegradedKind, Zenon
    <3> QED
      BY <3>2, Zenon DEF Kinds
  <2>5. ASSUME Await(rec)
        PROVE  Local /\ Kinds
    <3>1. CASE Return(TRUE) /\ UNCHANGED eng
      <4>1. /\ job' = Idle /\ job.e \in queue'
            /\ queue \subseteq queue' /\ queue' \subseteq Engines
        BY <2>1, <3>1, ReturnKind, Zenon
      <4>2. Local /\ Quits
        BY <2>2, <3>1, <4>1, Zenon DEF Local, Quits, world, caches
      <4> QED
        BY <4>2, Zenon DEF Kinds
    <3>2. CASE Patch(Progressing(job.obj.conds, job.obj.gen, "awaiting"), rec, "idle", TRUE)
      <4>1. Progressing(job.obj.conds, job.obj.gen, "awaiting") \in Conds /\ "idle" \in Steps
        BY <2>1, Running, WrittenConds, Zenon DEF Steps
      <4>2. Patches /\ Local
        BY <2>1, <2>2, <2>3, <3>2, <4>1, PatchKind, Zenon
      <4> QED
        BY <4>2, Zenon DEF Kinds
    <3> QED
      BY <2>5, <3>1, <3>2, Zenon DEF Await
  <2> DEFINE new == [[[job EXCEPT !.at = "policy"] EXCEPT !.inputs = src.gen] EXCEPT
                       !.version = Version(rs.uid, src.content, job.obj.policy)]
  <2>6. ASSUME rs.live, rs.bad = "no", rs.accepted # None, src.content = rs.accepted,
               job' = new, UNCHANGED <<eng, queue>>
        PROVE  Local /\ Kinds
    <3>1. job \in Jobs /\ src.gen \in Nat /\ "policy" \in Steps /\ job.obj.policy \in Policies
      BY <2>1, Running, Zenon DEF TypeInv, EngineTypeOK, Steps
    <3>2. rs.uid \in 1..MaxUID /\ src.content \in Contents
      BY <2>6, Zenon DEF TypeInv, EngineTypeOK
    <3>3. Version(rs.uid, src.content, job.obj.policy) \in Versions
      BY <3>1, <3>2, Zenon DEF Version, Versions
    <3>4. job' \in Jobs /\ job'.e = job.e /\ job'.at = "policy" /\ job'.obj = job.obj
      BY <2>6, <3>1, <3>3, Zenon DEF Jobs
    <3>5. job'.version = Version(rs.uid, rs.accepted, job.obj.policy)
      BY <2>6, <3>1, Zenon DEF Jobs
    <3>6. queue \subseteq queue' /\ queue' \subseteq Engines
      BY <2>6, Zenon DEF TypeInv, EngineTypeOK
    <3>7. Local
      BY <2>2, <3>6, Zenon DEF Local, world, caches
    <3>8. Renders
      BY <2>1, <2>2, <2>6, <3>4, <3>5, Zenon DEF Renders, AtStep, Serving
    <3> QED
      BY <3>7, <3>8, Zenon DEF Kinds
  <2> HIDE DEF rec
  <2>7. \/ \E r \in {rec, None} : patchDegraded(r, TRUE)
        \/ Await(rec)
        \/ /\ rs.live /\ rs.bad = "no" /\ rs.accepted # None /\ src.content = rs.accepted
           /\ job' = new /\ UNCHANGED <<eng, queue>>
    <3> HIDE DEF new
    <3>1. CASE ~rs.live
      BY <1>2, <3>1, Zenon DEF AcceptedContent
    <3>2. CASE rs.live /\ (rs.accepted = None \/ rs.bad # "no")
      BY <1>2, <3>2, Zenon DEF AcceptedContent, rec
    <3>3. CASE rs.live /\ rs.accepted # None /\ rs.bad = "no" /\ src.content = None
      BY <1>2, <3>3, Zenon DEF AcceptedContent, rec
    <3>4. CASE rs.live /\ rs.accepted # None /\ rs.bad = "no" /\ src.content # None
      BY <1>2, <3>4, Zenon DEF AcceptedContent, rec, new
    <3> QED
      BY <3>1, <3>2, <3>3, <3>4, Zenon
  <2> QED
    BY <2>1, <2>4, <2>5, <2>6, <2>7, Zenon
<1> QED
  BY <1>1, <1>2, Zenon


\* The steps that provision and record, and the failures.
LEMMA ProvisionKinds ==
  ASSUME TypeInv,
         InputsChanged \/ applyNetworkPolicy \/ reconcileTelemetry \/ CallFails
         \/ ProvisioningFails
  PROVE  ~AtStep("idle") /\ Local /\ Kinds
<1> USE QuietTypes
<1>1. CASE InputsChanged
  <2>1. ~AtStep("idle") /\ Return(TRUE)
    BY <1>1, Zenon DEF InputsChanged, AtStep
  <2>2. /\ job' = Idle /\ job.e \in queue'
        /\ queue \subseteq queue' /\ queue' \subseteq Engines
    BY <2>1, ReturnKind, Zenon
  <2>3. Local /\ Quits
    BY <1>1, <2>2, Zenon DEF InputsChanged, Local, Quits, Quiet, world, caches, api
  <2> QED
    BY <2>1, <2>3, Zenon DEF Kinds
<1>2. CASE applyNetworkPolicy
  <2>1. ~AtStep("idle") /\ AtStep("policy") /\ "telemetry" \in Steps
    BY <1>2, Zenon DEF applyNetworkPolicy, AtStep, Steps
  <2>2. UNCHANGED <<ef, world, caches, recorded, approved, changes, tele, owner, faults>>
    BY <1>2, Zenon DEF applyNetworkPolicy, Quiet
  <2>3. np \in [Engines -> SUBSET Names] /\ job.e \in Engines /\ np[job.e] \subseteq Names
    BY <2>1, Running, Zenon DEF TypeInv, EngineTypeOK
  <2>4. ASSUME GoTo("telemetry"), UNCHANGED eng, np' \in [Engines -> SUBSET Names],
               np'[job.e] # {}, \A f \in Engines \ {job.e} : np'[f] = np[f]
        PROVE  Local /\ Kinds
    <3>1. /\ GoesOn("telemetry") /\ job'.obj = job.obj
          /\ queue \subseteq queue' /\ queue' \subseteq Engines
      BY <2>1, <2>2, <2>4, GoToKind, Zenon
    <3>2. Local
      BY <2>2, <3>1, Zenon DEF Local, world, caches
    <3>3. Restricts
      BY <2>1, <2>2, <2>4, <3>1, Zenon DEF Restricts
    <3> QED
      BY <3>2, <3>3, Zenon DEF Kinds
  <2>5. CASE seenNp[job.e] \cap np[job.e] # {} /\ GoTo("telemetry") /\ UNCHANGED <<eng, np>>
    BY <2>1, <2>3, <2>4, <2>5, Zenon
  <2>6. CASE patchDegraded(job.obj.rec, TRUE) /\ UNCHANGED np
    <3>1. Patches /\ Local
      BY <2>1, <2>2, <2>6, DegradedKind, Zenon
    <3> QED
      BY <2>1, <3>1, Zenon DEF Kinds
  <2>7. CASE /\ np[job.e] # Names /\ np' = [np EXCEPT ![job.e] = @ \cup {NewName(@)}]
             /\ GoTo("telemetry") /\ UNCHANGED eng
    <3>1. NewName(np[job.e]) \in Names
      BY <2>3, <2>7, Zenon DEF NewName
    <3>2. np'[job.e] = np[job.e] \cup {NewName(np[job.e])}
      BY <2>3, <2>7, Zenon
    <3>3. np'[job.e] # {} /\ np' \in [Engines -> SUBSET Names]
      BY <2>3, <2>7, <3>1, <3>2, Zenon
    <3>4. \A f \in Engines \ {job.e} : np'[f] = np[f]
      BY <2>3, <2>7, Zenon
    <3> QED
      BY <2>1, <2>4, <2>7, <3>3, <3>4, Zenon
  <2>8. Local /\ Kinds
    BY <1>2, <2>5, <2>6, <2>7, Zenon DEF applyNetworkPolicy
  <2> QED
    BY <2>1, <2>8, Zenon
<1>3. CASE reconcileTelemetry
  <2>1. ~AtStep("idle") /\ job.at = "telemetry" /\ "filter" \in Steps
    BY <1>3, Zenon DEF reconcileTelemetry, AtStep, Steps
  <2>2. /\ UNCHANGED <<ef, np, world, caches, recorded, approved, changes, faults>>
        /\ faults' \in 0..MaxFaults /\ <<job.at, "filter">> \in Moves
    BY <1>3, <2>1, Zenon DEF reconcileTelemetry, Quiet, Moves
  <2>3. tele' \subseteq Engines /\ owner' \in Owners
    <3>1. tele' \subseteq Engines
      BY <1>3, <2>1, Zenon DEF reconcileTelemetry
    <3>2. owner' \in {owner, [owner EXCEPT ![job.e].telemetry = job.obj.born]}
      BY <1>3, Zenon DEF reconcileTelemetry
    <3> QED
      BY <2>1, <3>1, <3>2, OwnerTypes, Zenon
  <2>4. CASE job.obj.observed
    <3> DEFINE c == [job.obj.conds EXCEPT
                       !.observability = IF gateway /\ collector THEN "true" ELSE "false"]
    <3>1. c \in Conds
      BY <2>1, Running, WrittenConds, Zenon
    <3>2. Patch(c, job.obj.rec, "filter", TRUE)
      BY <1>3, <2>4, Zenon DEF reconcileTelemetry
    <3> HIDE DEF c
    <3>3. Patches /\ Local
      BY <2>1, <2>2, <2>3, <3>1, <3>2, PatchKind, Zenon
    <3> QED
      BY <2>1, <3>3, Zenon DEF Kinds
  <2>5. CASE ~job.obj.observed
    <3>1. GoTo("filter") /\ UNCHANGED eng
      BY <1>3, <2>5, Zenon DEF reconcileTelemetry
    <3>2. /\ GoesOn("filter") /\ job'.obj = job.obj
          /\ queue \subseteq queue' /\ queue' \subseteq Engines
      BY <2>1, <2>3, <3>1, GoToKind, Zenon
    <3>3. Local
      BY <2>2, <2>3, <3>2, Zenon DEF Local, world, caches
    <3>4. Goes
      BY <2>1, <2>2, <3>1, <3>2, Zenon DEF Goes
    <3> QED
      BY <2>1, <3>3, <3>4, Zenon DEF Kinds
  <2> QED
    BY <2>4, <2>5, Zenon
<1>4. CASE CallFails
  <2>1. ~AtStep("idle") /\ Return(TRUE)
    BY <1>4, Zenon DEF CallFails
  <2>2. /\ job' = Idle /\ job.e \in queue'
        /\ queue \subseteq queue' /\ queue' \subseteq Engines
    BY <2>1, ReturnKind, Zenon
  <2>3. faults' \in 0..MaxFaults
    BY <1>4, ConstantFacts DEF CallFails, Fault
  <2>4. Local /\ Quits
    BY <1>4, <2>2, <2>3, Zenon DEF CallFails, Local, Quits, world, caches, api
  <2> QED
    BY <2>1, <2>4, Zenon DEF Kinds
<1>5. CASE ProvisioningFails
  <2>1. ~AtStep("idle") /\ patchDegraded(job.obj.rec, TRUE)
    BY <1>5, Zenon DEF ProvisioningFails, AtStep
  <2>2. UNCHANGED <<ef, np, world, caches, recorded, approved, changes, tele, owner>>
    BY <1>5, Zenon DEF ProvisioningFails
  <2>3. faults' \in 0..MaxFaults
    BY <1>5, ConstantFacts DEF ProvisioningFails, Fault
  <2>4. Patches /\ Local
    BY <2>1, <2>2, <2>3, DegradedKind, Zenon
  <2> QED
    BY <2>1, <2>4, Zenon DEF Kinds
<1> QED
  BY <1>1, <1>2, <1>3, <1>4, <1>5, Zenon

\* The EnvoyFilter and the accepted record.
LEMMA RecordKinds ==
  ASSUME TypeInv, applyEnvoyFilter \/ patchAcceptedConfiguration
  PROVE  ~AtStep("idle") /\ Local /\ Kinds
<1> USE QuietTypes
<1>0. /\ ~AtStep("idle") /\ job \in Jobs /\ job.e \in Engines /\ queue \subseteq Engines
      /\ job.version \in Versions
  BY Zenon DEF applyEnvoyFilter, patchAcceptedConfiguration, AtStep, TypeInv, EngineTypeOK, Rendered
<1>1. CASE applyEnvoyFilter
  <2> DEFINE rec == job.obj.rec
             active == rec # None /\ rec.version = job.version /\ rec.policy = Desired
             applied == bootstrapPolicy(seenEf[job.e], Desired, active)
  <2>1. /\ AtStep("filter") /\ UNCHANGED <<eng, np, tele, queue>> /\ Quiet
        /\ owner' = [owner EXCEPT ![job.e].filter = job.obj.born]
        /\ ef' = [ef EXCEPT ![job.e] = applied]
        /\ job' = [job EXCEPT !.at = "record", !.applied = applied]
    BY <1>1, Zenon DEF applyEnvoyFilter
  <2>2. /\ applied \in Policies
        /\ applied = "allow" =>
             \/ seenEf[job.e] = "allow"
             \/ /\ job.obj.rec # None /\ job.obj.rec.version[3] = "allow"
    BY Zenon DEF bootstrapPolicy, Policies, Desired
  <2> HIDE DEF applied
  <2>3. "record" \in Steps
    BY Zenon DEF Steps
  <2>4. /\ job' \in Jobs /\ job'.e = job.e /\ job'.at = "record" /\ job'.obj = job.obj
        /\ job'.version = job.version
    BY <1>0, <2>1, <2>2, <2>3, Zenon DEF Jobs
  <2>5. Local
    BY <1>0, <2>1, OwnerTypes, Zenon DEF Local, Quiet, world, caches
  <2>6. Attaches
    BY <2>1, <2>2, <2>4, Zenon DEF Attaches, Quiet
  <2> QED
    BY <1>0, <2>5, <2>6, Zenon DEF Kinds
<1>2. CASE patchAcceptedConfiguration
  <2>1. /\ AtStep("record")
        /\ UNCHANGED <<ef, np, tele, owner, world, caches, approved, changes, faults>>
    BY <1>2, Zenon DEF patchAcceptedConfiguration
  <2>2. Again \in BOOLEAN
    BY Zenon DEF Again
  <2>3. CASE Return(Again) /\ UNCHANGED <<eng, recorded>>
    <3>1. job' = Idle /\ queue \subseteq queue' /\ queue' \subseteq Engines
      BY <1>0, <2>2, <2>3, ReturnKind, Zenon
    <3>2. Local /\ Accepts
      BY <2>1, <2>3, <3>1, Zenon DEF Local, Accepts, world, caches
    <3> QED
      BY <1>0, <3>2, Zenon DEF Kinds
  <2>4. CASE /\ Patch(Ready(job.obj.conds, job.obj.gen), NewRecord, "idle", Again)
             /\ recorded' = IF Refused(NewRecord) THEN recorded
                            ELSE [recorded EXCEPT ![job.e] = @ \cup {job.version}]
    <3>1. Ready(job.obj.conds, job.obj.gen) \in Conds /\ "idle" \in Steps
      BY <1>0, Running, WrittenConds, Zenon DEF Steps
    <3>2. NewRecord \in Records
      <4>1. job.obj.gen \in Nat
        BY <1>0, Running, Zenon
      <4>2. job.version[1] \in 1..MaxUID /\ job.version[2] \in Contents
            /\ job.version[3] \in Policies
        BY <1>0, Zenon DEF Versions
      <4> QED
        BY <1>0, <4>1, <4>2, Zenon DEF NewRecord, Records, Desired
    <3>3. queue \subseteq queue' /\ queue' \subseteq Engines
      BY <1>0, <2>2, <2>4, <3>1, <3>2, PatchEffects
    <3>4. Local /\ Accepts
      BY <2>1, <2>2, <2>4, <3>1, <3>3, Zenon DEF Local, Accepts, world, caches
    <3> QED
      BY <1>0, <3>4, Zenon DEF Kinds
  <2> QED
    BY <1>2, <2>3, <2>4, Zenon DEF patchAcceptedConfiguration
<1> QED
  BY <1>1, <1>2, Zenon

\* Every step of a reconcile is of one of the kinds.
LEMMA ReconcileKinds ==
  ASSUME TypeInv, Reconciles
  PROVE  ~AtStep("idle") /\ Local /\ Kinds
BY TargetKinds, ContentKinds, ProvisionKinds, RecordKinds, Zenon DEF Reconciles, Step


----------------------------------------------------------------------------
(* The type invariant.                                                     *)

\* Objects as they are created, and as the finalizer is removed.
LEMMA ObjectTypes ==
  /\ NoConds \in Conds /\ Absent \in Objects
  /\ \A b \in Nat, p \in Policies, o \in BOOLEAN :
        /\ Created(b, p, o) \in Objects /\ Created(b, p, o).rec = None
        /\ Created(b, p, o).live /\ Created(b, p, o).born = b /\ ~Created(b, p, o).deleting
  /\ \A obj \in Objects :
        /\ Gone(obj) \in Objects /\ Gone(obj).rec = None /\ ~Gone(obj).live
        /\ Gone(obj).born = obj.born /\ ~Gone(obj).deleting
<1>1. NoConds \in Conds
  BY Zenon DEF NoConds, Conds
<1>2. Absent \in Objects /\ Absent.rec = None /\ ~Absent.live /\ ~Absent.deleting
  BY <1>1, Zenon DEF Absent, Objects, Policies
<1>3. ASSUME NEW b \in Nat, NEW p \in Policies, NEW o \in BOOLEAN
      PROVE  /\ Created(b, p, o) \in Objects /\ Created(b, p, o).rec = None
             /\ Created(b, p, o).live /\ Created(b, p, o).born = b /\ ~Created(b, p, o).deleting
  BY <1>2, Zenon DEF Created, Objects
<1>4. ASSUME NEW obj \in Objects
      PROVE  /\ Gone(obj) \in Objects /\ Gone(obj).rec = None /\ ~Gone(obj).live
             /\ Gone(obj).born = obj.born /\ ~Gone(obj).deleting
  <2>1. obj.born \in Nat
    BY Zenon DEF Objects
  <2> QED
    BY <1>2, <2>1, Zenon DEF Gone, Objects
<1> QED
  BY <1>1, <1>2, <1>3, <1>4, Zenon

\* An Engine that a reconcile has provisioned.
LEMMA ProvisionTypes ==
  ASSUME NEW c \in Contents, NEW p \in Policies, NEW o \in BOOLEAN
  PROVE  /\ Provision(c, p, o) \in Objects /\ Provision(c, p, o).policy = p
         /\ Provision(c, p, o).rec # None /\ Provision(c, p, o).rec.version = Version(1, c, p)
         /\ ~Provision(c, p, o).deleting
<1> DEFINE cs == [accepted |-> "true", acceptedGen |-> 1, phase |-> "ready", phaseGen |-> 1,
                  degraded |-> FALSE, observability |-> IF o THEN "true" ELSE "none"]
           r == [gen |-> 1, version |-> Version(1, c, p), uid |-> 1, hash |-> c, policy |-> p]
<1>1. cs \in Conds
  BY Zenon DEF Conds
<1>2. 1 \in 1..MaxUID
  BY ConstantFacts, Zenon
<1>3. Version(1, c, p) \in Versions
  BY <1>2, Zenon DEF Version, Versions
<1>4. r \in Records /\ r.version = Version(1, c, p)
  BY <1>2, <1>3, Zenon DEF Records
<1>5. r # None
  BY <1>4, ConstantFacts, Zenon
<1>6. Created(0, p, o) \in Objects /\ ~Created(0, p, o).deleting /\ Created(0, p, o).policy = p
  BY ObjectTypes, Zenon DEF Created, Absent
<1>7. Provision(c, p, o) = [[[Created(0, p, o) EXCEPT !.fin = TRUE] EXCEPT !.conds = cs] EXCEPT
                              !.rec = r]
  BY Zenon DEF Provision
<1> HIDE DEF cs, r
<1> QED
  BY <1>1, <1>4, <1>5, <1>6, <1>7, Zenon DEF Objects

\* The objects a behaviour starts with.
LEMMA StartTypes ==
  ASSUME NEW c \in Contents, NEW obj \in StartObjects(c)
  PROVE  /\ obj \in Objects /\ ~obj.deleting
         /\ obj.rec # None => obj.rec.version = Version(1, c, obj.policy)
<1>1. PICK b \in 0..MaxChanges, p \in Policies, o \in BOOLEAN :
         obj \in {Created(b, p, o), Gone(Created(b, p, o)), Provision(c, p, o)}
  BY DEF StartObjects
<1>2. b \in Nat
  BY ConstantFacts
<1>3. CASE obj = Created(b, p, o)
  BY <1>2, <1>3, ObjectTypes
<1>4. CASE obj = Gone(Created(b, p, o))
  BY <1>2, <1>4, ObjectTypes, Zenon
<1>5. CASE obj = Provision(c, p, o)
  BY <1>5, ProvisionTypes
<1> QED
  BY <1>1, <1>3, <1>4, <1>5, Zenon

\* What the initial state says of an Engine.
LEMMA Starting ==
  ASSUME Init
  PROVE  /\ eng \in [Engines -> Objects] /\ src.content \in Contents /\ src.gen = 1
         /\ src \in [content : Contents \cup {None}, gen : Nat]
         /\ changes \in 0..MaxChanges /\ faults \in 0..MaxFaults
         /\ \A e \in Engines : /\ ~eng[e].deleting
                               /\ eng[e].rec # None =>
                                     eng[e].rec.version = Version(1, src.content, eng[e].policy)
<1>1. PICK start \in Starts : /\ eng = start.eng
                              /\ src = [content |-> start.content, gen |-> 1]
                              /\ changes = start.changes /\ faults = start.faults
  BY Zenon DEF Init
<1>2. /\ start.content \in Contents /\ start.eng \in [Engines -> StartObjects(start.content)]
      /\ start.changes \in 0..MaxChanges /\ start.faults \in 0..MaxFaults
  BY <1>1, EngineAssumption, Zenon
<1>3. src.content = start.content /\ src.gen = 1 /\ src.content \in Contents
  BY <1>1, <1>2, Zenon
<1>4. \A e \in Engines : eng[e] \in StartObjects(src.content)
  BY <1>1, <1>2, <1>3, Zenon
<1>5. eng \in [Engines -> Objects]
  BY <1>1, <1>2, <1>3, <1>4, StartTypes, Zenon
<1>6. \A e \in Engines : /\ ~eng[e].deleting
                         /\ eng[e].rec # None =>
                               eng[e].rec.version = Version(1, src.content, eng[e].policy)
  BY <1>3, <1>4, StartTypes, Zenon
<1> QED
  BY <1>1, <1>2, <1>3, <1>5, <1>6, Zenon

\* The objects and caches of a first start are well formed (SetupWithManager lists them).
LEMMA TypeInit ==
  ASSUME Init
  PROVE  TypeInv
<1>1. /\ eng \in [Engines -> Objects] /\ src.content \in Contents
      /\ src \in [content : Contents \cup {None}, gen : Nat]
      /\ changes \in 0..MaxChanges /\ faults \in 0..MaxFaults
      /\ \A e \in Engines : eng[e].rec # None =>
                               eng[e].rec.version = Version(1, src.content, eng[e].policy)
  BY Starting, Zenon
<1>2. 1 \in 1..MaxUID
  BY ConstantFacts, Zenon
<1>3. rs \in [live : BOOLEAN, uid : 1..MaxUID, accepted : Contents \cup {None},
              bad : {"no", "degraded", "rejected"}]
  BY <1>1, <1>2, Zenon DEF Init
<1>4. NewName({}) \in Names
  BY ConstantFacts, Zenon DEF NewName
<1>5. \A e \in Engines : eng[e].policy \in Policies
  BY <1>1, Zenon DEF Objects
<1>6. ef \in [Engines -> Policies \cup {None}] /\ np \in [Engines -> SUBSET Names]
  BY <1>4, <1>5, Zenon DEF Init
<1>7. recorded \in [Engines -> SUBSET Versions]
  <2>1. \A p \in Policies : Version(1, src.content, p) \in Versions
    BY <1>1, <1>2, Zenon DEF Version, Versions
  <2>2. \A e \in Engines : eng[e].rec # None => eng[e].rec.version \in Versions
    BY <1>1, <1>5, <2>1, Zenon
  <2> QED
    BY <2>2, Zenon DEF Init
<1>8. job = Idle
  BY Zenon DEF Init
<1>9. job \in Jobs /\ AtStep("idle") /\ job.at \notin Rendered
  BY <1>8, IdleJob, Zenon DEF AtStep, Rendered
<1>10. job.version = None /\ job.applied = None
  BY <1>8, Zenon DEF Idle
<1>11. /\ gateway \in BOOLEAN /\ collector \in BOOLEAN /\ seen = eng /\ seenEf = ef /\ seenNp = np
       /\ tele \subseteq Engines /\ queue \subseteq Engines
  BY Zenon DEF Init
<1>12. owner \in Owners
  <2>1. \A e \in Engines : eng[e].born \in Nat
    BY <1>1, Zenon DEF Objects
  <2> QED
    BY <2>1, Zenon DEF Init, Owners
<1> QED
  BY <1>1, <1>3, <1>6, <1>7, <1>9, <1>10, <1>11, <1>12, Zenon DEF TypeInv, EngineTypeOK


\* What users write keeps the type.
LEMMA WorldTypes ==
  ASSUME TypeInv, World
  PROVE  /\ TypeInv'
         /\ UNCHANGED <<ef, np, tele, owner, seen, seenEf, seenNp, job, recorded, faults>>
         /\ queue \subseteq queue' /\ approved \subseteq approved'
<1>1. /\ UNCHANGED <<ef, np, tele, owner, seen, seenEf, seenNp, job, recorded, faults>>
      /\ changes' = changes + 1 /\ changes < MaxChanges
  BY Zenon DEF World, CreateEngine, EditEngine, DeleteEngine, EditInputs, ChangeGateway,
         ChangeCollector, RuleSetAccepts, RuleSetDegrades, RuleSetRejects, DeleteRuleSet,
         CreateRuleSet, WriteRuleSet,
         Change, caches
<1>2. changes' \in 0..MaxChanges /\ changes + 1 \in Nat
  BY <1>1, ConstantFacts DEF TypeInv, EngineTypeOK
<1>3. /\ eng \in [Engines -> Objects] /\ queue \subseteq Engines
      /\ rs \in [live : BOOLEAN, uid : 1..MaxUID, accepted : Contents \cup {None},
                 bad : {"no", "degraded", "rejected"}]
      /\ src \in [content : Contents \cup {None}, gen : Nat]
      /\ Cached \subseteq Engines /\ Observed \subseteq Engines
  BY Zenon DEF TypeInv, EngineTypeOK, Cached, Observed
<1> DEFINE Typed == /\ eng' \in [Engines -> Objects] /\ queue' \subseteq Engines
                    /\ gateway' \in BOOLEAN /\ collector' \in BOOLEAN
                    /\ rs' \in [live : BOOLEAN, uid : 1..MaxUID, accepted : Contents \cup {None},
                                bad : {"no", "degraded", "rejected"}]
                    /\ src' \in [content : Contents \cup {None}, gen : Nat]
                    /\ queue \subseteq queue' /\ approved \subseteq approved'
<1> SUFFICES Typed
  BY <1>1, <1>2, Zenon DEF TypeInv, EngineTypeOK, AtStep
<1>4. ASSUME UNCHANGED <<gateway, collector, rs, src, queue, approved>>,
             NEW e \in Engines, NEW new \in Objects, eng' = [eng EXCEPT ![e] = new]
      PROVE  Typed
  BY <1>3, <1>4, Zenon DEF TypeInv, EngineTypeOK
<1>5. ASSUME NEW e \in Engines, NEW p \in Policies, NEW o \in BOOLEAN, CreateEngine(e, p, o)
      PROVE  Typed
  <2>1. /\ eng' = [eng EXCEPT ![e] = Created(changes + 1, p, o)]
        /\ UNCHANGED <<gateway, collector, rs, src, queue, approved>>
    BY <1>5, Zenon DEF CreateEngine, world
  <2>2. Created(changes + 1, p, o) \in Objects
    BY <1>2, ObjectTypes, Zenon
  <2> QED
    BY <1>4, <2>1, <2>2, Zenon
<1>6. ASSUME NEW e \in Engines, NEW p \in Policies, NEW o \in BOOLEAN, EditEngine(e, p, o)
      PROVE  Typed
  <2> DEFINE new == [[[eng[e] EXCEPT !.policy = p] EXCEPT !.observed = o] EXCEPT
                       !.gen = eng[e].gen + 1]
  <2>1. /\ eng' = [eng EXCEPT ![e] = new]
        /\ UNCHANGED <<gateway, collector, rs, src, queue, approved>>
    BY <1>3, <1>6, Zenon DEF EditEngine, world, Objects
  <2>2. eng[e] \in Objects /\ eng[e].gen + 1 \in Nat
    BY <1>3 DEF Objects
  <2>3. new \in Objects
    BY <2>2, Zenon DEF Objects
  <2> HIDE DEF new
  <2> QED
    BY <1>4, <2>1, <2>3, Zenon
<1>7. ASSUME NEW e \in Engines, DeleteEngine(e)
      PROVE  Typed
  <2> DEFINE new == IF eng[e].fin THEN [[eng[e] EXCEPT !.deleting = TRUE] EXCEPT
                                          !.gen = eng[e].gen + 1]
                    ELSE Gone(eng[e])
  <2>1. /\ eng' = [eng EXCEPT ![e] = new]
        /\ UNCHANGED <<gateway, collector, rs, src, queue, approved>>
    BY <1>3, <1>7, Zenon DEF DeleteEngine, world, Objects
  <2>2. eng[e] \in Objects /\ eng[e].gen + 1 \in Nat
    BY <1>3 DEF Objects
  <2>3. [[eng[e] EXCEPT !.deleting = TRUE] EXCEPT !.gen = eng[e].gen + 1] \in Objects
    BY <2>2, Zenon DEF Objects
  <2>4. new \in Objects
    BY <2>2, <2>3, ObjectTypes, Zenon
  <2> HIDE DEF new
  <2> QED
    BY <1>4, <2>1, <2>4, Zenon
<1>8. ASSUME NEW c \in Contents \cup {None}, EditInputs(c)
      PROVE  Typed
  <2>1. src' \in [content : Contents \cup {None}, gen : Nat]
    BY <1>3, <1>8 DEF EditInputs
  <2> QED
    BY <1>3, <1>8, <2>1, Zenon DEF EditInputs, TypeInv, EngineTypeOK
<1>9. CASE ChangeGateway
  BY <1>3, <1>9, Zenon DEF ChangeGateway, TypeInv, EngineTypeOK
<1>10. CASE ChangeCollector
  BY <1>3, <1>10, Zenon DEF ChangeCollector, TypeInv, EngineTypeOK
<1>11. ASSUME NEW new \in [live : BOOLEAN, uid : 1..MaxUID, accepted : Contents \cup {None},
                           bad : {"no", "degraded", "rejected"}],
              WriteRuleSet(new)
       PROVE  Typed
  BY <1>3, <1>11, Zenon DEF WriteRuleSet, TypeInv, EngineTypeOK
<1>12. CASE RuleSetAccepts
  <2>1. [rs EXCEPT !.accepted = src.content, !.bad = "no"]
           \in [live : BOOLEAN, uid : 1..MaxUID, accepted : Contents \cup {None},
                bad : {"no", "degraded", "rejected"}]
    BY <1>3, Zenon
  <2> QED
    BY <1>11, <1>12, <2>1, Zenon DEF RuleSetAccepts
<1>13. CASE RuleSetDegrades
  <2>1. [rs EXCEPT !.bad = "degraded"]
           \in [live : BOOLEAN, uid : 1..MaxUID, accepted : Contents \cup {None},
                bad : {"no", "degraded", "rejected"}]
    BY <1>3, Zenon
  <2> QED
    BY <1>11, <1>13, <2>1, Zenon DEF RuleSetDegrades
<1>14. CASE RuleSetRejects
  <2>1. [rs EXCEPT !.accepted = None, !.bad = "rejected"]
           \in [live : BOOLEAN, uid : 1..MaxUID, accepted : Contents \cup {None},
                bad : {"no", "degraded", "rejected"}]
    BY <1>3, Zenon
  <2> QED
    BY <1>11, <1>14, <2>1, Zenon DEF RuleSetRejects
<1>15. CASE DeleteRuleSet
  <2>1. [rs EXCEPT !.live = FALSE, !.accepted = None, !.bad = "no"]
           \in [live : BOOLEAN, uid : 1..MaxUID, accepted : Contents \cup {None},
                bad : {"no", "degraded", "rejected"}]
    BY <1>3, Zenon
  <2> QED
    BY <1>11, <1>15, <2>1, Zenon DEF DeleteRuleSet
<1>16. CASE CreateRuleSet
  <2>1. rs.uid < MaxUID /\ rs.uid \in 1..MaxUID
    BY <1>3, <1>16, Zenon DEF CreateRuleSet
  <2>2. rs.uid + 1 \in 1..MaxUID
    BY <2>1, ConstantFacts
  <2>3. [rs EXCEPT !.live = TRUE, !.uid = @ + 1]
           \in [live : BOOLEAN, uid : 1..MaxUID, accepted : Contents \cup {None},
                bad : {"no", "degraded", "rejected"}]
    BY <1>3, <2>2, Zenon
  <2> QED
    BY <1>11, <1>16, <2>3, Zenon DEF CreateRuleSet
<1> QED
  BY <1>5, <1>6, <1>7, <1>8, <1>9, <1>10, <1>12, <1>13, <1>14, <1>15, <1>16, Zenon DEF World


\* A patch of the conditions keeps the recorded version or drops the record.
LEMMA PatchesEffects ==
  ASSUME TypeInv, ~AtStep("idle"), Patches
  PROVE  /\ StatusOnly /\ UNCHANGED <<ef, np, recorded>>
         /\ eng'[job.e].rec # None =>
              eng[job.e].rec # None /\ eng'[job.e].rec.version = eng[job.e].rec.version
         /\ \/ /\ job' = Idle
               /\ job.e \in queue' \/ job.at = "reject" \/ (job.at = "ruleset" /\ ~Serving)
            \/ /\ \E step \in Steps : <<job.at, step>> \in Moves /\ GoesOn(step)
               /\ job'.obj = eng'[job.e]
<1>1. PICK c \in Conds, r \in {job.obj.rec, None}, step \in Steps, again \in BOOLEAN :
        /\ Patch(c, r, step, again)
        /\ step # "idle" => <<job.at, step>> \in Moves
        /\ step = "idle" /\ ~again => job.at = "reject" \/ (job.at = "ruleset" /\ ~Serving)
  BY Zenon DEF Patches
<1>2. r \in Records \cup {None}
  BY Running, Zenon
<1>3. /\ StatusOnly
      /\ \/ Refused(r) /\ eng' = eng /\ job' = Idle /\ job.e \in queue'
         \/ /\ ~Refused(r) /\ eng'[job.e].rec = MergedRecord(r)
            /\ step = "idle" => job' = Idle /\ (again => job.e \in queue')
            /\ step # "idle" => GoesOn(step) /\ job'.obj = eng'[job.e]
  BY <1>1, <1>2, PatchEffects
<1>4. eng'[job.e].rec # None =>
        eng[job.e].rec # None /\ eng'[job.e].rec.version = eng[job.e].rec.version
  <2>1. CASE eng' = eng
    BY <2>1, Zenon
  <2>2. CASE ~Refused(r) /\ eng'[job.e].rec = MergedRecord(r)
    <3>1. MergedRecord(r) # None =>
              \/ eng[job.e].rec # None /\ MergedRecord(r).version = eng[job.e].rec.version
              \/ r # None /\ r # job.obj.rec /\ MergedRecord(r).version = r.version
      BY <1>2, <2>2, MergedIsRecord, Zenon
    <3> QED
      BY <2>2, <3>1, Zenon
  <2> QED
    BY <1>3, <2>1, <2>2, Zenon
<1> QED
  BY <1>1, <1>3, <1>4, Zenon DEF Patches

\* The patch that records the accepted version.
LEMMA AcceptsEffects ==
  ASSUME TypeInv, ~AtStep("idle"), Accepts
  PROVE  /\ StatusOnly /\ UNCHANGED <<ef, np>> /\ job.at = "record" /\ job' = Idle
         /\ recorded' \in [Engines -> SUBSET Versions]
         /\ \A e \in Engines : recorded[e] \subseteq recorded'[e]
         /\ eng'[job.e].rec # None =>
              \/ eng[job.e].rec # None /\ eng'[job.e].rec.version = eng[job.e].rec.version
              \/ eng'[job.e].rec.version = job.version /\ job.version \in recorded'[job.e]
<1>0. /\ job.at = "record" /\ UNCHANGED <<ef, np>>
      /\ job.e \in Engines /\ job.version \in Versions
      /\ recorded \in [Engines -> SUBSET Versions] /\ eng \in [Engines -> Objects]
  BY Running, Zenon DEF Accepts, AtStep, TypeInv, EngineTypeOK, Rendered
<1>1. CASE UNCHANGED <<eng, recorded>> /\ job' = Idle
  BY <1>0, <1>1, Zenon DEF StatusOnly, Same
<1>2. ASSUME NEW c \in Conds, NEW again \in BOOLEAN, Patch(c, NewRecord, "idle", again),
             recorded' = IF Refused(NewRecord) THEN recorded
                         ELSE [recorded EXCEPT ![job.e] = @ \cup {job.version}]
      PROVE  /\ StatusOnly /\ job' = Idle
             /\ recorded' \in [Engines -> SUBSET Versions]
             /\ \A e \in Engines : recorded[e] \subseteq recorded'[e]
             /\ eng'[job.e].rec # None =>
                  \/ eng[job.e].rec # None /\ eng'[job.e].rec.version = eng[job.e].rec.version
                  \/ eng'[job.e].rec.version = job.version /\ job.version \in recorded'[job.e]
  <2>1. NewRecord \in Records /\ NewRecord.version = job.version
    <3>1. job.obj.gen \in Nat
      BY <1>0, Running, Zenon
    <3>2. /\ job.version[1] \in 1..MaxUID /\ job.version[2] \in Contents
          /\ job.version[3] \in Policies
      BY <1>0, Zenon DEF Versions
    <3> QED
      BY <1>0, <3>1, <3>2, Zenon DEF NewRecord, Records, Desired
  <2>2. "idle" \in Steps
    BY Zenon DEF Steps
  <2>3. /\ StatusOnly
        /\ \/ Refused(NewRecord) /\ eng' = eng /\ job' = Idle
           \/ /\ ~Refused(NewRecord) /\ eng'[job.e].rec = MergedRecord(NewRecord)
              /\ job' = Idle
    BY <1>2, <2>1, <2>2, PatchEffects, Zenon
  <2>4. CASE Refused(NewRecord)
    BY <1>0, <1>2, <2>3, <2>4, Zenon
  <2>5. CASE ~Refused(NewRecord)
    <3>1. recorded' = [recorded EXCEPT ![job.e] = @ \cup {job.version}]
      BY <1>2, <2>5, Zenon
    <3>2. MergedRecord(NewRecord) # None =>
            \/ eng[job.e].rec # None /\ MergedRecord(NewRecord).version = eng[job.e].rec.version
            \/ MergedRecord(NewRecord).version = job.version
      BY <2>1, <2>5, MergedIsRecord, Zenon
    <3>3. recorded' \in [Engines -> SUBSET Versions] /\ job.version \in recorded'[job.e]
      BY <1>0, <3>1, Zenon
    <3>4. \A e \in Engines : recorded[e] \subseteq recorded'[e]
      BY <1>0, <3>1, Zenon
    <3> QED
      BY <2>3, <2>5, <3>2, <3>3, <3>4, Zenon
  <2> QED
    BY <2>4, <2>5, Zenon
<1> QED
  BY <1>0, <1>1, <1>2, Zenon DEF Accepts

\* What the finalizer steps write.
LEMMA FinalizesEffects ==
  ASSUME TypeInv, ~AtStep("idle"), Finalizes
  PROVE  /\ eng' \in [Engines -> Objects] /\ UNCHANGED <<ef, np, recorded>> /\ job' = Idle
         /\ \A f \in Engines \ {job.e} : eng'[f] = eng[f]
         /\ \/ /\ eng'[job.e].live = eng[job.e].live /\ eng'[job.e].gen = eng[job.e].gen
               /\ eng'[job.e].born = eng[job.e].born /\ eng'[job.e].rec = eng[job.e].rec
               /\ eng'[job.e].deleting = eng[job.e].deleting
               /\ ~eng[job.e].deleting \/ (eng[job.e].fin => eng'[job.e].fin)
            \/ eng'[job.e] = Gone(eng[job.e])
         /\ \/ job.e \in queue' \/ ~eng'[job.e].live
            \/ AtStep("release") /\ eng[job.e].live /\ ~eng[job.e].deleting
         /\ \A f \in Engines : eng'[f].rec \in {None, eng[f].rec}
<1>0. eng \in [Engines -> Objects] /\ job.e \in Engines /\ eng[job.e] \in Objects
  BY Running, Zenon DEF TypeInv, EngineTypeOK
<1>1. CASE /\ job.e \in queue' /\ eng' = [eng EXCEPT ![job.e].fin = @ \/ eng[job.e].live]
  <2> DEFINE new == [eng[job.e] EXCEPT !.fin = eng[job.e].fin \/ eng[job.e].live]
  <2>1. eng' = [eng EXCEPT ![job.e] = new]
    BY <1>0, <1>1, Zenon
  <2>2. /\ new \in Objects /\ new.live = eng[job.e].live /\ new.gen = eng[job.e].gen
        /\ new.born = eng[job.e].born /\ new.rec = eng[job.e].rec
        /\ new.deleting = eng[job.e].deleting /\ (eng[job.e].fin => new.fin)
    BY <1>0, Zenon DEF Objects
  <2> HIDE DEF new
  <2>3. eng'[job.e] = new /\ eng' \in [Engines -> Objects]
        /\ \A f \in Engines \ {job.e} : eng'[f] = eng[f]
    BY <1>0, <2>1, <2>2, Zenon
  <2>4. \A f \in Engines : eng'[f].rec \in {None, eng[f].rec}
    BY <2>2, <2>3, Zenon
  <2> QED
    BY <1>1, <2>2, <2>3, <2>4, Zenon DEF Finalizes
<1>2. CASE /\ AtStep("release") /\ (~eng[job.e].live => job.e \in queue')
           /\ eng' = [eng EXCEPT ![job.e] = IF @.deleting THEN Gone(@) ELSE [@ EXCEPT !.fin = FALSE]]
  <2>1. CASE eng[job.e].deleting
    <3>1. eng' = [eng EXCEPT ![job.e] = Gone(eng[job.e])]
      BY <1>0, <1>2, <2>1, Zenon
    <3>2. Gone(eng[job.e]) \in Objects /\ Gone(eng[job.e]).rec = None /\ ~Gone(eng[job.e]).live
      BY <1>0, ObjectTypes, Zenon
    <3>3. eng'[job.e] = Gone(eng[job.e]) /\ eng' \in [Engines -> Objects]
          /\ \A f \in Engines \ {job.e} : eng'[f] = eng[f]
      BY <1>0, <3>1, <3>2, Zenon
    <3>4. \A f \in Engines : eng'[f].rec \in {None, eng[f].rec}
      BY <3>2, <3>3, Zenon
    <3> QED
      BY <3>2, <3>3, <3>4, Zenon DEF Finalizes
  <2>2. CASE ~eng[job.e].deleting
    <3> DEFINE new == [eng[job.e] EXCEPT !.fin = FALSE]
    <3>1. eng' = [eng EXCEPT ![job.e] = new]
      BY <1>0, <1>2, <2>2, Zenon
    <3>2. /\ new \in Objects /\ new.live = eng[job.e].live /\ new.gen = eng[job.e].gen
          /\ new.born = eng[job.e].born /\ new.rec = eng[job.e].rec
          /\ new.deleting = eng[job.e].deleting
      BY <1>0, Zenon DEF Objects
    <3> HIDE DEF new
    <3>3. eng'[job.e] = new /\ eng' \in [Engines -> Objects]
          /\ \A f \in Engines \ {job.e} : eng'[f] = eng[f]
      BY <1>0, <3>1, <3>2, Zenon
    <3>4. \A f \in Engines : eng'[f].rec \in {None, eng[f].rec}
      BY <3>2, <3>3, Zenon
    <3> QED
      BY <1>2, <2>2, <3>2, <3>3, <3>4, Zenon DEF Finalizes
  <2> QED
    BY <2>1, <2>2, Zenon
<1> QED
  BY <1>1, <1>2, Zenon DEF Finalizes


\* A step of a reconcile keeps the type.
LEMMA ReconcileTypes ==
  ASSUME TypeInv, Reconciles
  PROVE  TypeInv'
<1>0. ~AtStep("idle") /\ Local /\ Kinds
  BY ReconcileKinds, Zenon
<1>1. /\ job \in Jobs /\ job.e \in Engines /\ eng \in [Engines -> Objects]
      /\ ef \in [Engines -> Policies \cup {None}] /\ np \in [Engines -> SUBSET Names]
      /\ recorded \in [Engines -> SUBSET Versions]
  BY <1>0, Running, Zenon DEF TypeInv, EngineTypeOK
<1> DEFINE Typed == /\ eng' \in [Engines -> Objects]
                    /\ ef' \in [Engines -> Policies \cup {None}]
                    /\ np' \in [Engines -> SUBSET Names]
                    /\ recorded' \in [Engines -> SUBSET Versions]
                    /\ job' = Idle \/ (job' \in Jobs /\ job'.e = job.e)
                    /\ job'.at \in Rendered => job'.version \in Versions
<1> SUFFICES Typed
  <2>1. job' \in Jobs /\ (~(job'.at = "idle") => job'.e \in Engines)
    BY <1>1, IdleJob, Zenon
  <2>2. /\ ~(job'.at = "idle") => job'.obj \in Objects
        /\ job'.version \in Versions \cup {None} /\ job'.applied \in Policies \cup {None}
    BY <2>1, Zenon DEF Jobs
  <2> QED
    BY <1>0, <2>1, <2>2, Zenon DEF TypeInv, EngineTypeOK, Local, AtStep
<1>2. job'.at \in Rendered => job' # Idle
  BY IdleJob, Zenon DEF Rendered
<1>3. ASSUME NEW step \in Steps, GoesOn(step), step \in Rendered => job.at \in Rendered
      PROVE  /\ job' \in Jobs /\ job'.e = job.e
             /\ job'.at \in Rendered => job'.version \in Versions
  BY <1>3, Zenon DEF GoesOn, TypeInv
<1>4. \A step \in Steps : <<job.at, step>> \in Moves /\ step \in Rendered => job.at \in Rendered
  BY Zenon DEF Moves, Rendered
<1>5. CASE Patches
  BY <1>0, <1>1, <1>2, <1>3, <1>4, <1>5, PatchesEffects, Zenon DEF StatusOnly
<1>6. CASE Goes
  BY <1>1, <1>3, <1>4, <1>6, Zenon DEF Goes
<1>7. CASE Quits
  BY <1>1, <1>2, <1>7, Zenon DEF Quits
<1>8. CASE Renders
  <2>1. rs.uid \in 1..MaxUID /\ rs.accepted \in Contents /\ job.obj.policy \in Policies
    BY <1>0, <1>8, Running, Zenon DEF Renders, TypeInv, EngineTypeOK
  <2>2. Version(rs.uid, rs.accepted, job.obj.policy) \in Versions
    BY <2>1, Zenon DEF Version, Versions
  <2>3. job'.version \in Versions
    BY <1>8, <2>2, Zenon DEF Renders
  <2> QED
    BY <1>1, <1>8, <2>3, Zenon DEF Renders
<1>9. CASE Restricts
  <2>1. "telemetry" \in Steps /\ job.at \in Rendered
    BY <1>9, Zenon DEF Restricts, AtStep, Steps, Rendered
  <2> QED
    BY <1>1, <1>3, <1>9, <2>1, Zenon DEF Restricts
<1>10. CASE Cleans
  <2>1. np' \in [Engines -> SUBSET Names]
    BY <1>1, <1>10, Zenon DEF Cleans, cleanupNetworkPolicy
  <2>2. {"release", "reject"} \subseteq Steps \ Rendered
    BY Zenon DEF Steps, Rendered
  <2> QED
    BY <1>1, <1>2, <1>3, <1>10, <2>1, <2>2, Zenon DEF Cleans
<1>11. CASE Detaches
  <2>1. "rejecting" \in Steps \ Rendered
    BY Zenon DEF Steps, Rendered
  <2>2. ef' \in [Engines -> Policies \cup {None}]
    BY <1>1, <1>11, Zenon DEF Detaches
  <2> QED
    BY <1>1, <1>3, <1>11, <2>1, <2>2, Zenon DEF Detaches
<1>12. CASE Attaches
  <2>1. ef' \in [Engines -> Policies \cup {None}]
    BY <1>1, <1>12, Zenon DEF Attaches
  <2>2. job'.version \in Versions
    BY <1>12, Zenon DEF Attaches, AtStep, TypeInv, Rendered
  <2> QED
    BY <1>1, <1>12, <2>1, <2>2, Zenon DEF Attaches
<1>13. CASE Finalizes
  BY <1>0, <1>1, <1>2, <1>13, FinalizesEffects, Zenon
<1>14. CASE Accepts
  BY <1>0, <1>1, <1>2, <1>14, AcceptsEffects, Zenon DEF StatusOnly
<1> QED
  BY <1>0, <1>5, <1>6, <1>7, <1>8, <1>9, <1>10, <1>11, <1>12, <1>13, <1>14, Zenon DEF Kinds

\* The steps that a reconcile may start with.
Firsts == {"orphan", "cleanup", "finalizer", "start", "target"}

\* A reconcile starts with the object in the cache.
LEMMA BeginEffects ==
  ASSUME TypeInv, NEW e \in Engines, Begin(e)
  PROVE  /\ UNCHANGED <<eng, ef, np, tele, owner, world, caches, recorded, approved, changes, faults>>
         /\ AtStep("idle") /\ e \in queue /\ queue' = queue \ {e}
         /\ \/ job' = Idle /\ seen[e].live /\ seen[e].deleting /\ ~seen[e].fin
            \/ /\ job' \in Jobs /\ job'.at \in Firsts /\ job'.e = e /\ job'.obj = seen[e]
               /\ job'.at = "orphan" => ~seen[e].live
               /\ job'.at = "cleanup" => seen[e].live /\ seen[e].deleting
<1> DEFINE obj == seen[e]
           at == IF ~obj.live THEN "orphan"
                 ELSE IF obj.deleting THEN IF obj.fin THEN "cleanup" ELSE "idle"
                 ELSE IF ~obj.fin THEN "finalizer"
                 ELSE IF obj.conds.phase = "none" THEN "start" ELSE "target"
<1>1. /\ UNCHANGED <<eng, ef, np, tele, owner, world, caches, recorded, approved, changes, faults>>
      /\ AtStep("idle") /\ e \in queue /\ queue' = queue \ {e}
      /\ job' = IF at = "idle" THEN Idle ELSE [Idle EXCEPT !.e = e, !.at = at, !.obj = obj]
  BY Zenon DEF Begin, api
<1>2. /\ at = "idle" => obj.live /\ obj.deleting /\ ~obj.fin
      /\ at # "idle" => at \in Firsts /\ (at = "orphan" => ~obj.live)
      /\ at = "cleanup" => obj.live /\ obj.deleting
  BY Zenon DEF Firsts
<1>3. obj \in Objects /\ Idle \in Jobs /\ Firsts \subseteq Steps
  BY IdleJob, Zenon DEF TypeInv, EngineTypeOK, Firsts, Steps
<1> HIDE DEF at, obj
<1>4. CASE at = "idle"
  BY <1>1, <1>2, <1>4, Zenon DEF obj
<1>5. CASE at # "idle"
  <2>1. job' = [[[Idle EXCEPT !.e = e] EXCEPT !.at = at] EXCEPT !.obj = obj]
    BY <1>1, <1>5, Zenon
  <2>2. at \in Steps
    BY <1>2, <1>3, <1>5, Zenon
  <2>3. job' \in Jobs /\ job'.at = at /\ job'.e = e /\ job'.obj = obj
    BY <1>3, <2>1, <2>2, Zenon DEF Jobs
  <2> QED
    BY <1>1, <1>2, <1>5, <2>3, Zenon DEF obj
<1> QED
  BY <1>4, <1>5, Zenon

\* The caches, garbage collection, the start of a reconcile and a new leader.
LEMMA OtherTypes ==
  ASSUME TypeInv,
         Restart \/ \E e \in Engines : \/ SyncEngine(e) \/ SyncEnvoyFilter(e)
                                       \/ SyncNetworkPolicy(e)
                                       \/ GarbageCollect(e) \/ Begin(e)
  PROVE  TypeInv'
<1>1. CASE Restart
  <2>1. faults' \in 0..MaxFaults
    BY <1>1, ConstantFacts, QuietTypes DEF Restart, Fault
  <2>2. job' = Idle /\ job' \in Jobs /\ job'.at = "idle"
    BY <1>1, IdleJob, Zenon DEF Restart
  <2>3. job'.at \notin Rendered /\ job'.version \in Versions \cup {None}
        /\ job'.applied \in Policies \cup {None}
    BY <2>2, Zenon DEF Rendered, Jobs
  <2> QED
    BY <1>1, <2>1, <2>2, <2>3, Zenon DEF Restart, TypeInv, EngineTypeOK, AtStep, api, world
<1>2. ASSUME NEW e \in Engines, SyncEngine(e)
      PROVE  TypeInv'
  <2>1. seen' \in [Engines -> Objects] /\ queue' \subseteq Engines
    BY <1>2, Zenon DEF SyncEngine, TypeInv, EngineTypeOK, Cached
  <2>2. UNCHANGED <<eng, gateway, collector, rs, src, ef, np, tele, owner,
                    seenEf, seenNp, job, recorded, changes, faults>>
    BY <1>2, Zenon DEF SyncEngine, api, world
  <2>3. EngineTypeOK'
    BY <2>1, <2>2, Zenon DEF TypeInv, EngineTypeOK, AtStep
  <2> QED
    BY <2>2, <2>3, Zenon DEF TypeInv
<1>3. ASSUME NEW e \in Engines, SyncEnvoyFilter(e)
      PROVE  TypeInv'
  <2>1. seenEf' \in [Engines -> Policies \cup {None}] /\ queue' \subseteq Engines
    BY <1>3, Zenon DEF SyncEnvoyFilter, TypeInv, EngineTypeOK
  <2>2. UNCHANGED <<eng, gateway, collector, rs, src, ef, np, tele, owner,
                    seen, seenNp, job, recorded, changes, faults>>
    BY <1>3, Zenon DEF SyncEnvoyFilter, api, world
  <2>3. EngineTypeOK'
    BY <2>1, <2>2, Zenon DEF TypeInv, EngineTypeOK, AtStep
  <2> QED
    BY <2>2, <2>3, Zenon DEF TypeInv
<1>4. ASSUME NEW e \in Engines, SyncNetworkPolicy(e)
      PROVE  TypeInv'
  <2>1. seenNp' \in [Engines -> SUBSET Names] /\ queue' \subseteq Engines
    BY <1>4, Zenon DEF SyncNetworkPolicy, TypeInv, EngineTypeOK
  <2>2. UNCHANGED <<eng, gateway, collector, rs, src, ef, np, tele, owner,
                    seen, seenEf, job, recorded, changes, faults>>
    BY <1>4, Zenon DEF SyncNetworkPolicy, api, world
  <2>3. EngineTypeOK'
    BY <2>1, <2>2, Zenon DEF TypeInv, EngineTypeOK, AtStep
  <2> QED
    BY <2>2, <2>3, Zenon DEF TypeInv
<1>5. ASSUME NEW e \in Engines, GarbageCollect(e)
      PROVE  TypeInv'
  <2>1. /\ ef' \in [Engines -> Policies \cup {None}]
        /\ queue' \subseteq Engines /\ tele' \subseteq Engines /\ owner' \in Owners
    BY <1>5, Zenon DEF GarbageCollect, TypeInv, EngineTypeOK
  <2>2. UNCHANGED <<eng, gateway, collector, rs, src, np, seen,
                    seenEf, seenNp, job, recorded, changes, faults>>
    BY <1>5, Zenon DEF GarbageCollect, caches, world
  <2>3. EngineTypeOK'
    BY <2>1, <2>2, Zenon DEF TypeInv, EngineTypeOK, AtStep
  <2> QED
    BY <2>2, <2>3, Zenon DEF TypeInv
<1>6. ASSUME NEW e \in Engines, Begin(e)
      PROVE  TypeInv'
  <2>1. /\ UNCHANGED <<eng, ef, np, tele, owner, world, caches, recorded, approved, changes, faults>>
        /\ queue' = queue \ {e}
        /\ job' = Idle \/ (job' \in Jobs /\ job'.at \in Firsts /\ job'.e = e)
    BY <1>6, BeginEffects, Zenon
  <2>2. /\ job' \in Jobs /\ job'.at \notin Rendered /\ (job'.at # "idle" => job'.e \in Engines)
    BY <2>1, IdleJob, Zenon DEF Firsts, Rendered
  <2>3. /\ job'.at # "idle" => job'.obj \in Objects
        /\ job'.version \in Versions \cup {None} /\ job'.applied \in Policies \cup {None}
    BY <2>2, Zenon DEF Jobs
  <2> QED
    BY <2>1, <2>2, <2>3, Zenon DEF TypeInv, EngineTypeOK, AtStep, world, caches
<1> QED
  BY <1>1, <1>2, <1>3, <1>4, <1>5, <1>6, Zenon

\* Every step keeps the type.
LEMMA TypeStep ==
  ASSUME TypeInv, [Next]_vars
  PROVE  TypeInv'
<1>1. CASE World
  BY <1>1, WorldTypes, Zenon
<1>2. CASE Step \/ CallFails \/ ProvisioningFails
  BY <1>2, ReconcileTypes, Zenon DEF Reconciles
<1>3. CASE Caches \/ Restart \/ \E e \in Engines : GarbageCollect(e) \/ Begin(e)
  BY <1>3, OtherTypes, Zenon DEF Caches
<1>4. CASE UNCHANGED vars
  <2>1. EngineTypeOK'
    BY <1>4, Zenon DEF TypeInv, EngineTypeOK, AtStep, vars
  <2> QED
    BY <1>4, <2>1, Zenon DEF TypeInv, vars
<1> QED
  BY <1>1, <1>2, <1>3, <1>4, Zenon DEF Next

\* The state of the controller keeps its type, whatever the schedule.
THEOREM EngineTypeCorrect == Spec => []EngineTypeOK
<1>1. Spec => []TypeInv
  BY TypeInit, TypeStep, PTL DEF Spec
<1>2. TypeInv => EngineTypeOK
  BY Zenon DEF TypeInv
<1> QED
  BY <1>1, <1>2, PTL

-----------------------------------------------------------------------------
\* The contents that were rendered and recorded are ones the RuleSet controller accepted.
ApprovedVersion(v) == <<v[1], v[2]>> \in approved

Approval ==
  /\ rs.accepted # None => <<rs.uid, rs.accepted>> \in approved
  /\ job.at \in Rendered => ApprovedVersion(job.version)
  /\ \A e \in Engines : eng[e].rec # None => ApprovedVersion(eng[e].rec.version)

\* What any copy of an Engine or of an EnvoyFilter shows was recorded.
FailOpen(e) == \E v \in recorded[e] : v[3] = "allow"
Shown(obj, versions) == obj.rec # None => obj.rec.version \in versions

History ==
  /\ \A e \in Engines : /\ Shown(eng[e], recorded[e]) /\ Shown(seen[e], recorded[e])
                        /\ ef[e] = "allow" => FailOpen(e)
                        /\ seenEf[e] = "allow" => FailOpen(e)
  /\ ~AtStep("idle") => Shown(job.obj, recorded[job.e])

\* The cache holds no version from the future, a deletion is not undone, and what is being
\* deleted has a finalizer.
Lag(old, new) ==
  /\ old.born <= new.born
  /\ old.live /\ new.live /\ old.born = new.born => old.gen <= new.gen
  /\ old.live /\ new.live /\ old.born = new.born /\ old.gen = new.gen /\ old.deleting => new.deleting
  /\ old.deleting => old.fin
  /\ new.deleting => new.fin

\* An Engine is attached without its restrictions.
Bare(e) == eng[e].live /\ ef[e] # None /\ np[e] = {}

\* A reconcile of Engine e is queued or will be, or one is on its way to its NetworkPolicy.
Due(e) == e \in queue \/ Passes(seen[e], eng[e]) \/ seenEf[e] # ef[e] \/ seenNp[e] # np[e]
WorkingSteps == {"cleanup", "release", "finalizer", "start", "target", "detaching", "ruleset",
                 "content", "policy"}
Working(e) == job.e = e /\ job.at \in WorkingSteps

\* A reconcile of a deleted Engine leaves another of its name to the watch.
Superseded ==
  job.at \in {"cleanup", "release"} /\ eng[job.e].live /\ ~eng[job.e].deleting =>
    job.e \in queue \/ Passes(seen[job.e], eng[job.e])

Restoring ==
  /\ \A e \in Engines : Lag(seen[e], eng[e])
  /\ Superseded
  /\ job.at \in Restricted => np[job.e] # {}
  /\ job.at \in {"rejecting", "reject"} =>
        ef[job.e] = None \/ job.e \in queue \/ seenEf[job.e] # ef[job.e]
  /\ \A e \in Engines : Bare(e) /\ Serving => Due(e) \/ Working(e)

----------------------------------------------------------------------------
(* What the world writes.                                                  *)

\* A user creates, edits or deletes Engine e.
UserWrites(e) ==
  /\ UNCHANGED <<rs, queue, approved>>
  /\ \A f \in Engines \ {e} : eng'[f] = eng[f]
  /\ \/ /\ ~eng[e].live /\ eng[e].born = 0 /\ eng'[e].born > 0
        /\ eng'[e].live /\ ~eng'[e].deleting /\ eng'[e].rec = None
     \/ eng[e].live /\ eng'[e] = Gone(eng[e])
     \/ /\ eng[e].live /\ eng'[e].live
        /\ eng'[e].born = eng[e].born /\ eng'[e].gen = eng[e].gen + 1
        /\ eng'[e].rec = eng[e].rec /\ (eng'[e].deleting => eng'[e].fin)

\* The RuleSet controller writes.
RuleSetWrites ==
  /\ UNCHANGED eng
  /\ queue' = queue \cup Cached
  /\ approved \subseteq approved'
  /\ rs'.accepted # None => <<rs'.uid, rs'.accepted>> \in approved'

\* Something else changes that this controller depends on.
OtherWrites == UNCHANGED <<eng, rs, approved>> /\ queue \subseteq queue'

\* A step outside the controller is one user write to one Engine, a write of the RuleSet
\* controller, or a change to what neither an Engine nor the accepted content is.
LEMMA WorldEffects ==
  ASSUME TypeInv, World
  PROVE  \/ \E e \in Engines : UserWrites(e)
         \/ RuleSetWrites
         \/ OtherWrites
<1>0. eng \in [Engines -> Objects] /\ changes \in Nat
  BY ConstantFacts DEF TypeInv, EngineTypeOK
<1>1. ASSUME NEW e \in Engines, NEW p \in Policies, NEW o \in BOOLEAN, CreateEngine(e, p, o)
      PROVE  UserWrites(e)
  <2> DEFINE new == Created(changes + 1, p, o)
  <2>1. /\ eng' = [eng EXCEPT ![e] = new] /\ ~eng[e].live /\ eng[e].born = 0
        /\ UNCHANGED <<rs, queue, approved>>
    BY <1>1, Zenon DEF CreateEngine, world
  <2>2. changes + 1 \in Nat /\ changes + 1 > 0
    BY <1>0
  <2>3. new.live /\ new.born = changes + 1 /\ ~new.deleting /\ new.rec = None
    BY <2>2, ObjectTypes
  <2> HIDE DEF new
  <2> QED
    BY <1>0, <2>1, <2>2, <2>3, Zenon DEF UserWrites
<1>2. ASSUME NEW e \in Engines, NEW p \in Policies, NEW o \in BOOLEAN, EditEngine(e, p, o)
      PROVE  UserWrites(e)
  <2> DEFINE new == [[[eng[e] EXCEPT !.policy = p] EXCEPT !.observed = o] EXCEPT
                       !.gen = eng[e].gen + 1]
  <2>1. /\ eng' = [eng EXCEPT ![e] = new] /\ eng[e].live /\ ~eng[e].deleting
        /\ UNCHANGED <<rs, queue, approved>>
    BY <1>0, <1>2, Zenon DEF EditEngine, world, Objects
  <2>2. eng[e] \in Objects
    BY <1>0, Zenon
  <2>3. /\ new.live = eng[e].live /\ new.born = eng[e].born /\ new.gen = eng[e].gen + 1
        /\ new.rec = eng[e].rec /\ new.deleting = eng[e].deleting
    BY <2>2, Zenon DEF Objects
  <2> HIDE DEF new
  <2>4. eng'[e] = new /\ \A f \in Engines \ {e} : eng'[f] = eng[f]
    BY <1>0, <2>1, Zenon
  <2> QED
    BY <2>1, <2>3, <2>4, Zenon DEF UserWrites
<1>3. ASSUME NEW e \in Engines, DeleteEngine(e)
      PROVE  UserWrites(e)
  <2> DEFINE del == [[eng[e] EXCEPT !.deleting = TRUE] EXCEPT !.gen = eng[e].gen + 1]
  <2>1. /\ eng' = [eng EXCEPT ![e] = IF eng[e].fin THEN del ELSE Gone(eng[e])]
        /\ eng[e].live /\ UNCHANGED <<rs, queue, approved>>
    BY <1>3, Zenon DEF DeleteEngine, world
  <2>2. eng[e] \in Objects
    BY <1>0, Zenon
  <2>3. /\ del.live = eng[e].live /\ del.born = eng[e].born /\ del.gen = eng[e].gen + 1
        /\ del.rec = eng[e].rec /\ del.fin = eng[e].fin
    BY <2>2, Zenon DEF Objects
  <2> HIDE DEF del
  <2>4. /\ eng'[e] = IF eng[e].fin THEN del ELSE Gone(eng[e])
        /\ \A f \in Engines \ {e} : eng'[f] = eng[f]
    BY <1>0, <2>1, Zenon
  <2> QED
    BY <2>1, <2>3, <2>4, Zenon DEF UserWrites
<1>4. CASE \E c \in Contents \cup {None} : EditInputs(c)
  BY <1>4, Zenon DEF EditInputs, OtherWrites
<1>5. CASE ChangeGateway \/ ChangeCollector
  BY <1>5, Zenon DEF ChangeGateway, ChangeCollector, OtherWrites
<1>6. CASE \E new : WriteRuleSet(new)
  BY <1>6, Zenon DEF WriteRuleSet, RuleSetWrites
<1>7. CASE RuleSetAccepts \/ RuleSetDegrades \/ RuleSetRejects \/ DeleteRuleSet \/ CreateRuleSet
  <2>1. \E new : WriteRuleSet(new)
    BY <1>7, Zenon DEF RuleSetAccepts, RuleSetDegrades, RuleSetRejects, DeleteRuleSet, CreateRuleSet
  <2> QED
    BY <1>6, <2>1, Zenon
<1> QED
  BY <1>1, <1>2, <1>3, <1>4, <1>5, <1>7, Zenon DEF World

\* A user's write keeps the record or removes it with the Engine.
LEMMA UserRecords ==
  ASSUME TypeInv, NEW e \in Engines, UserWrites(e)
  PROVE  \A f \in Engines : eng'[f].rec \in {None, eng[f].rec}
<1>1. Gone(eng[e]).rec = None
  BY ObjectTypes, Zenon DEF TypeInv, EngineTypeOK
<1>2. eng'[e].rec \in {None, eng[e].rec}
  BY <1>1, Zenon DEF UserWrites
<1> QED
  BY <1>2, Zenon DEF UserWrites

----------------------------------------------------------------------------
(* The record names an accepted content.                                   *)

\* The RuleSet is as it was accepted when an Engine starts.
LEMMA ApprovalInit ==
  ASSUME Init
  PROVE  Approval
<1>1. \A e \in Engines : eng[e].rec # None =>
                            eng[e].rec.version = Version(1, src.content, eng[e].policy)
  BY Starting, Zenon
<1>2. /\ approved = {<<1, src.content>>} /\ rs.uid = 1 /\ rs.accepted = src.content
      /\ job = Idle
  BY Zenon DEF Init
<1>3. job.at \notin Rendered
  BY <1>2, IdleJob, Zenon DEF Rendered
<1>4. \A p : ApprovedVersion(Version(1, src.content, p))
  BY <1>2, Zenon DEF ApprovedVersion, Version
<1>5. \A e \in Engines : eng[e].rec # None => ApprovedVersion(eng[e].rec.version)
  BY <1>1, <1>4, Zenon
<1> QED
  BY <1>2, <1>3, <1>5, Zenon DEF Approval

\* Reconcile renders what was accepted and records what it rendered.
LEMMA ApprovalReconcile ==
  ASSUME TypeInv, Approval, Reconciles
  PROVE  Approval'
<1>0. ~AtStep("idle") /\ Local /\ Kinds
  BY ReconcileKinds, Zenon
<1>1. approved' = approved /\ rs' = rs /\ job.e \in Engines
  BY <1>0, Running, Zenon DEF Local
<1>2. \A v : ApprovedVersion(v) => ApprovedVersion(v)'
  BY <1>1, Zenon DEF ApprovedVersion
<1> DEFINE Job == job'.at \in Rendered => ApprovedVersion(job'.version)
           Rec == \A e \in Engines : eng'[e].rec # None => ApprovedVersion(eng'[e].rec.version)
<1> SUFFICES Job /\ Rec
  BY <1>1, Zenon DEF Approval, ApprovedVersion
<1>3. job'.at \in Rendered => job' # Idle
  BY IdleJob, Zenon DEF Rendered
<1>4. ASSUME NEW step \in Steps, GoesOn(step), step \in Rendered => job.at \in Rendered
      PROVE  Job
  BY <1>4, Zenon DEF GoesOn, Approval
<1>5. \A step \in Steps : <<job.at, step>> \in Moves /\ step \in Rendered => job.at \in Rendered
  BY Zenon DEF Moves, Rendered
<1>6. UNCHANGED eng => Rec
  BY Zenon DEF Approval
<1>7. CASE Patches
  <2>1. Job
    BY <1>0, <1>3, <1>4, <1>5, <1>7, PatchesEffects, Zenon
  <2>2. Rec
    BY <1>0, <1>1, <1>7, PatchesEffects, Zenon DEF Approval, StatusOnly
  <2> QED
    BY <2>1, <2>2, Zenon
<1>8. CASE Goes
  BY <1>4, <1>5, <1>6, <1>8, Zenon DEF Goes
<1>9. CASE Quits
  BY <1>3, <1>6, <1>9, Zenon DEF Quits
<1>10. CASE Renders
  <2>1. <<rs.uid, rs.accepted>> \in approved
    BY <1>10, Zenon DEF Renders, Approval
  <2>2. ApprovedVersion(job'.version)
    BY <1>10, <2>1 DEF Renders, ApprovedVersion, Version
  <2> QED
    BY <1>6, <1>10, <2>2, Zenon DEF Renders
<1>11. CASE Restricts
  <2>1. "telemetry" \in Steps /\ job.at \in Rendered
    BY <1>11, Zenon DEF Restricts, AtStep, Steps, Rendered
  <2> QED
    BY <1>4, <1>6, <1>11, <2>1, Zenon DEF Restricts
<1>12. CASE Cleans
  <2>1. {"release", "reject"} \subseteq Steps \ Rendered
    BY Zenon DEF Steps, Rendered
  <2> QED
    BY <1>3, <1>4, <1>6, <1>12, <2>1, Zenon DEF Cleans
<1>13. CASE Detaches
  <2>1. "rejecting" \in Steps \ Rendered
    BY Zenon DEF Steps, Rendered
  <2> QED
    BY <1>4, <1>6, <1>13, <2>1, Zenon DEF Detaches
<1>14. CASE Attaches
  <2>1. job.at \in Rendered
    BY <1>14, Zenon DEF Attaches, AtStep, Rendered
  <2> QED
    BY <1>6, <1>14, <2>1, Zenon DEF Attaches, Approval
<1>15. CASE Finalizes
  <2>1. Rec
    BY <1>0, <1>15, FinalizesEffects, Zenon DEF Approval
  <2>2. job' = Idle
    BY <1>15, Zenon DEF Finalizes
  <2> QED
    BY <1>3, <2>1, <2>2, Zenon
<1>16. CASE Accepts
  <2>1. ApprovedVersion(job.version)
    BY <1>16, Zenon DEF Accepts, AtStep, Rendered, Approval
  <2>2. Rec
    BY <1>0, <1>1, <1>16, <2>1, AcceptsEffects, Zenon DEF Approval, StatusOnly
  <2>3. job' = Idle
    BY <1>0, <1>16, AcceptsEffects, Zenon
  <2> QED
    BY <1>3, <2>2, <2>3, Zenon
<1> QED
  BY <1>0, <1>7, <1>8, <1>9, <1>10, <1>11, <1>12, <1>13, <1>14, <1>15, <1>16 DEF Kinds


\* Every step keeps it.
LEMMA ApprovalStep ==
  ASSUME TypeInv, Approval, [Next]_vars
  PROVE  Approval'
<1>1. CASE World
  <2>1. job' = job
    BY <1>1, WorldTypes, Zenon
  <2>3. ASSUME NEW e \in Engines, UserWrites(e)
        PROVE  Approval'
    <3>1. rs' = rs /\ approved' = approved
      BY <2>3, Zenon DEF UserWrites
    <3>2. \A f \in Engines : eng'[f].rec \in {None, eng[f].rec}
      BY <2>3, UserRecords, Zenon
    <3> QED
      BY <2>1, <3>1, <3>2, Zenon DEF Approval, ApprovedVersion
  <2>4. CASE RuleSetWrites
    BY <2>1, <2>4, Zenon DEF RuleSetWrites, Approval, ApprovedVersion
  <2>5. CASE OtherWrites
    BY <2>1, <2>5, Zenon DEF OtherWrites, Approval, ApprovedVersion
  <2> QED
    BY <1>1, <2>3, <2>4, <2>5, WorldEffects, Zenon
<1>2. CASE Step \/ CallFails \/ ProvisioningFails
  BY <1>2, ApprovalReconcile, Zenon DEF Reconciles
<1>3. ASSUME UNCHANGED <<eng, rs, approved>>, job' = job \/ job'.at \notin Rendered
      PROVE  Approval'
  BY <1>3, Zenon DEF Approval, ApprovedVersion
<1>4. CASE Caches
  BY <1>3, <1>4, Zenon DEF Caches, SyncEngine, SyncEnvoyFilter, SyncNetworkPolicy, api, world
<1>5. Idle.at \notin Rendered /\ \A at \in Firsts : at \notin Rendered
  BY IdleJob, Zenon DEF Firsts, Rendered
<1>6. CASE Restart
  BY <1>3, <1>5, <1>6, Zenon DEF Restart, api, world
<1>7. ASSUME NEW e \in Engines, GarbageCollect(e)
      PROVE  Approval'
  BY <1>3, <1>7, Zenon DEF GarbageCollect, world
<1>8. ASSUME NEW e \in Engines, Begin(e)
      PROVE  Approval'
  <2>1. UNCHANGED <<eng, rs, approved>> /\ (job' = Idle \/ job'.at \in Firsts)
    BY <1>8, BeginEffects, Zenon DEF world
  <2> QED
    BY <1>3, <1>5, <2>1, Zenon
<1>9. CASE UNCHANGED vars
  BY <1>3, <1>9, Zenon DEF vars
<1> QED
  BY <1>1, <1>2, <1>4, <1>6, <1>7, <1>8, <1>9, Zenon DEF Next

\* What is recorded as accepted is a content the RuleSet controller accepted for that RuleSet:
\* acceptedRuleSetContent renders nothing else, whatever changes before the record is written.
THEOREM RecordIsApproved == Spec => []RecordApproved
<1>1. Init => TypeInv /\ Approval
  BY TypeInit, ApprovalInit, Zenon
<1>2. TypeInv /\ Approval /\ [Next]_vars => (TypeInv /\ Approval)'
  BY TypeStep, ApprovalStep, Zenon
<1>3. Approval => RecordApproved
  BY Zenon DEF Approval, ApprovedVersion, RecordApproved
<1> QED
  BY <1>1, <1>2, <1>3, PTL DEF Spec

----------------------------------------------------------------------------
(* A weaker bootstrap policy follows a recorded one.                       *)

\* A provisioned Engine starts with its version recorded.
LEMMA HistoryInit ==
  ASSUME Init
  PROVE  History
<1>1. /\ seen = eng /\ seenEf = ef /\ job = Idle
      /\ recorded = [e \in Engines |-> IF eng[e].rec = None THEN {} ELSE {eng[e].rec.version}]
      /\ ef = [e \in Engines |-> IF eng[e].rec = None THEN None ELSE eng[e].policy]
  BY Zenon DEF Init
<1>2. \A e \in Engines : Shown(eng[e], recorded[e])
  BY <1>1, Zenon DEF Shown
<1>3. None # "allow"
  BY ConstantFacts, Zenon
<1>4. \A e \in Engines : ef[e] = "allow" => FailOpen(e)
  <2>1. SUFFICES ASSUME NEW e \in Engines, ef[e] = "allow"
                 PROVE  FailOpen(e)
    OBVIOUS
  <2>2. eng[e].rec # None /\ eng[e].policy = "allow"
    BY <1>1, <1>3, <2>1, Zenon
  <2>3. eng[e].rec.version = Version(1, src.content, "allow")
    BY <2>2, Starting, Zenon
  <2>4. eng[e].rec.version \in recorded[e] /\ eng[e].rec.version[3] = "allow"
    BY <1>1, <2>2, <2>3 DEF Version
  <2> QED
    BY <2>4, Zenon DEF FailOpen
<1>5. AtStep("idle")
  BY <1>1, IdleJob, Zenon DEF AtStep
<1> QED
  BY <1>1, <1>2, <1>4, <1>5, Zenon DEF History

\* applyEnvoyFilter weakens the policy for a recorded version only.
LEMMA HistoryReconcile ==
  ASSUME TypeInv, History, Reconciles
  PROVE  History'
<1>0. ~AtStep("idle") /\ Local /\ Kinds
  BY ReconcileKinds, Zenon
<1>1. /\ seen' = seen /\ seenEf' = seenEf /\ job.e \in Engines
      /\ ef \in [Engines -> Policies \cup {None}]
  BY <1>0, Running, Zenon DEF Local, TypeInv, EngineTypeOK
<1>2. Idle.at = "idle"
  BY IdleJob, Zenon
<1> DEFINE Grows == \A e \in Engines : recorded[e] \subseteq recorded'[e]
           Objs == \A e \in Engines : Shown(eng'[e], recorded'[e])
           Filters == \A e \in Engines : ef'[e] = "allow" => FailOpen(e)'
           Job == \/ job' = Idle
                  \/ job'.e = job.e /\ (job'.obj = job.obj \/ job'.obj = eng'[job.e])
<1>3. ASSUME Grows, Objs, Filters, Job
      PROVE  History'
  <2>1. \A e \in Engines : /\ FailOpen(e) => FailOpen(e)'
                           /\ \A obj : Shown(obj, recorded[e]) => Shown(obj, recorded'[e])
    BY <1>3, Zenon DEF FailOpen, Shown
  <2>2. ~(job'.at = "idle") => Shown(job'.obj, recorded'[job'.e])
    BY <1>0, <1>1, <1>2, <1>3, <2>1, Zenon DEF History
  <2>3. \A e \in Engines : Shown(seen[e], recorded'[e]) /\ (seenEf[e] = "allow" => FailOpen(e)')
    BY <2>1, Zenon DEF History
  <2> QED
    BY <1>1, <1>3, <2>2, <2>3, Zenon DEF History, AtStep
<1>4. recorded' = recorded => /\ Grows
                              /\ UNCHANGED eng => Objs
                              /\ UNCHANGED ef => Filters
  BY Zenon DEF History, Shown, FailOpen
<1>5. CASE Patches
  <2>1. recorded' = recorded /\ UNCHANGED ef /\ Job
    BY <1>0, <1>5, PatchesEffects, Zenon DEF GoesOn
  <2>2. \A e \in Engines : eng'[e].rec # None =>
                              eng[e].rec # None /\ eng'[e].rec.version = eng[e].rec.version
    BY <1>0, <1>5, PatchesEffects, Zenon DEF StatusOnly
  <2>3. Objs
    BY <2>1, <2>2, Zenon DEF History, Shown
  <2> QED
    BY <1>3, <1>4, <2>1, <2>3, Zenon
<1>6. CASE Goes \/ Quits \/ Renders
  <2>1. UNCHANGED <<eng, ef, recorded>> /\ Job
    BY <1>6, Zenon DEF Goes, Quits, Renders, GoesOn
  <2> QED
    BY <1>3, <1>4, <2>1, Zenon
<1>7. CASE Restricts \/ Cleans
  <2>1. UNCHANGED <<eng, ef, recorded>> /\ Job
    BY <1>7, Zenon DEF Restricts, Cleans, GoesOn
  <2> QED
    BY <1>3, <1>4, <2>1, Zenon
<1>8. CASE Detaches
  <2>1. UNCHANGED <<eng, recorded>> /\ Job
    BY <1>8, Zenon DEF Detaches, GoesOn
  <2>2. None # "allow"
    BY ConstantFacts, Zenon
  <2>3. \A e \in Engines : ef'[e] = "allow" => ef[e] = "allow"
    BY <1>1, <1>8, <2>2, Zenon DEF Detaches
  <2>4. Filters
    BY <2>1, <2>3, Zenon DEF History, FailOpen
  <2> QED
    BY <1>3, <1>4, <2>1, <2>4, Zenon
<1>9. CASE Attaches
  <2>1. UNCHANGED <<eng, recorded>> /\ Job
    BY <1>9, Zenon DEF Attaches
  <2>2. PICK p \in Policies :
          /\ ef' = [ef EXCEPT ![job.e] = p]
          /\ p = "allow" => \/ seenEf[job.e] = "allow"
                            \/ /\ job.obj.rec # None /\ job.obj.rec.version[3] = "allow"
    BY <1>9, Zenon DEF Attaches
  <2>3. p = "allow" => FailOpen(job.e)
    BY <1>0, <1>1, <2>2, Zenon DEF History, Shown, FailOpen
  <2>4. Filters
    BY <1>1, <2>1, <2>2, <2>3, Zenon DEF History, FailOpen
  <2> QED
    BY <1>3, <1>4, <2>1, <2>4, Zenon
<1>10. CASE Finalizes
  <2>1. recorded' = recorded /\ UNCHANGED ef /\ job' = Idle
    BY <1>10, Zenon DEF Finalizes
  <2>2. \A e \in Engines : eng'[e].rec \in {None, eng[e].rec}
    BY <1>0, <1>10, FinalizesEffects, Zenon
  <2>3. Objs
    BY <2>1, <2>2, Zenon DEF History, Shown
  <2> QED
    BY <1>3, <1>4, <2>1, <2>3, Zenon
<1>11. CASE Accepts
  <2>1. Grows /\ UNCHANGED ef /\ job' = Idle
    BY <1>0, <1>11, AcceptsEffects, Zenon
  <2>2. Filters
    BY <2>1, Zenon DEF History, FailOpen
  <2>3. \A e \in Engines : eng'[e].rec # None =>
           \/ eng[e].rec # None /\ eng'[e].rec.version = eng[e].rec.version
           \/ eng'[e].rec.version \in recorded'[e]
    BY <1>0, <1>11, AcceptsEffects, Zenon DEF StatusOnly
  <2>4. Objs
    BY <2>1, <2>3 DEF History, Shown
  <2> QED
    BY <1>3, <2>1, <2>2, <2>4, Zenon
<1> QED
  BY <1>0, <1>5, <1>6, <1>7, <1>8, <1>9, <1>10, <1>11, Zenon DEF Kinds


\* Every step keeps it.
LEMMA HistoryStep ==
  ASSUME TypeInv, History, [Next]_vars
  PROVE  History'
<1>0. /\ eng \in [Engines -> Objects] /\ seen \in [Engines -> Objects]
      /\ ef \in [Engines -> Policies \cup {None}] /\ seenEf \in [Engines -> Policies \cup {None}]
  BY Zenon DEF TypeInv, EngineTypeOK
<1>1. CASE World
  <2>1. UNCHANGED <<ef, seen, seenEf, job, recorded>>
    BY <1>1, WorldTypes, Zenon
  <2>2. \A f \in Engines : eng'[f].rec \in {None, eng[f].rec}
    <3>1. ASSUME NEW e \in Engines, UserWrites(e)
          PROVE  \A f \in Engines : eng'[f].rec \in {None, eng[f].rec}
      BY <3>1, UserRecords, Zenon
    <3>2. CASE RuleSetWrites \/ OtherWrites
      BY <3>2, Zenon DEF RuleSetWrites, OtherWrites
    <3> QED
      BY <1>1, <3>1, <3>2, WorldEffects, Zenon
  <2> QED
    BY <2>1, <2>2, Zenon DEF History, Shown, FailOpen, AtStep
<1>2. CASE Step \/ CallFails \/ ProvisioningFails
  BY <1>2, HistoryReconcile, Zenon DEF Reconciles
<1>3. ASSUME UNCHANGED <<eng, recorded>>,
             \A e \in Engines : /\ seen'[e] \in {seen[e], eng[e]}
                                /\ ef'[e] \in {ef[e], None} /\ seenEf'[e] \in {seenEf[e], ef[e]},
             \/ job' = job \/ job' = Idle
             \/ job'.e \in Engines /\ job'.obj = seen[job'.e]
      PROVE  History'
  <2>1. None # "allow" /\ Idle.at = "idle"
    BY ConstantFacts, IdleJob, Zenon
  <2>2. \A e \in Engines : /\ Shown(eng'[e], recorded'[e]) /\ Shown(seen'[e], recorded'[e])
                           /\ ef'[e] = "allow" => FailOpen(e)'
                           /\ seenEf'[e] = "allow" => FailOpen(e)'
    BY <1>3, <2>1, Zenon DEF History, FailOpen
  <2>3. ~(job'.at = "idle") => Shown(job'.obj, recorded'[job'.e])
    BY <1>3, <2>1, Zenon DEF History, AtStep
  <2> QED
    BY <2>2, <2>3, Zenon DEF History, AtStep
<1>4. CASE Caches
  <2>1. ASSUME NEW e \in Engines, SyncEngine(e)
        PROVE  History'
    BY <1>0, <1>3, <2>1, Zenon DEF SyncEngine, api
  <2>2. ASSUME NEW e \in Engines, SyncEnvoyFilter(e)
        PROVE  History'
    BY <1>0, <1>3, <2>2, Zenon DEF SyncEnvoyFilter, api
  <2>3. ASSUME NEW e \in Engines, SyncNetworkPolicy(e)
        PROVE  History'
    BY <1>0, <1>3, <2>3, Zenon DEF SyncNetworkPolicy, api
  <2> QED
    BY <1>4, <2>1, <2>2, <2>3, Zenon DEF Caches
<1>5. CASE Restart
  BY <1>3, <1>5, Zenon DEF Restart, api
<1>6. ASSUME NEW e \in Engines, GarbageCollect(e)
      PROVE  History'
  BY <1>0, <1>3, <1>6, Zenon DEF GarbageCollect, caches
<1>7. ASSUME NEW e \in Engines, Begin(e)
      PROVE  History'
  BY <1>3, <1>7, BeginEffects, Zenon DEF caches
<1>8. CASE UNCHANGED vars
  BY <1>3, <1>8 DEF vars
<1> QED
  BY <1>1, <1>2, <1>4, <1>5, <1>6, <1>7, <1>8, Zenon DEF Next

\* A Gateway is told to pass traffic without its WAF only for an Engine that has had a
\* fail-open version recorded as accepted, through lagging caches, lost patches and restarts.
THEOREM WeakenedIsAccepted == Spec => []WeakenedAfterAcceptance
<1>1. Init => TypeInv /\ History
  BY TypeInit, HistoryInit, Zenon
<1>2. TypeInv /\ History /\ [Next]_vars => (TypeInv /\ History)'
  BY TypeStep, HistoryStep, Zenon
<1>3. History => WeakenedAfterAcceptance
  BY Zenon DEF History, FailOpen, WeakenedAfterAcceptance
<1> QED
  BY <1>1, <1>2, <1>3, PTL DEF Spec


----------------------------------------------------------------------------
(* A reconcile restores the restrictions of what is attached.              *)

\* As a behaviour starts, what is attached is restricted.
LEMMA RestoringInit ==
  ASSUME Init
  PROVE  Restoring
<1>1. /\ seen = eng /\ job = Idle /\ eng \in [Engines -> Objects]
      /\ \A e \in Engines : ~eng[e].deleting
      /\ ef = [e \in Engines |-> IF eng[e].rec = None THEN None ELSE eng[e].policy]
      /\ np = [e \in Engines |-> IF eng[e].rec = None THEN {} ELSE {NewName({})}]
  BY Starting, Zenon DEF Init
<1>2. \A e \in Engines : eng[e].born \in Nat /\ eng[e].gen \in Nat
  BY <1>1, Zenon DEF Objects
<1>3. \A e \in Engines : Lag(seen[e], eng[e])
  BY <1>1, <1>2 DEF Lag
<1>4. job.at \notin Restricted \cup {"rejecting", "reject", "cleanup", "release"}
  BY <1>1, IdleJob, Zenon DEF Restricted
<1>5. \A e \in Engines : ~Bare(e)
  BY <1>1, Zenon DEF Bare
<1> QED
  BY <1>3, <1>4, <1>5, Zenon DEF Restoring, Superseded

\* The cache stays behind as an Engine is written.
LEMMA LagGrows ==
  ASSUME NEW old \in Objects, NEW now \in Objects, NEW new \in Objects, Lag(old, now),
         \/ ~now.live /\ now.born = 0 /\ new.born > 0 /\ ~new.deleting
         \/ new = Gone(now)
         \/ now.live /\ new.born = now.born /\ new.gen = now.gen + 1 /\ (new.deleting => new.fin)
         \/ /\ new.live = now.live /\ new.born = now.born /\ new.gen = now.gen
            /\ new.deleting = now.deleting /\ (~now.deleting \/ (now.fin => new.fin))
  PROVE  Lag(old, new)
<1>1. /\ old.born \in Nat /\ now.born \in Nat /\ new.born \in Nat
      /\ old.gen \in Nat /\ now.gen \in Nat /\ new.gen \in Nat
  BY Zenon DEF Objects
<1>2. CASE ~now.live /\ now.born = 0 /\ new.born > 0 /\ ~new.deleting
  BY <1>1, <1>2 DEF Lag
<1>3. CASE new = Gone(now)
  BY <1>1, <1>3, ObjectTypes, Zenon DEF Lag
<1>4. CASE now.live /\ new.born = now.born /\ new.gen = now.gen + 1 /\ (new.deleting => new.fin)
  BY <1>1, <1>4 DEF Lag
<1>5. CASE /\ new.live = now.live /\ new.born = now.born /\ new.gen = now.gen
           /\ new.deleting = now.deleting /\ (~now.deleting \/ (now.fin => new.fin))
  BY <1>1, <1>5, Zenon DEF Lag
<1> QED
  BY <1>2, <1>3, <1>4, <1>5, Zenon

\* The obligation for one Engine, and a step that leaves it as it is.
Safe(e) == Bare(e) /\ Serving => Due(e) \/ Working(e)

\* An Engine stays served or due for a reconcile under a step that takes nothing of that
\* away from it.
LEMMA SafeKept ==
  ASSUME NEW e \in Engines, Safe(e), UNCHANGED <<seen, seenEf, seenNp>>,
         Serving' => Serving, ef'[e] = ef[e], np'[e] = np[e], eng'[e].live = eng[e].live,
         eng'[e].gen = eng[e].gen, eng'[e].born = eng[e].born,
         queue \subseteq queue', Working(e) => Working(e)' \/ e \in queue'
  PROVE  Safe(e)'
<1>1. (Bare(e) /\ Serving)' => Bare(e) /\ Serving
  BY Zenon DEF Bare
<1>2. Due(e) => Due(e)'
  BY Zenon DEF Due, Passes
<1>3. e \in queue' => Due(e)'
  BY Zenon DEF Due
<1> QED
  BY <1>1, <1>2, <1>3, Zenon DEF Safe

\* The world: what becomes bare, or is served again, is due.
LEMMA RestoringWorld ==
  ASSUME TypeInv, Restoring, World
  PROVE  Restoring'
<1>0. /\ UNCHANGED <<ef, np, seen, seenEf, seenNp, job>> /\ queue \subseteq queue'
      /\ eng \in [Engines -> Objects] /\ eng' \in [Engines -> Objects]
      /\ seen \in [Engines -> Objects]
  BY WorldTypes, Zenon DEF TypeInv, EngineTypeOK
<1>1. /\ (job.at \in Restricted => np[job.e] # {})'
      /\ (job.at \in {"rejecting", "reject"} =>
            ef[job.e] = None \/ job.e \in queue \/ seenEf[job.e] # ef[job.e])'
  BY <1>0, Zenon DEF Restoring
<1> DEFINE Renewed(e) == job.e = e => Superseded'
<1>11. job.at \in {"cleanup", "release"} => job.e \in Engines
  BY Zenon DEF TypeInv, EngineTypeOK, AtStep
<1> SUFFICES ASSUME NEW e \in Engines
             PROVE  Lag(seen[e], eng[e])' /\ Safe(e)' /\ Renewed(e)
  <2>1. Superseded'
    BY <1>0, <1>11, Zenon DEF Superseded
  <2> QED
    BY <1>1, <2>1, Zenon DEF Restoring, Safe
<1>2. /\ seen[e] \in Objects /\ eng[e] \in Objects /\ eng'[e] \in Objects
      /\ Lag(seen[e], eng[e]) /\ Safe(e) /\ seen'[e] = seen[e]
  BY <1>0, Zenon DEF Restoring, Safe
<1>3. Working(e) => Working(e)'
  BY <1>0, Zenon DEF Working
<1>4. CASE eng'[e] = eng[e] /\ (Serving' => Serving)
  <2>1. Safe(e)'
    BY <1>0, <1>2, <1>3, <1>4, SafeKept, Zenon
  <2>2. Renewed(e)
    BY <1>0, <1>4, Zenon DEF Restoring, Superseded, Passes
  <2> QED
    BY <1>2, <1>4, <2>1, <2>2, Zenon DEF Lag
<1>5. CASE UserWrites(e)
  <2>1. Lag(seen[e], eng'[e])
    BY <1>2, <1>5, LagGrows, Zenon DEF UserWrites
  <2>2. eng'[e].live => Passes(seen[e], eng'[e])
    <3>1. /\ seen[e].born \in Nat /\ eng[e].born \in Nat /\ eng'[e].born \in Nat
          /\ seen[e].gen \in Nat /\ eng[e].gen \in Nat /\ eng'[e].gen \in Nat
          /\ seen[e].live \in BOOLEAN /\ eng[e].live \in BOOLEAN /\ eng'[e].live \in BOOLEAN
          /\ ~Gone(eng[e]).live
      BY <1>2, ObjectTypes, Zenon DEF Objects
    <3>3. CASE ~eng[e].live /\ eng[e].born = 0 /\ eng'[e].born > 0
      <4>1. seen[e].born <= eng[e].born
        BY <1>2, Zenon DEF Lag
      <4>2. seen[e].born # eng'[e].born
        BY <3>1, <3>3, <4>1
      <4> QED
        BY <4>2, Zenon DEF Passes
    <3>4. CASE eng'[e] = Gone(eng[e])
      BY <3>1, <3>4, Zenon
    <3>5. CASE /\ eng[e].live /\ eng'[e].live
               /\ eng'[e].born = eng[e].born /\ eng'[e].gen = eng[e].gen + 1
      <4>1. CASE seen[e].live /\ seen[e].born = eng[e].born
        <5>1. seen[e].gen <= eng[e].gen
          BY <1>2, <3>5, <4>1, Zenon DEF Lag
        <5>2. seen[e].gen # eng'[e].gen
          BY <3>1, <3>5, <5>1
        <5> QED
          BY <5>2, Zenon DEF Passes
      <4>2. CASE ~(seen[e].live /\ seen[e].born = eng[e].born)
        BY <3>1, <3>5, <4>2, Zenon DEF Passes
      <4> QED
        BY <4>1, <4>2, Zenon
    <3> QED
      BY <1>5, <3>3, <3>4, <3>5, Zenon DEF UserWrites
  <2>3. Renewed(e)
    BY <1>0, <2>2, Zenon DEF Superseded, Passes
  <2> QED
    BY <1>2, <2>1, <2>2, <2>3, Zenon DEF Safe, Bare, Due, Lag, Passes
<1>6. CASE RuleSetWrites
  <2>1. eng' = eng /\ queue' = queue \cup Cached
    BY <1>6, Zenon DEF RuleSetWrites
  <2>2. Bare(e)' => Due(e)'
    BY <1>0, <2>1, Zenon DEF Bare, Due, Cached, Passes
  <2>3. Renewed(e)
    BY <1>0, <2>1, Zenon DEF Restoring, Superseded, Passes
  <2> QED
    BY <1>2, <2>1, <2>2, <2>3, Zenon DEF Safe, Lag
<1>7. ASSUME NEW f \in Engines, UserWrites(f)
      PROVE  f = e \/ (eng'[e] = eng[e] /\ (Serving' => Serving))
  BY <1>7, Zenon DEF UserWrites, Serving
<1>8. OtherWrites => eng'[e] = eng[e] /\ (Serving' => Serving)
  BY Zenon DEF OtherWrites, Serving
<1> QED
  BY <1>4, <1>5, <1>6, <1>7, <1>8, WorldEffects, Zenon


\* A reconcile that does not restore them leaves the Engine due.
LEMMA RestoringReconcile ==
  ASSUME TypeInv, Restoring, Reconciles
  PROVE  Restoring'
<1>0. ~AtStep("idle") /\ Local /\ Kinds
  BY ReconcileKinds, Zenon
<1>1. /\ UNCHANGED <<seen, seenEf, seenNp, rs>> /\ queue \subseteq queue' /\ job.e \in Engines
      /\ eng \in [Engines -> Objects] /\ seen \in [Engines -> Objects]
      /\ ef \in [Engines -> Policies \cup {None}] /\ np \in [Engines -> SUBSET Names]
      /\ Serving' = Serving
  BY <1>0, Running, Zenon DEF Local, TypeInv, EngineTypeOK, Serving
<1>2. eng' \in [Engines -> Objects]
  BY ReconcileTypes, Zenon DEF TypeInv, EngineTypeOK
<1> DEFINE Others == \A f \in Engines \ {job.e} :
                        eng'[f] = eng[f] /\ ef'[f] = ef[f] /\ np'[f] = np[f]
           Own(e) == e = job.e => Safe(e)'
           Steady == /\ eng'[job.e].live = eng[job.e].live /\ eng'[job.e].gen = eng[job.e].gen
                     /\ eng'[job.e].born = eng[job.e].born
           Lags == Lag(seen[job.e], eng'[job.e])
           Kept == /\ job'.at \in Restricted => np'[job'.e] # {}
                   /\ job'.at \in {"rejecting", "reject"} =>
                        \/ ef'[job'.e] = None \/ job'.e \in queue'
                        \/ seenEf'[job'.e] # ef'[job'.e]
                   /\ Superseded'
<1>3. ASSUME Others, Lags, Kept, \A e \in Engines : Own(e)
      PROVE  Restoring'
  <2>1. \A e \in Engines : Lag(seen[e], eng[e])'
    BY <1>1, <1>3, Zenon DEF Restoring, Lag
  <2>2. ASSUME NEW e \in Engines, e # job.e
        PROVE  Safe(e)'
    <3>1. Safe(e) /\ ~Working(e) /\ eng'[e] = eng[e] /\ ef'[e] = ef[e] /\ np'[e] = np[e]
      BY <1>3, <2>2, Zenon DEF Restoring, Safe, Working
    <3> QED
      BY <1>1, <3>1, SafeKept, Zenon
  <2>3. \A e \in Engines : Safe(e)'
    BY <1>3, <2>2, Zenon
  <2> QED
    BY <1>3, <2>1, <2>3, Zenon DEF Restoring, Safe
<1>4. Idle.at \notin Restricted \cup {"rejecting", "reject", "cleanup", "release"}
  BY IdleJob, Zenon DEF Restricted
<1>5. job' = Idle => Kept
  BY <1>4, Zenon DEF Superseded
<1>6. /\ job.at \in Restricted => np[job.e] # {}
      /\ job.at \in {"rejecting", "reject"} =>
            ef[job.e] = None \/ job.e \in queue \/ seenEf[job.e] # ef[job.e]
      /\ Lag(seen[job.e], eng[job.e]) /\ Superseded /\ \A e \in Engines : Safe(e)
  BY <1>1, Zenon DEF Restoring, Safe
<1>7. job.e \in queue' => \A e \in Engines : Own(e)
  BY Zenon DEF Safe, Due
<1>8. (~eng'[job.e].live \/ ef'[job.e] = None \/ np'[job.e] # {}) => \A e \in Engines : Own(e)
  BY Zenon DEF Safe, Bare
<1>9. ASSUME Steady, ef'[job.e] = ef[job.e], np'[job.e] = np[job.e],
             \/ job.at \notin WorkingSteps
             \/ job'.e = job.e /\ job'.at \in WorkingSteps
      PROVE  \A e \in Engines : Own(e)
  <2>1. SUFFICES ASSUME NEW e \in Engines, e = job.e
                 PROVE  Safe(e)'
    OBVIOUS
  <2>2. Working(e) => Working(e)'
    BY <1>9, <2>1, Zenon DEF Working
  <2>3. /\ Safe(e) /\ ef'[e] = ef[e] /\ np'[e] = np[e] /\ eng'[e].live = eng[e].live
        /\ eng'[e].gen = eng[e].gen /\ eng'[e].born = eng[e].born
    BY <1>6, <1>9, <2>1, Zenon
  <2> QED
    BY <1>1, <2>2, <2>3, SafeKept, Zenon
<1>10. UNCHANGED eng => Steady /\ Lags
  BY <1>6, Zenon DEF Lag
<1>11. StatusOnly => Steady /\ Lags
  BY <1>1, <1>6, Zenon DEF StatusOnly, Same, Lag
<1>12. \A step \in Steps : <<job.at, step>> \in Moves =>
          /\ job.at \notin WorkingSteps \/ step \in WorkingSteps
          /\ step \notin {"rejecting", "reject", "cleanup", "release"}
          /\ step \in Restricted => job.at \in Restricted
  BY Zenon DEF Moves, WorkingSteps, Restricted
<1> HIDE DEF Own, Lags, Steady
<1>13. CASE Patches
  <2>1. StatusOnly /\ UNCHANGED <<ef, np>>
    BY <1>0, <1>13, PatchesEffects, Zenon
  <2>2. Others /\ Lags /\ Steady
    BY <1>11, <2>1, Zenon DEF StatusOnly
  <2>3. CASE job' = Idle /\ job.e \in queue'
    BY <1>3, <1>5, <1>7, <2>2, <2>3, Zenon
  <2>4. CASE job' = Idle /\ job.at = "reject"
    <3>1. \A e \in Engines : Own(e)
      BY <1>9, <2>1, <2>2, <2>4, Zenon DEF WorkingSteps
    <3> QED
      BY <1>3, <1>5, <2>2, <2>4, <3>1, Zenon
  <2>5. CASE job' = Idle /\ ~Serving
    <3>1. \A e \in Engines : Own(e)
      BY <1>1, <2>5, Zenon DEF Own, Safe
    <3> QED
      BY <1>3, <1>5, <2>2, <2>5, <3>1, Zenon
  <2>6. CASE \E step \in Steps : <<job.at, step>> \in Moves /\ GoesOn(step)
    <3>1. \A e \in Engines : Own(e)
      BY <1>9, <1>12, <2>1, <2>2, <2>6, Zenon DEF GoesOn
    <3>2. Kept
      BY <1>6, <1>12, <2>1, <2>6, Zenon DEF GoesOn, Superseded
    <3> QED
      BY <1>3, <2>2, <3>1, <3>2, Zenon
  <2> QED
    BY <1>0, <1>13, <2>3, <2>4, <2>5, <2>6, PatchesEffects, Zenon
<1>14. CASE Goes
  <2>1. Others /\ Lags /\ Steady /\ UNCHANGED <<ef, np>>
    BY <1>10, <1>14, Zenon DEF Goes
  <2>2. \A e \in Engines : Own(e)
    BY <1>9, <1>12, <1>14, <2>1, Zenon DEF Goes, GoesOn
  <2>3. Kept
    BY <1>6, <1>12, <1>14, <2>1, Zenon DEF Goes, GoesOn, Superseded
  <2> QED
    BY <1>3, <2>1, <2>2, <2>3, Zenon
<1>15. CASE Quits
  <2>1. Others /\ Lags
    BY <1>10, <1>15, Zenon DEF Quits
  <2> QED
    BY <1>3, <1>5, <1>7, <1>15, <2>1, Zenon DEF Quits
<1>16. CASE Renders
  <2>1. Others /\ Lags /\ Steady /\ UNCHANGED <<ef, np>>
    BY <1>10, <1>16, Zenon DEF Renders
  <2>2. job'.e = job.e /\ job'.at = "policy"
    BY <1>16, Zenon DEF Renders
  <2>3. \A e \in Engines : Own(e)
    BY <1>9, <2>1, <2>2, Zenon DEF WorkingSteps
  <2>4. Kept
    BY <2>2, Zenon DEF Restricted, Superseded
  <2> QED
    BY <1>3, <2>1, <2>3, <2>4, Zenon
<1>17. CASE Restricts
  <2>1. Others /\ Lags /\ np'[job.e] # {} /\ job'.e = job.e /\ job'.at = "telemetry"
    BY <1>10, <1>17, Zenon DEF Restricts, GoesOn
  <2>2. Kept
    BY <2>1, Zenon DEF Superseded
  <2> QED
    BY <1>3, <1>8, <2>1, <2>2, Zenon
<1>18. CASE Cleans
  <2>1. /\ np' = [np EXCEPT ![job.e] = @ \ seenNp[job.e]] /\ UNCHANGED <<eng, ef>>
        /\ \/ AtStep("orphan") /\ job' = Idle
           \/ AtStep("cleanup") /\ job'.e = job.e /\ job'.at = "release"
           \/ AtStep("rejecting") /\ job'.e = job.e /\ job'.at = "reject"
    BY <1>18, Zenon DEF Cleans, cleanupNetworkPolicy, GoesOn
  <2>2. Others /\ Lags /\ Steady /\ np'[job.e] = np[job.e] \ seenNp[job.e]
    BY <1>1, <1>10, <2>1, Zenon
  <2>7. Superseded'
    BY <1>1, <1>4, <1>6, <2>1, Zenon DEF AtStep, Superseded, Passes
  <2>3. Kept
    BY <1>1, <1>5, <1>6, <2>1, <2>7, Zenon DEF AtStep, Restricted
  <2>4. CASE np[job.e] = {}
    <3>1. np'[job.e] = np[job.e]
      BY <2>2, <2>4, Zenon
    <3>2. job.at \notin WorkingSteps \/ (job'.e = job.e /\ job'.at \in WorkingSteps)
      BY <2>1, Zenon DEF AtStep, WorkingSteps
    <3>3. \A e \in Engines : Own(e)
      BY <1>9, <2>1, <2>2, <3>1, <3>2
    <3> QED
      BY <1>3, <2>2, <2>3, <3>3, Zenon
  <2>5. CASE np[job.e] # {} /\ np'[job.e] = {}
    <3>1. seenNp'[job.e] # np'[job.e]
      BY <1>1, <2>2, <2>5, Zenon
    <3>2. \A e \in Engines : Own(e)
      BY <3>1, Zenon DEF Own, Safe, Due
    <3> QED
      BY <1>3, <2>2, <2>3, <3>2, Zenon
  <2>6. CASE np'[job.e] # {}
    BY <1>3, <1>8, <2>2, <2>3, <2>6, Zenon
  <2> QED
    BY <2>4, <2>5, <2>6, Zenon
<1>19. CASE Detaches
  <2>1. /\ UNCHANGED <<eng, np>> /\ job'.e = job.e /\ job'.at = "rejecting"
        /\ ef' = [ef EXCEPT ![job.e] = IF seenEf[job.e] = None THEN @ ELSE None]
    BY <1>19, Zenon DEF Detaches, GoesOn
  <2>2. Others /\ Lags
    BY <1>1, <1>10, <2>1, Zenon
  <2>3. ef'[job.e] = None \/ seenEf'[job.e] # ef'[job.e]
    BY <1>1, <2>1, Zenon
  <2>4. Kept
    BY <2>1, <2>3, Zenon DEF Restricted, Superseded
  <2>5. seenEf'[job.e] # ef'[job.e] => \A e \in Engines : Own(e)
    BY Zenon DEF Own, Safe, Due
  <2> QED
    BY <1>3, <1>8, <2>2, <2>3, <2>4, <2>5, Zenon
<1>20. CASE Attaches
  <2>1. /\ UNCHANGED <<eng, np>> /\ job'.e = job.e /\ job'.at = "record" /\ job.at = "filter"
        /\ \E p \in Policies : ef' = [ef EXCEPT ![job.e] = p]
    BY <1>20, Zenon DEF Attaches, AtStep
  <2>2. np'[job.e] # {}
    BY <1>6, <2>1, Zenon DEF Restricted
  <2>3. Others /\ Lags
    BY <1>1, <1>10, <2>1, Zenon
  <2>4. Kept
    BY <2>1, <2>2, Zenon DEF Superseded
  <2> QED
    BY <1>3, <1>8, <2>2, <2>3, <2>4, Zenon
<1>21. CASE Finalizes
  <2>1. Others /\ job' = Idle
    BY <1>0, <1>21, FinalizesEffects, Zenon
  <2>2. Lags
    <3>1. seen[job.e] \in Objects /\ eng[job.e] \in Objects /\ eng'[job.e] \in Objects
      BY <1>1, <1>2, Zenon
    <3> QED
      BY <1>0, <1>6, <1>21, <3>1, FinalizesEffects, LagGrows, Zenon DEF Lags
  <2>3. CASE job.e \in queue' \/ ~eng'[job.e].live
    BY <1>3, <1>5, <1>7, <1>8, <2>1, <2>2, <2>3
  <2>4. CASE AtStep("release") /\ eng[job.e].live /\ ~eng[job.e].deleting /\ eng'[job.e].live
    <3>1. eng'[job.e].gen = eng[job.e].gen /\ eng'[job.e].born = eng[job.e].born
      <4>1. ~Gone(eng[job.e]).live
        BY <1>1, ObjectTypes, Zenon
      <4> QED
        BY <1>0, <1>21, <2>4, <4>1, FinalizesEffects, Zenon
    <3>2. job.e \in queue \/ Passes(seen[job.e], eng[job.e])
      BY <1>6, <2>4, Zenon DEF AtStep, Superseded
    <3>3. job.e \in queue' \/ Passes(seen'[job.e], eng'[job.e])
      BY <1>1, <2>4, <3>1, <3>2, Zenon DEF Passes
    <3>4. \A e \in Engines : Own(e)
      BY <3>3, Zenon DEF Own, Safe, Due
    <3> QED
      BY <1>3, <1>5, <2>1, <2>2, <3>4, Zenon
  <2> QED
    BY <1>0, <1>21, <2>3, <2>4, FinalizesEffects, Zenon
<1>22. CASE Accepts
  <2>1. StatusOnly /\ UNCHANGED <<ef, np>> /\ job.at = "record" /\ job' = Idle
    BY <1>0, <1>22, AcceptsEffects, Zenon
  <2>2. Others /\ Lags
    BY <1>11, <2>1, Zenon DEF StatusOnly
  <2>3. np'[job.e] # {}
    BY <1>6, <2>1, Zenon DEF Restricted
  <2> QED
    BY <1>3, <1>5, <1>8, <2>1, <2>2, <2>3, Zenon
<1> QED
  BY <1>0, <1>13, <1>14, <1>15, <1>16, <1>17, <1>18, <1>19, <1>20, <1>21, <1>22 DEF Kinds


\* The watches queue what changed, and a reconcile starts with a live Engine or leaves the
\* cache to catch up.
LEMMA RestoringStep ==
  ASSUME TypeInv, Restoring, [Next]_vars
  PROVE  Restoring'
<1>0. /\ eng \in [Engines -> Objects] /\ seen \in [Engines -> Objects]
      /\ ef \in [Engines -> Policies \cup {None}] /\ seenEf \in [Engines -> Policies \cup {None}]
      /\ np \in [Engines -> SUBSET Names] /\ seenNp \in [Engines -> SUBSET Names]
      /\ ~AtStep("idle") => job.e \in Engines
  BY Zenon DEF TypeInv, EngineTypeOK
<1>1. \A e \in Engines : Lag(eng[e], eng[e]) /\ Safe(e) /\ Lag(seen[e], eng[e])
  <2>1. \A e \in Engines : eng[e].born \in Nat /\ eng[e].gen \in Nat
    BY <1>0, Zenon DEF Objects
  <2> QED
    BY <2>1 DEF Restoring, Safe, Lag
<1>2. CASE World
  BY <1>2, RestoringWorld, Zenon
<1>3. CASE Step \/ CallFails \/ ProvisioningFails
  BY <1>3, RestoringReconcile, Zenon DEF Reconciles
<1> DEFINE Kept == /\ job'.at \in Restricted => np'[job'.e] # {}
                   /\ job'.at \in {"rejecting", "reject"} =>
                        \/ ef'[job'.e] = None \/ job'.e \in queue'
                        \/ seenEf'[job'.e] # ef'[job'.e]
                   /\ Superseded'
<1>4. ASSUME UNCHANGED eng, \A e \in Engines : seen'[e] \in {seen[e], eng[e]},
             Kept, \A e \in Engines : Safe(e)'
      PROVE  Restoring'
  <2>1. \A e \in Engines : Lag(seen[e], eng[e])'
    BY <1>1, <1>4, Zenon DEF Lag
  <2> QED
    BY <1>4, <2>1, Zenon DEF Restoring, Safe
<1>5. ASSUME UNCHANGED <<job, np, eng>>, queue \subseteq queue',
             \A e \in Engines :
                \/ ef'[e] = ef[e] /\ seenEf'[e] = seenEf[e]
                \/ ef'[e] = None \/ e \in queue',
             \A e \in Engines :
                seen'[e] = seen[e] \/ e \in queue' \/ ~Passes(seen[e], eng[e])
      PROVE  Kept
  <2>1. job.at \in {"rejecting", "reject", "cleanup", "release"} => job.e \in Engines
    BY <1>0, Zenon DEF AtStep
  <2>2. Superseded'
    BY <1>5, <2>1, Zenon DEF Restoring, Superseded, Passes
  <2> QED
    BY <1>5, <2>1, <2>2, Zenon DEF Restoring
<1>6. ASSUME UNCHANGED <<eng, rs, job>>, queue \subseteq queue',
             NEW x \in Engines, \A e \in Engines \ {x} :
                seen'[e] = seen[e] /\ seenEf'[e] = seenEf[e] /\ seenNp'[e] = seenNp[e]
                /\ ef'[e] = ef[e] /\ np'[e] = np[e]
      PROVE  \A e \in Engines \ {x} : Safe(e)'
  <2>1. SUFFICES ASSUME NEW e \in Engines \ {x}
                 PROVE  Safe(e)'
    OBVIOUS
  <2>2. (Bare(e) /\ Serving)' => Bare(e) /\ Serving
    BY <1>6, Zenon DEF Bare, Serving
  <2>3. (Due(e) => Due(e)') /\ (Working(e) => Working(e)')
    BY <1>6, Zenon DEF Due, Passes, Working
  <2> QED
    BY <1>1, <2>2, <2>3, Zenon DEF Safe
<1>7. ASSUME NEW x \in Engines, SyncEngine(x)
      PROVE  Restoring'
  <2>1. /\ UNCHANGED <<eng, ef, np, rs, job, seenEf, seenNp>> /\ queue \subseteq queue'
        /\ \A e \in Engines \ {x} : seen'[e] = seen[e]
        /\ seen'[x] = eng[x] /\ (Passes(seen[x], eng[x]) => x \in queue')
    BY <1>0, <1>7, Zenon DEF SyncEngine, api, world
  <2>2. Kept
    BY <1>5, <2>1, Zenon
  <2>3. \A e \in Engines \ {x} : Safe(e)'
    BY <1>6, <2>1, Zenon
  <2>4. Safe(x)'
    <3>1. (Bare(x) /\ Serving)' => Bare(x) /\ Serving
      BY <2>1, Zenon DEF Bare, Serving
    <3>2. (Due(x) => Due(x)') /\ (Working(x) => Working(x)')
      BY <2>1, Zenon DEF Due, Working
    <3> QED
      BY <1>1, <3>1, <3>2, Zenon DEF Safe
  <2> QED
    BY <1>4, <2>1, <2>2, <2>3, <2>4, Zenon
<1>8. ASSUME NEW x \in Engines, SyncEnvoyFilter(x) \/ SyncNetworkPolicy(x)
      PROVE  Restoring'
  <2>1. /\ UNCHANGED <<eng, ef, np, rs, job, seen>> /\ queue \subseteq queue' /\ x \in queue'
        /\ \A e \in Engines \ {x} : seenEf'[e] = seenEf[e] /\ seenNp'[e] = seenNp[e]
    BY <1>0, <1>8, Zenon DEF SyncEnvoyFilter, SyncNetworkPolicy, api, world
  <2>2. Kept
    BY <1>5, <2>1, Zenon
  <2>3. \A e \in Engines \ {x} : Safe(e)'
    BY <1>6, <2>1, Zenon
  <2>4. Safe(x)'
    BY <2>1, Zenon DEF Safe, Due
  <2> QED
    BY <1>4, <2>1, <2>2, <2>3, <2>4, Zenon
<1>9. ASSUME NEW x \in Engines, GarbageCollect(x)
      PROVE  Restoring'
  <2>1. /\ UNCHANGED <<eng, np, rs, job, seen, seenEf, seenNp>> /\ queue \subseteq queue'
        /\ \A e \in Engines \ {x} : ef'[e] = ef[e]
        /\ ef'[x] = None \/ x \in queue'
    BY <1>0, <1>9, Zenon DEF GarbageCollect, caches, world
  <2>2. Kept
    BY <1>5, <2>1, Zenon
  <2>3. \A e \in Engines \ {x} : Safe(e)'
    BY <1>6, <2>1, Zenon
  <2>4. Safe(x)'
    BY <2>1, Zenon DEF Safe, Bare, Due
  <2> QED
    BY <1>4, <2>1, <2>2, <2>3, <2>4, Zenon
<1>10. ASSUME NEW x \in Engines, Begin(x)
       PROVE  Restoring'
  <2>1. /\ UNCHANGED <<eng, ef, np, rs, seen, seenEf, seenNp>> /\ job.at = "idle"
        /\ queue' = queue \ {x}
        /\ \/ job' = Idle /\ seen[x].live /\ seen[x].deleting /\ ~seen[x].fin
           \/ /\ job'.at \in Firsts /\ job'.e = x /\ (job'.at = "orphan" => ~seen[x].live)
              /\ job'.at = "cleanup" => seen[x].live /\ seen[x].deleting
    BY <1>10, BeginEffects, Zenon DEF world, caches, AtStep
  <2>2. job' # Idle
    BY <1>1, <2>1, IdleJob, Zenon DEF Lag, Firsts
  <2>6. Superseded'
    BY <1>1, <2>1, <2>2, Zenon DEF Firsts, Superseded, Lag, Passes
  <2>3. Kept
    BY <2>1, <2>2, <2>6, Zenon DEF Firsts, Restricted
  <2>4. ASSUME NEW e \in Engines \ {x}
        PROVE  Safe(e)'
    <3>1. (Bare(e) /\ Serving)' => Bare(e) /\ Serving
      BY <2>1, Zenon DEF Bare, Serving
    <3>2. Due(e) => Due(e)'
      BY <2>1, Zenon DEF Due
    <3>3. ~Working(e)
      BY <2>1, Zenon DEF Working, WorkingSteps
    <3> QED
      BY <1>1, <3>1, <3>2, <3>3, Zenon DEF Safe
  <2>5. Safe(x)'
    <3>1. CASE job'.at = "orphan"
      <4>1. Bare(x)' => Due(x)'
        BY <2>1, <2>2, <3>1, Zenon DEF Bare, Due, Passes
      <4> QED
        BY <4>1, Zenon DEF Safe
    <3>2. CASE job'.at # "orphan"
      <4>1. Working(x)'
        BY <2>1, <2>2, <3>2, Zenon DEF Working, WorkingSteps, Firsts
      <4> QED
        BY <4>1, Zenon DEF Safe
    <3> QED
      BY <3>1, <3>2, Zenon
  <2> QED
    BY <1>4, <2>1, <2>3, <2>4, <2>5, Zenon
<1>11. CASE Restart
  <2>1. /\ UNCHANGED <<eng, ef, np, rs>> /\ seen' = eng /\ job' = Idle
        /\ queue' = {e \in Engines : eng[e].live \/ ef[e] # None \/ np[e] # {}}
    BY <1>11, Zenon DEF Restart, api, world
  <2>2. Kept
    BY <2>1, IdleJob, Zenon DEF Restricted, Superseded
  <2>3. \A e \in Engines : Safe(e)'
    BY <2>1, Zenon DEF Safe, Bare, Due
  <2> QED
    BY <1>4, <2>1, <2>2, <2>3, Zenon
<1>12. CASE UNCHANGED vars
  BY <1>12, Zenon DEF vars, Restoring, Superseded, Lag, Bare, Serving, Due, Passes, Working
<1> QED
  BY <1>2, <1>3, <1>7, <1>8, <1>9, <1>10, <1>11, <1>12 DEF Next, Caches

\* Once the caches have caught up and nothing is queued, what is attached has its
\* NetworkPolicy, whatever the order in which targets were refused and accepted again, Engines
\* deleted and recreated, calls failed and leaders changed.
THEOREM AttachedIsRestricted == Spec => []AttachedRestricted
<1>1. Init => TypeInv /\ Restoring
  BY TypeInit, RestoringInit, Zenon
<1>2. TypeInv /\ Restoring /\ [Next]_vars => (TypeInv /\ Restoring)'
  BY TypeStep, RestoringStep, Zenon
<1>3. Restoring => AttachedRestricted
  <2>1. SUFFICES ASSUME Restoring, NEW e \in Engines, Quiescent(e), Bare(e), Serving
                 PROVE  FALSE
    BY Zenon DEF AttachedRestricted, Bare, Serving
  <2>2. ~Due(e)
    BY <2>1, Zenon DEF Quiescent, Due, Passes
  <2>3. ~Working(e)
    BY <2>1, Zenon DEF Quiescent, AtStep, Working, WorkingSteps
  <2> QED
    BY <2>1, <2>2, <2>3, Zenon DEF Restoring
<1> QED
  BY <1>1, <1>2, <1>3, PTL DEF Spec

=============================================================================
