------------------------- MODULE RuleSetAcceptance -------------------------
(***************************************************************************)
(* The RuleSet and RuleSource controllers: one RuleSet, the RuleData and    *)
(* RuleSources it names, their edits, and a leader that may be replaced by  *)
(* one of a newer build.                                                    *)
(*                                                                          *)
(* Reads go to what this process' informers hold, `input' and `cache';      *)
(* patches go to the API server, whose RuleSet the informer follows with a  *)
(* delay.  A content is the text of every input and stands for its hash.    *)
(***************************************************************************)
EXTENDS Naturals, Sequences, Functions

CONSTANTS
    Data, Sources,   \* spec.data and spec.sources, in order
    TextsOf,         \* input -> texts it may have
    Fragment,        \* texts that pass ValidateRuleSourceRules
    MaxBuild,        \* builds 1..MaxBuild of the operator
    Verdict,         \* build -> content -> what the aggregate checks say
    None,
    MaxChanges       \* bound: edits, restarts, failed reads and failed writes

Inputs == Range(Data) \cup Range(Sources)
Texts == UNION {TextsOf[i] : i \in Inputs}
Content == {c \in [Inputs -> Texts] : \A i \in Inputs : c[i] \in TextsOf[i]}

\* What stops a content, in the order of the checks: Assemble, the directive guard,
\* Coraza, the unsupported-rule check.
Verdicts == {"ok", "unassembled", "rejected", "invalid", "unsupported"}

\* Reason of the Ready condition, and of the Degraded condition, which Progressing
\* leaves in place.  The message of a Degraded condition says what its reason says.
Refusals == (Verdicts \ {"ok"}) \cup {"duplicate", "missing", "access", "fragment"}
Accepting == {"accepted", "overridden"}
Conditions == [reason : Refusals \cup Accepting \cup {"none", "reconciling", "waiting"},
               gen : Nat, degraded : Refusals \cup {"none"}, degradedGen : Nat]

Input == [uid : Nat, gen : Nat, text : Texts \cup {None}, skip : BOOLEAN,
          status : {"none", "validated", "skipped", "invalid"}, statusGen : Nat]
Accepted == [gen : Nat, hash : Content]
RuleSet == [exists : BOOLEAN, uid : Nat, gen : Nat, duplicates : BOOLEAN,
            override : BOOLEAN, conds : Conditions, accepted : Accepted \cup {None},
            crossed : BOOLEAN]   \* history: see Crosses
Worker == [pc : {"idle", "load", "judge", "recheckRuleSet", "recheck", "patch"},
           obj : RuleSet \cup {None},                \* the RuleSet of the request
           got : [Inputs -> Input \cup {None}],      \* the inputs it read
           next : Nat,                               \* index of the loop over inputs
           whole : BOOLEAN]   \* what it read was current together at the last read

ASSUME AcceptanceAssumption ==
    /\ Data \in Seq(Inputs) /\ Sources \in Seq(Inputs)
    /\ IsInjective(Data \o Sources) /\ Sources # <<>>
    /\ MaxBuild \in Nat \ {0} /\ MaxChanges \in Nat
    /\ Verdict \in [1..MaxBuild -> [Content -> Verdicts]]
    /\ None \notin Texts \cup Input \cup Accepted \cup RuleSet

VARIABLES
    build,       \* the leader's build
    input,       \* RuleData and RuleSources, with the validation status of a source
    due,         \* RuleSources queued for their controller
    checking,    \* RuleSource -> what its reconcile in progress read, or None
    ruleSet,     \* the RuleSet in the API server
    cache,       \* the RuleSet in the informer's cache
    unseen,      \* has a change that the controller watches not reached the informer
    queued,      \* is the RuleSet queued
    worker,      \* its reconcile in progress
    changes      \* edits and faults so far

sourceVars == <<input, due, checking>>
ruleSetVars == <<ruleSet, cache, unseen, queued, worker>>
vars == <<build, sourceVars, ruleSetVars, changes>>

AcceptanceTypeOK ==
    /\ build \in 1..MaxBuild
    /\ input \in [Inputs -> Input]
    /\ due \in SUBSET Range(Sources)
    /\ checking \in [Range(Sources) -> Input \cup {None}]
    /\ ruleSet \in RuleSet /\ cache \in RuleSet
    /\ unseen \in BOOLEAN /\ queued \in BOOLEAN
    /\ worker \in Worker
    /\ changes \in 0..MaxChanges

NoConditions == [reason |-> "none", gen |-> 0, degraded |-> "none", degradedGen |-> 0]
Idle == [pc |-> "idle", obj |-> None, got |-> [i \in Inputs |-> None], next |-> 1,
         whole |-> FALSE]
NewInput(uid, t) == [uid |-> uid, gen |-> 1, text |-> t, skip |-> FALSE,
                     status |-> "none", statusGen |-> 0]
NewRuleSet(uid) ==
    [exists |-> TRUE, uid |-> uid, gen |-> 1, duplicates |-> FALSE, override |-> FALSE,
     conds |-> NoConditions, accepted |-> None, crossed |-> FALSE]

\* Newly created objects, listed by the informers.
Init ==
    /\ build = 1
    /\ \E c \in Content : input = [i \in Inputs |-> NewInput(1, c[i])]
    /\ due = Range(Sources) /\ checking = [s \in Range(Sources) |-> None]
    /\ ruleSet = NewRuleSet(1) /\ cache = ruleSet /\ unseen = FALSE
    /\ queued = TRUE /\ worker = Idle
    /\ changes = 0

------------------------------------------------------------------------------
(***************************************************************************)
(* Users, informers, restarts.                                              *)
(***************************************************************************)

Changed == changes < MaxChanges /\ changes' = changes + 1

\* Edit, delete or create an input.  A created object has a new UID, generation 1 and
\* no status.  The watches queue the RuleSet and, for a source, its own reconcile.
EditInput(i, t) ==
    /\ Changed
    /\ t # input[i].text
    /\ LET old == input[i]
           new == IF t = None THEN [old EXCEPT !.text = None]
                  ELSE IF old.text = None THEN NewInput(old.uid + 1, t)
                  ELSE [old EXCEPT !.text = t, !.gen = old.gen + 1]
       IN  input' = [input EXCEPT ![i] = new]
    /\ due' = IF i \in Range(Sources) THEN due \cup {i} ELSE due
    /\ queued' = TRUE
    /\ UNCHANGED <<build, checking, ruleSet, cache, unseen, worker>>

\* Toggle the skip-validation annotation; annotations leave the generation alone.
AnnotateSource(s) ==
    /\ Changed
    /\ input[s].text # None
    /\ input' = [input EXCEPT ![s].skip = ~@]
    /\ due' = due \cup {s}
    /\ queued' = TRUE
    /\ UNCHANGED <<build, checking, ruleSet, cache, unseen, worker>>

\* Fault: the predicate looks at the generation only.
WatchedGeneration(rs) == <<rs.exists, rs.uid, rs.gen>>

\* What the For predicate of SetupWithManager compares.
Watched(rs) == <<rs.exists, rs.uid, rs.gen, rs.override>>

\* Edit the spec, toggle the skip-unsupported-rules-check annotation, delete, create.
EditRuleSet ==
    /\ Changed
    /\ \/ /\ ruleSet.exists
          /\ ruleSet' \in {[ruleSet EXCEPT !.duplicates = ~@, !.gen = @ + 1],
                           [ruleSet EXCEPT !.override = ~@],
                           [ruleSet EXCEPT !.exists = FALSE]}
       \/ /\ ~ruleSet.exists
          /\ ruleSet' = NewRuleSet(ruleSet.uid + 1)
    /\ unseen' = (unseen \/ Watched(ruleSet') # Watched(ruleSet))
    /\ UNCHANGED <<build, sourceVars, cache, queued, worker>>

\* The RuleSet informer catches up, with the events of every version in between.
SyncRuleSet ==
    /\ cache # ruleSet \/ unseen
    /\ cache' = ruleSet /\ unseen' = FALSE
    /\ queued' = (queued \/ unseen)
    /\ UNCHANGED <<build, sourceVars, ruleSet, worker, changes>>

\* The process ends and a leader of the same or a newer build lists every object.
Restart ==
    /\ Changed
    /\ build' \in build..MaxBuild
    /\ due' = Range(Sources) /\ checking' = [s \in Range(Sources) |-> None]
    /\ cache' = ruleSet /\ unseen' = FALSE
    /\ queued' = TRUE /\ worker' = Idle
    /\ UNCHANGED <<input, ruleSet>>

------------------------------------------------------------------------------
(***************************************************************************)
(* RuleSourceReconciler.Reconcile.                                          *)
(***************************************************************************)

\* The status that the text and the annotation call for.
Outcome(src) ==
    IF src.skip THEN "skipped" ELSE IF src.text \in Fragment THEN "validated" ELSE "invalid"

\* isConditionCurrent for the reason `outcome'.
HasStatus(src, outcome) == src.status = outcome /\ src.statusGen = src.gen

\* Get and validate; there is nothing to patch when the condition is current.
CheckSource(s) ==
    /\ s \in due /\ checking[s] = None
    /\ due' = due \ {s}
    /\ LET src == input[s]
       IN  checking' = IF src.text = None \/ HasStatus(src, Outcome(src)) THEN checking
                       ELSE [checking EXCEPT ![s] = src]
    /\ UNCHANGED <<build, input, ruleSetVars, changes>>

\* patchReady or patchDegraded, by name; the change of status queues the RuleSet.
PatchSource(s) ==
    /\ checking[s] # None
    /\ checking' = [checking EXCEPT ![s] = None]
    /\ LET src == checking[s]
       IN  IF input[s].text = None
           THEN due' = due \cup {s} /\ UNCHANGED <<input, queued>>
           ELSE /\ input' = [input EXCEPT ![s].status = Outcome(src), ![s].statusGen = src.gen]
                /\ queued' = TRUE
                /\ UNCHANGED due
    /\ UNCHANGED <<build, ruleSet, cache, unseen, worker, changes>>

------------------------------------------------------------------------------
(***************************************************************************)
(* Status patches of the RuleSet.                                           *)
(***************************************************************************)

\* applyStatusConditionDegraded, applyStatusProgressing and applyStatusReady.
Degraded(gen, reason) ==
    [reason |-> reason, gen |-> gen, degraded |-> reason, degradedGen |-> gen]

Progressing(conds, gen, reason) == [conds EXCEPT !.reason = reason, !.gen = gen]

\* Fault: the condition has the verdict for a reason.
ReadyByVerdict(gen, reason) ==
    [reason |-> "ok", gen |-> gen, degraded |-> "none", degradedGen |-> 0]

Ready(gen, reason) ==
    [reason |-> reason, gen |-> gen, degraded |-> "none", degradedGen |-> 0]

IsDegraded(rs) == rs.conds.degraded # "none" /\ rs.conds.degradedGen = rs.gen
IsReady(rs) == rs.conds.reason \in Accepting /\ rs.conds.gen = rs.gen

\* A merge patch carries what changed against the object that was read: the condition
\* list as a whole, the accepted record field by field.
MergedConditions(base, new, cur) == IF new = base THEN cur ELSE new

MergedRecord(base, new, cur) ==
    IF new = base THEN cur
    ELSE IF new = None \/ base = None \/ cur = None THEN new
    ELSE [gen |-> IF new.gen = base.gen THEN cur.gen ELSE new.gen,
          hash |-> IF new.hash = base.hash THEN cur.hash ELSE new.hash]

\* The API server refuses an accepted record that lacks one of its required fields.
Incomplete(base, new, cur) ==
    /\ base # None /\ new # None /\ new # base /\ cur = None
    /\ new.gen = base.gen \/ new.hash = base.hash

\* Return, with an empty result or with an error or a delay that queues it again.
Return(again) == worker' = Idle /\ queued' = (queued \/ again)

\* The patch is not of the RuleSet that was read, or withdraws a record it has not read.
Crosses(obj, accepted) ==
    \/ obj.uid # ruleSet.uid
    \/ accepted = None /\ obj.accepted # None /\ ruleSet.accepted \notin {obj.accepted, None}

\* Patch the status by name and return.
Patch(conds, accepted, again) ==
    LET obj == worker.obj IN
    IF ~ruleSet.exists \/ Incomplete(obj.accepted, accepted, ruleSet.accepted)
    THEN Return(TRUE) /\ UNCHANGED ruleSet
    ELSE /\ ruleSet' = [ruleSet EXCEPT
                          !.conds = MergedConditions(obj.conds, conds, @),
                          !.accepted = MergedRecord(obj.accepted, accepted, @),
                          !.crossed = @ \/ Crosses(obj, accepted)]
         /\ Return(again)

patchDegraded(reason, accepted, again) ==
    Patch(Degraded(worker.obj.gen, reason), accepted, again)

------------------------------------------------------------------------------
(***************************************************************************)
(* RuleSetReconciler.Reconcile.                                             *)
(***************************************************************************)

At(pc) == worker.pc = pc
Goto(w) == worker' = w /\ UNCHANGED <<ruleSet, queued>>

Begin(rs) == worker' = [Idle EXCEPT !.pc = "load", !.obj = rs]

\* The patch returns the object of the API server.
initializeStatus ==
    /\ ruleSet.exists
    /\ ruleSet' = [ruleSet EXCEPT !.conds = Progressing(NoConditions, cache.gen, "reconciling")]
    /\ Begin(ruleSet')

\* Get, and initializeStatus for an object without conditions.  The patch of a deleted
\* object fails, which changes nothing and is retried.
ReconcileRuleSet ==
    /\ At("idle") /\ queued
    /\ \/ /\ ~cache.exists
          /\ UNCHANGED <<ruleSet, worker>>
       \/ /\ cache.exists /\ cache.conds # NoConditions
          /\ Begin(cache)
          /\ UNCHANGED ruleSet
       \/ /\ cache.exists /\ cache.conds = NoConditions
          /\ initializeStatus
    /\ queued' = FALSE
    /\ UNCHANGED <<build, sourceVars, cache, unseen, changes>>

\* Every input read is still the current one, and the RuleSet that names them too.
SameRuleSet(rs) == rs.exists /\ <<rs.uid, rs.gen>> = <<worker.obj.uid, worker.obj.gen>>
SameInput(i) ==
    /\ input[i].text # None
    /\ <<input[i].uid, input[i].gen>> = <<worker.got[i].uid, worker.got[i].gen>>

\* findDuplicateReferences, then one iteration of loadData or of loadSources.
Load ==
    /\ At("load")
    /\ LET obj == worker.obj
           i == (Data \o Sources)[worker.next]
           last == worker.next = Len(Data \o Sources)
       IN  IF obj.duplicates THEN patchDegraded("duplicate", obj.accepted, FALSE)
           ELSE IF input[i].text = None THEN patchDegraded("missing", obj.accepted, FALSE)
           ELSE IF i \in Range(Sources) /\ HasStatus(input[i], "invalid")
           THEN patchDegraded("fragment", obj.accepted, FALSE)
           ELSE Goto([worker EXCEPT
                        !.got[i] = input[i], !.next = @ + 1,
                        !.pc = IF last THEN "judge" ELSE "load",
                        !.whole = /\ last /\ (SameRuleSet(cache) \/ SameRuleSet(ruleSet))
                                  /\ \A x \in Inputs \ {i} : SameInput(x)])
    /\ UNCHANGED <<build, sourceVars, cache, unseen, changes>>

\* ruleSourceValidatedForGeneration.
Validated(src) == HasStatus(src, IF src.skip THEN "skipped" ELSE "validated")

content == [i \in Inputs |-> worker.got[i].text]
verdict == Verdict[build][content]

\* Fault: any accepted record goes.
markRulesInvalidDrop(reason) == patchDegraded(reason, None, FALSE)

\* markRulesInvalid: an accepted record of the refused content goes with it.
markRulesInvalid(reason) ==
    LET obj == worker.obj
        refused == obj.accepted # None /\ obj.accepted.hash = content
    IN  IF IsDegraded(obj) /\ obj.conds.degraded = reason
        THEN Return(FALSE) /\ UNCHANGED ruleSet
        ELSE patchDegraded(reason, IF refused THEN None ELSE obj.accepted, FALSE)

isRuleSetContentAccepted(rs, hash) == rs.accepted = [gen |-> rs.gen, hash |-> hash]

patchRuleSetAwaitingRuleSources ==
    Patch(Progressing(worker.obj.conds, worker.obj.gen, "waiting"), worker.obj.accepted, TRUE)

rejectUnsupportedRules == verdict = "unsupported" /\ ~worker.obj.override

\* From the end of loadSources to acceptRules.
Judge ==
    /\ At("judge")
    /\ LET obj == worker.obj
           pending == \E s \in Range(Sources) : ~Validated(worker.got[s])
           already == IsReady(obj) /\ isRuleSetContentAccepted(obj, content)
       IN  IF pending THEN patchRuleSetAwaitingRuleSources
           ELSE IF verdict = "unassembled"
           THEN IF IsDegraded(obj) /\ obj.conds.degraded = "unassembled"
                THEN Return(FALSE) /\ UNCHANGED ruleSet
                ELSE patchDegraded("unassembled", obj.accepted, FALSE)
           ELSE IF verdict = "rejected" THEN markRulesInvalid("rejected")
           ELSE IF verdict = "invalid" /\ ~already THEN markRulesInvalid("invalid")
           ELSE IF rejectUnsupportedRules THEN patchDegraded("unsupported", obj.accepted, FALSE)
           ELSE IF already THEN Return(FALSE) /\ UNCHANGED ruleSet
           ELSE Goto([worker EXCEPT !.pc = "recheckRuleSet"])
    /\ UNCHANGED <<build, sourceVars, cache, unseen, changes>>

\* Fault: RuleData is not read again.
RecheckSources ==
    /\ At("recheck")
    /\ LET i == Sources[worker.next]
           last == worker.next = Len(Sources)
       IN  IF SameInput(i)
           THEN Goto([worker EXCEPT !.next = @ + 1, !.pc = IF last THEN "patch" ELSE "recheck"])
           ELSE Return(TRUE) /\ UNCHANGED ruleSet
    /\ UNCHANGED <<build, sourceVars, cache, unseen, changes>>

\* inputsChanged: the RuleSet, then each input.
RecheckRuleSet ==
    /\ At("recheckRuleSet")
    /\ IF SameRuleSet(cache) THEN Goto([worker EXCEPT !.pc = "recheck", !.next = 1])
       ELSE Return(TRUE) /\ UNCHANGED ruleSet
    /\ UNCHANGED <<build, sourceVars, cache, unseen, changes>>

RecheckInput ==
    /\ At("recheck")
    /\ LET i == (Sources \o Data)[worker.next]
           last == worker.next = Len(Sources \o Data)
       IN  IF SameInput(i)
           THEN Goto([worker EXCEPT !.next = @ + 1, !.pc = IF last THEN "patch" ELSE "recheck"])
           ELSE Return(TRUE) /\ UNCHANGED ruleSet
    /\ UNCHANGED <<build, sourceVars, cache, unseen, changes>>

\* Fault: the hash is taken of the inputs as they are at the patch.
AcceptCurrent ==
    /\ At("patch") /\ \A i \in Inputs : input[i].text # None
    /\ Patch(Ready(worker.obj.gen, "accepted"),
             [gen |-> worker.obj.gen, hash |-> [i \in Inputs |-> input[i].text]], FALSE)
    /\ UNCHANGED <<build, sourceVars, cache, unseen, changes>>

\* Fault: the Ready condition is patched without the record.
AcceptWithoutRecord ==
    /\ At("patch")
    /\ Patch(Ready(worker.obj.gen, "accepted"), worker.obj.accepted, FALSE)
    /\ UNCHANGED <<build, sourceVars, cache, unseen, changes>>

\* patchRuleSetAccepted.
AcceptRules ==
    /\ At("patch")
    /\ LET gen == worker.obj.gen
       IN  Patch(Ready(gen, IF verdict = "ok" THEN "accepted" ELSE "overridden"),
                 [gen |-> gen, hash |-> content], FALSE)
    /\ UNCHANGED <<build, sourceVars, cache, unseen, changes>>

\* A read or a patch fails and the error is returned; loadData and loadSources record a
\* failed read first.
Fails ==
    /\ ~At("idle")
    /\ Changed
    /\ \/ Return(TRUE) /\ UNCHANGED ruleSet
       \/ /\ At("load") /\ ~worker.obj.duplicates
          /\ patchDegraded("access", worker.obj.accepted, TRUE)
    /\ UNCHANGED <<build, sourceVars, cache, unseen>>

RuleSetStep ==
    ReconcileRuleSet \/ Load \/ Judge \/ RecheckRuleSet \/ RecheckInput \/ AcceptRules

SourceStep(s) == CheckSource(s) \/ PatchSource(s)

Next ==
    \/ \E i \in Inputs : \E t \in TextsOf[i] \cup {None} : EditInput(i, t)
    \/ \E s \in Range(Sources) : AnnotateSource(s) \/ SourceStep(s)
    \/ EditRuleSet \/ SyncRuleSet \/ Restart \/ Fails \/ RuleSetStep

Spec == Init /\ [][Next]_vars

\* Work queues are drained and the informer catches up.
FairSpec ==
    /\ Spec
    /\ WF_vars(SyncRuleSet) /\ WF_vars(RuleSetStep)
    /\ \A s \in Range(Sources) : WF_vars(SourceStep(s))

------------------------------------------------------------------------------
(***************************************************************************)
(* Properties.                                                              *)
(***************************************************************************)

\* What acceptRules is about to record was one configuration: when the last input was
\* read, the RuleSet and every input were still what had been read, whatever is edited,
\* deleted or recreated between the reads (inputsChanged).
AcceptedWhole == At("patch") => worker.whole

\* A recorded hash is that of a content that the aggregate checks of this or an earlier
\* build let pass, also after patches computed from a stale RuleSet are merged.
AcceptedApproved ==
    ruleSet.accepted # None =>
       \E b \in 1..build : Verdict[b][ruleSet.accepted.hash] \in {"ok", "unsupported"}

\* A Ready condition comes with the record of the same generation (patchRuleSetAccepted),
\* across races of acceptance, withdrawal and lagging reads.  Two patches may part them: of
\* a RuleSet recreated under the reconcile, found by its name, and a withdrawal computed
\* from an older record than the one it takes away.
ReadyRecorded ==
    ruleSet.conds.reason \in Accepting /\ ~ruleSet.crossed =>
       ruleSet.accepted # None /\ ruleSet.accepted.gen = ruleSet.conds.gen

\* The record survives missing inputs, invalid edits, failures and restarts: it is
\* withdrawn only by a reconcile that read a record whose content the leader's build
\* refuses (markRulesInvalid).
Withdrawal ==
    /\ ruleSet.accepted # None /\ ruleSet'.accepted = None
    /\ ruleSet'.uid = ruleSet.uid
    => /\ worker.obj.accepted # None
       /\ Verdict[build][worker.obj.accepted.hash] \in {"rejected", "invalid"}

RecordKept == [][Withdrawal]_vars

\* A reconcile reads a status that has its controller's last write.
OwnWritesSeen ==
    ~At("idle") /\ worker.obj.uid = ruleSet.uid =>
       worker.obj.conds = ruleSet.conds /\ worker.obj.accepted = ruleSet.accepted

\* ~ruleSetAcceptancePending: an Engine may render the recorded content.
Usable(rs) ==
    rs.exists /\ rs.accepted # None /\ rs.accepted.gen = rs.gen /\ ~IsDegraded(rs)

\* The inputs as they are now.
Current == [i \in Inputs |-> input[i].text]
Complete ==
    /\ ~ruleSet.duplicates
    /\ \A i \in Inputs : input[i].text # None
    /\ \A s \in Range(Sources) : input[s].skip \/ input[s].text \in Fragment
Passing ==
    {c \in Content : \/ Verdict[build][c] = "ok"
                     \/ Verdict[build][c] = "unsupported" /\ ruleSet.override}

\* An acceptable configuration ends up usable, and one the guard or the unsupported-rule
\* check refuses does not stay so: no edit of an object or annotation, race or new build
\* is missed by the watches, and no reconcile waits for an event that does not come.
Settled ==
    ruleSet.exists =>
       /\ Complete /\ Current \in Passing =>
             Usable(ruleSet) /\ ruleSet.accepted.hash = Current
       /\ ~Complete \/ Current \notin Passing =>
             \/ ~Usable(ruleSet)
             \/ Complete /\ Verdict[build][Current] = "invalid"

Settles == []OwnWritesSeen => <>[]Settled

=============================================================================
