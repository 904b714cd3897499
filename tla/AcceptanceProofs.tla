------------------------- MODULE AcceptanceProofs --------------------------
(***************************************************************************)
(* What RuleSetAcceptance promises, for every number of inputs, every text, *)
(* verdict and build, and any number of edits, faults and restarts.         *)
(***************************************************************************)
EXTENDS RuleSetAcceptance, TLAPS

Reading == Data \o Sources
Rereading == Sources \o Data

Judged == {"judge", "recheckRuleSet", "recheck", "patch"}
Passed == {"recheckRuleSet", "recheck", "patch"}

\* Object a is no later a version than object b of the same name.
NotLater(a, b) == a.uid < b.uid \/ (a.uid = b.uid /\ a.gen <= b.gen)

\* What a reconcile has read by the time it has reached its pc.
Formed ==
    /\ ~At("idle") => worker.obj # None
    /\ At("load") => /\ worker.next \in 1..Len(Reading)
                     /\ \A j \in 1..(worker.next - 1) : worker.got[Reading[j]] # None
    /\ worker.pc \in Judged => \A i \in Inputs : worker.got[i] # None
    /\ At("recheck") => worker.next \in 1..Len(Rereading)

\* Every input has a text of its own, and every read is of a version that existed.
Ordered ==
    /\ \A i \in Inputs : input[i].text \in TextsOf[i] \cup {None}
    /\ \A i \in Inputs : worker.got[i] # None =>
          worker.got[i].text \in TextsOf[i] /\ NotLater(worker.got[i], input[i])
    /\ NotLater(cache, ruleSet)
    /\ worker.obj # None => NotLater(worker.obj, ruleSet)

TypeInv == AcceptanceTypeOK /\ Formed /\ Ordered

\* What was read has been left behind.
RuleSetGone == ~SameRuleSet(cache) /\ ~SameRuleSet(ruleSet)

\* What was not one configuration has an input, not yet read again, that has moved on, or
\* belongs to a RuleSet that has.
Wholeness ==
    /\ worker.pc \in {"judge", "recheckRuleSet"} =>
          worker.whole \/ RuleSetGone \/ \E i \in Inputs : ~SameInput(i)
    /\ At("recheck") =>
          worker.whole \/ \E j \in worker.next..Len(Rereading) : ~SameInput(Rereading[j])
    /\ At("patch") => worker.whole

Approved(h) == \E b \in 1..build : Verdict[b][h] \in {"ok", "unsupported"}
Lets(h) == Verdict[build][h] \in {"ok", "unsupported"}
Refuses(h) == Verdict[build][h] \in {"rejected", "invalid"}

Approval ==
    /\ ruleSet.accepted # None => Approved(ruleSet.accepted.hash)
    /\ worker.pc \in Passed => Lets(content)

\* The generation of the latest version that a reconcile may have read.
Horizon ==
    IF cache.uid = ruleSet.uid /\ cache.conds # NoConditions THEN cache.gen ELSE ruleSet.gen

\* A Ready condition comes with the record of its generation.
Recorded(rs) ==
    rs.conds.reason \in Accepting => rs.accepted # None /\ rs.accepted.gen = rs.conds.gen

\* How the record has moved since version rs of the RuleSet: it was replaced by one that
\* this build lets pass, or withdrawn because this build refuses it; and a record that was
\* up to date still names the same generation.
Since(rs) ==
    /\ Recorded(rs)
    /\ rs.conds = NoConditions => rs.accepted = None
    /\ rs.conds # NoConditions => ruleSet.conds # NoConditions
    /\ rs.accepted # None =>
          /\ rs.accepted.gen <= rs.gen
          /\ IF ruleSet.accepted = None THEN Refuses(rs.accepted.hash)
             ELSE /\ ruleSet.accepted = rs.accepted \/ Lets(ruleSet.accepted.hash)
                  /\ rs.accepted.gen = rs.gen => ruleSet.accepted.gen = rs.gen

Records ==
    ~ruleSet.crossed =>
       /\ Recorded(ruleSet)
       /\ ruleSet.conds = NoConditions => ruleSet.accepted = None
       /\ ruleSet.accepted # None => ruleSet.accepted.gen <= Horizon
       /\ cache.uid = ruleSet.uid => Since(cache)
       /\ worker.obj # None /\ worker.obj.uid = ruleSet.uid =>
             /\ Since(worker.obj)
             /\ ruleSet.conds # NoConditions
             /\ worker.obj.gen <= Horizon
             /\ ruleSet.accepted # None => ruleSet.accepted.gen <= worker.obj.gen
             /\ cache.uid = ruleSet.uid /\ cache.accepted # None =>
                   cache.accepted.gen <= worker.obj.gen

------------------------------------------------------------------------------
(***************************************************************************)
(* What a step of the reconcile does.                                       *)
(***************************************************************************)

\* The API server takes the patch.
Writes(conds, accepted) ==
    /\ worker' = Idle
    /\ ~Incomplete(worker.obj.accepted, accepted, ruleSet.accepted)
    /\ ruleSet' = [ruleSet EXCEPT
                      !.conds = MergedConditions(worker.obj.conds, conds, @),
                      !.accepted = MergedRecord(worker.obj.accepted, accepted, @),
                      !.crossed = @ \/ Crosses(worker.obj, accepted)]

Gives == worker' = Idle /\ UNCHANGED ruleSet

\* The conditions change and the record stays as it is.
Notes(conds) ==
    conds.reason \notin Accepting \cup {"none"} /\ Writes(conds, worker.obj.accepted)

\* The record is withdrawn.
Withdraws(conds) ==
    /\ conds.reason \notin Accepting \cup {"none"} /\ conds # worker.obj.conds
    /\ worker.obj.accepted # None /\ Refuses(worker.obj.accepted.hash)
    /\ Writes(conds, None)

Accepts(reason) ==
    /\ At("patch")
    /\ Writes(Ready(worker.obj.gen, reason), [gen |-> worker.obj.gen, hash |-> content])

\* The reconcile goes on.
Reads ==
    /\ At("load") /\ UNCHANGED ruleSet
    /\ LET i == Reading[worker.next]
           last == worker.next = Len(Reading)
       IN  /\ input[i].text # None
           /\ worker' = [worker EXCEPT
                   !.got[i] = input[i], !.next = @ + 1, !.pc = IF last THEN "judge" ELSE "load",
                   !.whole = /\ last /\ (SameRuleSet(cache) \/ SameRuleSet(ruleSet))
                             /\ \A x \in Inputs \ {i} : SameInput(x)]

Passes ==
    /\ At("judge") /\ UNCHANGED ruleSet
    /\ Lets(content)
    /\ worker' = [worker EXCEPT !.pc = "recheckRuleSet"]

Returns ==
    /\ At("recheckRuleSet") /\ UNCHANGED ruleSet
    /\ SameRuleSet(cache)
    /\ worker' = [worker EXCEPT !.pc = "recheck", !.next = 1]

Rereads ==
    /\ At("recheck") /\ UNCHANGED ruleSet
    /\ SameInput(Rereading[worker.next])
    /\ worker' = [worker EXCEPT !.next = @ + 1,
                      !.pc = IF worker.next = Len(Rereading) THEN "patch" ELSE "recheck"]

Kinds ==
    \/ Gives
    \/ \E c \in Conditions : Notes(c) \/ Withdraws(c)
    \/ \E r \in Accepting : Accepts(r)
    \/ Reads \/ Passes \/ Returns \/ Rereads

Reconciles == Load \/ Judge \/ RecheckRuleSet \/ RecheckInput \/ AcceptRules \/ Fails

\* The loops pass every input.
LEMMA Loops ==
    /\ \A j \in 1..Len(Reading) : Reading[j] \in Inputs
    /\ \A j \in 1..Len(Rereading) : Rereading[j] \in Inputs
    /\ Len(Reading) \in Nat \ {0} /\ Len(Rereading) \in Nat \ {0}
    /\ \A i \in Inputs : \E j \in 1..Len(Reading) : Reading[j] = i
    /\ \A i \in Inputs : \E j \in 1..Len(Rereading) : Rereading[j] = i
<1>1. Data \in Seq(Inputs) /\ Sources \in Seq(Inputs) /\ Sources # <<>>
  BY AcceptanceAssumption, Zenon
<1>2. Len(Data) \in Nat /\ Len(Sources) \in Nat \ {0}
  BY <1>1
<1>3. Reading \in Seq(Inputs) /\ Rereading \in Seq(Inputs)
      /\ Len(Reading) = Len(Data) + Len(Sources) /\ Len(Rereading) = Len(Sources) + Len(Data)
  BY <1>1 DEF Reading, Rereading
<1>4. ASSUME NEW i \in Inputs
      PROVE  /\ \E j \in 1..Len(Reading) : Reading[j] = i
             /\ \E j \in 1..Len(Rereading) : Rereading[j] = i
  <2>1. CASE i \in Range(Data)
    <3>1. PICK k \in 1..Len(Data) : Data[k] = i
      BY <1>1, <2>1 DEF Range
    <3>2. Reading[k] = i /\ k \in 1..Len(Reading)
      BY <1>1, <1>2, <1>3, <3>1 DEF Reading
    <3>3. Rereading[Len(Sources) + k] = i /\ Len(Sources) + k \in 1..Len(Rereading)
      BY <1>1, <1>2, <1>3, <3>1 DEF Rereading
    <3> QED
      BY <3>2, <3>3, Zenon
  <2>2. CASE i \in Range(Sources)
    <3>1. PICK k \in 1..Len(Sources) : Sources[k] = i
      BY <1>1, <2>2 DEF Range
    <3>2. Rereading[k] = i /\ k \in 1..Len(Rereading)
      BY <1>1, <1>2, <1>3, <3>1 DEF Rereading
    <3>3. Reading[Len(Data) + k] = i /\ Len(Data) + k \in 1..Len(Reading)
      BY <1>1, <1>2, <1>3, <3>1 DEF Reading
    <3> QED
      BY <3>2, <3>3, Zenon
  <2> QED
    BY <2>1, <2>2, Zenon DEF Inputs
<1>5. Len(Reading) \in Nat \ {0} /\ Len(Rereading) \in Nat \ {0}
  BY <1>2, <1>3
<1>6. /\ \A j \in 1..Len(Reading) : Reading[j] \in Inputs
      /\ \A j \in 1..Len(Rereading) : Rereading[j] \in Inputs
  BY <1>3
<1> QED
  BY <1>4, <1>5, <1>6, Zenon

\* What judge and its successors read is a content.
LEMMA ContentRead ==
    ASSUME TypeInv, worker.pc \in Judged
    PROVE  content \in Content /\ verdict \in Verdicts
<1>1. \A i \in Inputs : worker.got[i].text \in TextsOf[i] /\ worker.got[i].text \in Texts
  BY Zenon DEF TypeInv, Formed, Ordered, Texts
<1>2. content \in Content
  BY <1>1, Zenon DEF content, Content
<1>3. build \in 1..MaxBuild
  BY Zenon DEF TypeInv, AcceptanceTypeOK
<1> QED
  BY <1>2, <1>3, AcceptanceAssumption, Zenon DEF verdict

\* A patch is taken, or the reconcile returns and changes nothing.
LEMMA PatchKinds ==
    ASSUME NEW conds, NEW accepted, NEW again \in BOOLEAN, queued \in BOOLEAN,
           Patch(conds, accepted, again)
    PROVE  queued' \in BOOLEAN /\ (Gives \/ Writes(conds, accepted))
BY Zenon DEF Patch, Gives, Writes, Return

\* The conditions that a reconcile writes.
LEMMA WrittenConditions ==
    ASSUME NEW conds \in Conditions, NEW gen \in Nat
    PROVE  /\ \A r \in Refusals : /\ Degraded(gen, r) \in Conditions
                                  /\ Degraded(gen, r).reason \notin Accepting \cup {"none"}
           /\ Progressing(conds, gen, "waiting") \in Conditions
           /\ Progressing(conds, gen, "waiting").reason \notin Accepting \cup {"none"}
           /\ Progressing(conds, gen, "reconciling") \in Conditions
           /\ Progressing(conds, gen, "reconciling").reason \notin Accepting \cup {"none"}
           /\ \A r \in Accepting : Ready(gen, r) \in Conditions
BY Zenon DEF Conditions, Degraded, Progressing, Ready, Accepting, Refusals, Verdicts

\* A patch that says why the RuleSet is refused leaves the record alone.
LEMMA DegradedKinds ==
    ASSUME queued \in BOOLEAN, worker.obj \in RuleSet,
           NEW reason \in Refusals, NEW again \in BOOLEAN,
           patchDegraded(reason, worker.obj.accepted, again)
    PROVE  queued' \in BOOLEAN /\ Kinds
<1> DEFINE c == Degraded(worker.obj.gen, reason)
<1>1. worker.obj.gen \in Nat /\ worker.obj.conds \in Conditions
  BY Zenon DEF RuleSet
<1>2. c \in Conditions /\ c.reason \notin Accepting \cup {"none"}
  BY <1>1, WrittenConditions, Zenon
<1>3. queued' \in BOOLEAN /\ (Gives \/ Writes(c, worker.obj.accepted))
  BY PatchKinds, Zenon DEF patchDegraded
<1> HIDE DEF c
<1> QED
  BY <1>2, <1>3, Zenon DEF Kinds, Notes

\* markRulesInvalid withdraws a record only of the content that the build refuses.
LEMMA InvalidKinds ==
    ASSUME TypeInv, At("judge"), verdict \in {"rejected", "invalid"}, worker.obj \in RuleSet,
           markRulesInvalid(verdict)
    PROVE  queued' \in BOOLEAN /\ Kinds
<1> DEFINE c == Degraded(worker.obj.gen, verdict)
           refused == worker.obj.accepted # None /\ worker.obj.accepted.hash = content
<1>0. queued \in BOOLEAN /\ verdict \in Refusals
  BY Zenon DEF TypeInv, AcceptanceTypeOK, Refusals, Verdicts
<1>1. CASE Return(FALSE) /\ UNCHANGED ruleSet
  BY <1>0, <1>1, Zenon DEF Return, Kinds, Gives
<1>2. CASE ~refused /\ patchDegraded(verdict, worker.obj.accepted, FALSE)
  BY <1>0, <1>2, DegradedKinds, Zenon
<1>3. CASE /\ refused /\ patchDegraded(verdict, None, FALSE)
           /\ ~(IsDegraded(worker.obj) /\ worker.obj.conds.degraded = verdict)
  <2>1. worker.obj.gen \in Nat /\ worker.obj.conds \in Conditions
    BY Zenon DEF RuleSet
  <2>2. c \in Conditions /\ c.reason \notin Accepting \cup {"none"}
    BY <1>0, <2>1, WrittenConditions, Zenon
  <2>3. c # worker.obj.conds
    BY <1>3 DEF IsDegraded, Degraded
  <2>4. queued' \in BOOLEAN /\ (Gives \/ Writes(c, None))
    BY <1>0, <1>3, PatchKinds, Zenon DEF patchDegraded
  <2>5. Refuses(worker.obj.accepted.hash)
    BY <1>3, Zenon DEF Refuses, verdict
  <2> HIDE DEF c
  <2> QED
    BY <1>3, <2>2, <2>3, <2>4, <2>5, Zenon DEF Kinds, Withdraws
<1> QED
  BY <1>1, <1>2, <1>3, Zenon DEF markRulesInvalid

\* loadData and loadAllSources read the next input, or the reconcile ends.
LEMMA LoadKinds ==
    ASSUME TypeInv, Load
    PROVE  queued' \in BOOLEAN /\ Kinds
<1> DEFINE i == (Data \o Sources)[worker.next]
           D(r) == patchDegraded(r, worker.obj.accepted, FALSE)
<1>1. queued \in BOOLEAN /\ worker.obj \in RuleSet
  BY Zenon DEF TypeInv, AcceptanceTypeOK, Formed, Load, At, Worker
<1>2. CASE D("duplicate") \/ D("missing") \/ D("fragment")
  BY <1>1, <1>2, DegradedKinds, Zenon DEF Refusals
<1>3. CASE input[i].text # None /\
           Goto([worker EXCEPT
                   !.got[i] = input[i], !.next = @ + 1,
                   !.pc = IF worker.next = Len(Data \o Sources) THEN "judge" ELSE "load",
                   !.whole = /\ worker.next = Len(Data \o Sources)
                             /\ (SameRuleSet(cache) \/ SameRuleSet(ruleSet))
                             /\ \A x \in Inputs \ {i} : SameInput(x)])
  BY <1>1, <1>3, Zenon DEF Goto, Kinds, Reads, Reading, Load
<1> QED
  BY <1>2, <1>3, Zenon DEF Load

\* The aggregate checks end the reconcile, withdraw the record, or let the content pass.
LEMMA JudgeKinds ==
    ASSUME TypeInv, Judge
    PROVE  queued' \in BOOLEAN /\ Kinds
<1> DEFINE obj == worker.obj
<1>1. queued \in BOOLEAN /\ obj \in RuleSet /\ At("judge")
  BY Zenon DEF TypeInv, AcceptanceTypeOK, Formed, Judge, At, Worker
<1>2. CASE patchRuleSetAwaitingRuleSources
  <2> DEFINE c == Progressing(obj.conds, obj.gen, "waiting")
  <2>1. obj.gen \in Nat /\ obj.conds \in Conditions
    BY <1>1, Zenon DEF RuleSet
  <2>2. c \in Conditions /\ c.reason \notin Accepting \cup {"none"}
    BY <2>1, WrittenConditions, Zenon
  <2>3. queued' \in BOOLEAN /\ (Gives \/ Writes(c, obj.accepted))
    BY <1>1, <1>2, PatchKinds, Zenon DEF patchRuleSetAwaitingRuleSources
  <2> HIDE DEF c
  <2> QED
    BY <2>2, <2>3, Zenon DEF Kinds, Notes
<1>3. CASE Return(FALSE) /\ UNCHANGED ruleSet
  BY <1>1, <1>3, Zenon DEF Return, Kinds, Gives
<1>4. CASE \/ patchDegraded("unassembled", obj.accepted, FALSE)
           \/ patchDegraded("unsupported", obj.accepted, FALSE)
  BY <1>1, <1>4, DegradedKinds, Zenon DEF Refusals, Verdicts
<1>5. CASE verdict \in {"rejected", "invalid"} /\ markRulesInvalid(verdict)
  BY <1>1, <1>5, InvalidKinds, Zenon
<1>6. CASE /\ verdict \notin {"unassembled", "rejected", "invalid"}
           /\ Goto([worker EXCEPT !.pc = "recheckRuleSet"])
  <2>1. verdict \in {"ok", "unsupported"}
    BY <1>1, <1>6, ContentRead, Zenon DEF Verdicts, Judged, At
  <2> QED
    BY <1>1, <1>6, <2>1, Zenon DEF Goto, Kinds, Passes, Lets, verdict
<1>7. verdict = "rejected" /\ markRulesInvalid("rejected") => markRulesInvalid(verdict)
  OBVIOUS
<1>8. verdict = "invalid" /\ markRulesInvalid("invalid") => markRulesInvalid(verdict)
  OBVIOUS
<1> QED
  BY <1>2, <1>3, <1>4, <1>5, <1>6, <1>7, <1>8, Zenon DEF Judge

\* The rereads before the status patch, the patch itself and a failing call.
LEMMA OtherKinds ==
    ASSUME TypeInv, RecheckRuleSet \/ RecheckInput \/ AcceptRules \/ Fails
    PROVE  queued' \in BOOLEAN /\ Kinds
<1>1. queued \in BOOLEAN /\ worker.obj \in RuleSet
  BY Zenon DEF TypeInv, AcceptanceTypeOK, Formed, RecheckRuleSet, RecheckInput, AcceptRules, Fails,
         At, Worker
<1>2. CASE Return(TRUE) /\ UNCHANGED ruleSet
  BY <1>1, <1>2, Zenon DEF Return, Kinds, Gives
<1>3. CASE RecheckRuleSet
  BY <1>1, <1>2, <1>3, Zenon DEF RecheckRuleSet, Goto, Kinds, Returns
<1>4. CASE RecheckInput
  BY <1>1, <1>2, <1>4, Zenon DEF RecheckInput, Goto, Kinds, Rereads, Rereading
<1>5. CASE AcceptRules
  <2> DEFINE r == IF verdict = "ok" THEN "accepted" ELSE "overridden"
  <2>1. r \in Accepting
    BY Zenon DEF Accepting
  <2>2. /\ At("patch")
        /\ Patch(Ready(worker.obj.gen, r), [gen |-> worker.obj.gen, hash |-> content], FALSE)
    BY <1>5, Zenon DEF AcceptRules
  <2> HIDE DEF r
  <2> QED
    BY <1>1, <2>1, <2>2, PatchKinds, Zenon DEF Kinds, Accepts
<1>6. CASE patchDegraded("access", worker.obj.accepted, TRUE)
  BY <1>1, <1>6, DegradedKinds, Zenon DEF Refusals
<1> QED
  BY <1>2, <1>3, <1>4, <1>5, <1>6, Zenon DEF Fails

\* Every step of a reconcile is of one of these kinds, and leaves the cluster alone.
LEMMA ReconcileKinds ==
    ASSUME TypeInv, Reconciles
    PROVE  /\ worker.obj \in RuleSet /\ ~At("idle")
           /\ UNCHANGED <<build, input, due, checking, cache, unseen>>
           /\ changes' \in 0..MaxChanges /\ queued' \in BOOLEAN
           /\ Kinds
<1>1. ~At("idle")
  BY Zenon DEF Reconciles, Load, Judge, RecheckRuleSet, RecheckInput, AcceptRules, Fails, At
<1>2. worker.obj \in RuleSet
  BY <1>1, Zenon DEF TypeInv, AcceptanceTypeOK, Formed, Worker
<1>3. UNCHANGED <<build, input, due, checking, cache, unseen>>
  BY Zenon DEF Reconciles, Load, Judge, RecheckRuleSet, RecheckInput, AcceptRules, Fails,
         sourceVars
<1>4. changes' \in 0..MaxChanges
  <2>1. changes \in 0..MaxChanges
    BY Zenon DEF TypeInv, AcceptanceTypeOK
  <2>2. changes' = changes \/ Changed
    BY Zenon DEF Reconciles, Load, Judge, RecheckRuleSet, RecheckInput, AcceptRules, Fails
  <2> QED
    BY <2>1, <2>2, AcceptanceAssumption DEF Changed
<1>5. queued' \in BOOLEAN /\ Kinds
  BY LoadKinds, JudgeKinds, OtherKinds, Zenon DEF Reconciles
<1> QED
  BY <1>1, <1>2, <1>3, <1>4, <1>5, Zenon

------------------------------------------------------------------------------
(***************************************************************************)
(* Types, and versions that only grow.                                      *)
(***************************************************************************)

\* Between reconciles nothing is held.
LEMMA IdleFormed == Idle \in Worker /\ Idle.pc = "idle" /\ Idle.obj = None
                    /\ \A i \in Inputs : Idle.got[i] = None
BY Zenon DEF Idle, Worker

\* Versions are ordered as UIDs and generations are.
LEMMA Versions ==
    /\ \A a : a.uid \in Nat /\ a.gen \in Nat => NotLater(a, a)
    /\ \A a, b, c : /\ a.uid \in Nat /\ a.gen \in Nat /\ b.uid \in Nat /\ b.gen \in Nat
                    /\ c.uid \in Nat /\ c.gen \in Nat
                    /\ NotLater(a, b) /\ NotLater(b, c)
                    => NotLater(a, c)
BY DEF NotLater

\* A record merged of records is a record.
LEMMA MergedType ==
    ASSUME NEW base \in Accepted \cup {None}, NEW new \in Accepted \cup {None},
           NEW cur \in Accepted \cup {None}
    PROVE  MergedRecord(base, new, cur) \in Accepted \cup {None}
BY Zenon DEF MergedRecord, Accepted

\* A patch changes conditions and record, and nothing that versions an object.
LEMMA WritesTypes ==
    ASSUME ruleSet \in RuleSet, worker.obj \in RuleSet,
           NEW conds \in Conditions, NEW accepted \in Accepted \cup {None},
           Writes(conds, accepted)
    PROVE  /\ ruleSet' \in RuleSet
           /\ ruleSet'.uid = ruleSet.uid /\ ruleSet'.gen = ruleSet.gen
           /\ ruleSet'.exists = ruleSet.exists
           /\ ruleSet'.conds = MergedConditions(worker.obj.conds, conds, ruleSet.conds)
           /\ ruleSet'.accepted = MergedRecord(worker.obj.accepted, accepted, ruleSet.accepted)
           /\ ruleSet'.crossed = (ruleSet.crossed \/ Crosses(worker.obj, accepted))
<1> DEFINE mc == MergedConditions(worker.obj.conds, conds, ruleSet.conds)
           mr == MergedRecord(worker.obj.accepted, accepted, ruleSet.accepted)
           cr == ruleSet.crossed \/ Crosses(worker.obj, accepted)
<1>1. mc \in Conditions
  BY Zenon DEF MergedConditions, RuleSet
<1>2. mr \in Accepted \cup {None}
  BY MergedType, Zenon DEF RuleSet
<1>3. cr \in BOOLEAN
  OBVIOUS
<1>4. ruleSet' = [ruleSet EXCEPT !.conds = mc, !.accepted = mr, !.crossed = cr]
  BY Zenon DEF Writes
<1> HIDE DEF mc, mr, cr
<1>5. /\ ruleSet' \in RuleSet
      /\ ruleSet'.uid = ruleSet.uid /\ ruleSet'.gen = ruleSet.gen
      /\ ruleSet'.exists = ruleSet.exists
      /\ ruleSet'.conds = mc /\ ruleSet'.accepted = mr /\ ruleSet'.crossed = cr
  BY <1>1, <1>2, <1>3, <1>4, Zenon DEF RuleSet
<1> QED
  BY <1>5, Zenon DEF mc, mr, cr

\* Back to idle, with a RuleSet of the same version.
LEMMA IdleTypes ==
    ASSUME TypeInv, worker' = Idle, ruleSet' \in RuleSet,
           ruleSet'.uid = ruleSet.uid, ruleSet'.gen = ruleSet.gen,
           UNCHANGED <<build, input, due, checking, cache, unseen>>,
           changes' \in 0..MaxChanges, queued' \in BOOLEAN
    PROVE  TypeInv'
<1>1. AcceptanceTypeOK'
  BY IdleFormed, Zenon DEF TypeInv, AcceptanceTypeOK
<1>2. Formed'
  BY IdleFormed, Zenon DEF Formed, At, Judged
<1>3. Ordered'
  BY IdleFormed, Zenon DEF TypeInv, Ordered, NotLater
<1> QED
  BY <1>1, <1>2, <1>3, Zenon DEF TypeInv

\* What going on does to the worker's state.
LEMMA GoingOn ==
    ASSUME TypeInv, Reads \/ Passes \/ Returns \/ Rereads
    PROVE  /\ worker' \in Worker /\ worker'.obj = worker.obj
           /\ Reads \/ (worker'.got = worker.got /\ worker'.whole = worker.whole)
<1>1. worker \in Worker /\ input \in [Inputs -> Input]
  BY Zenon DEF TypeInv, AcceptanceTypeOK
<1>2. CASE Reads
  <2> DEFINE i == Reading[worker.next]
             wh == /\ worker.next = Len(Reading) /\ (SameRuleSet(cache) \/ SameRuleSet(ruleSet))
                   /\ \A x \in Inputs \ {i} : SameInput(x)
             p == IF worker.next = Len(Reading) THEN "judge" ELSE "load"
             g == [worker.got EXCEPT ![i] = input[i]]
  <2>1. worker.next \in 1..Len(Reading)
    BY <1>2, Zenon DEF TypeInv, Formed, Reads
  <2>2. i \in Inputs
    BY <2>1, Loops, Zenon
  <2>3. wh \in BOOLEAN /\ p \in {"judge", "load"}
    OBVIOUS
  <2>4. g \in [Inputs -> Input \cup {None}]
    BY <1>1, <2>2, Zenon DEF Worker
  <2>5. worker' = [worker EXCEPT !.got = g, !.next = @ + 1, !.pc = p, !.whole = wh]
    BY <1>1, <1>2, Zenon DEF Reads, Worker
  <2> HIDE DEF wh, i, p, g
  <2>6. worker.next + 1 \in Nat
    BY <1>1 DEF Worker
  <2> QED
    BY <1>1, <1>2, <2>3, <2>4, <2>5, <2>6, Zenon DEF Worker
<1>3. CASE Passes
  BY <1>1, <1>3, Zenon DEF Passes, Worker
<1>4. CASE Returns
  BY <1>1, <1>4, Zenon DEF Returns, Worker
<1>5. CASE Rereads
  <2> DEFINE p == IF worker.next = Len(Rereading) THEN "patch" ELSE "recheck"
  <2>1. p \in {"patch", "recheck"}
    OBVIOUS
  <2>2. worker' = [worker EXCEPT !.next = @ + 1, !.pc = p]
    BY <1>5, Zenon DEF Rereads
  <2>3. worker.next + 1 \in Nat
    BY <1>1 DEF Worker
  <2> HIDE DEF p
  <2> QED
    BY <1>1, <2>1, <2>2, <2>3, Zenon DEF Worker
<1> QED
  BY <1>2, <1>3, <1>4, <1>5, Zenon

\* A reconcile that goes on holds what it had read so far.
LEMMA GoingOnTypes ==
    ASSUME TypeInv, Reads \/ Passes \/ Returns \/ Rereads,
           UNCHANGED <<build, input, due, checking, cache, unseen>>,
           changes' \in 0..MaxChanges, queued' \in BOOLEAN
    PROVE  TypeInv'
<1>1. worker \in Worker /\ input \in [Inputs -> Input] /\ ruleSet' = ruleSet
  BY Zenon DEF TypeInv, AcceptanceTypeOK, Reads, Passes, Returns, Rereads
<1>2. worker' \in Worker /\ worker'.obj = worker.obj
  BY GoingOn, Zenon
<1>3. AcceptanceTypeOK'
  BY <1>1, <1>2, Zenon DEF TypeInv, AcceptanceTypeOK
<1>4. worker.obj # None
  BY Zenon DEF TypeInv, Formed, Reads, Passes, Returns, Rereads, At
<1>5. CASE Reads
  <2> DEFINE i == Reading[worker.next]
  <2>1. worker.next \in 1..Len(Reading) /\ i \in Inputs /\ worker.next + 1 \in Nat
    BY <1>1, <1>5, Loops DEF TypeInv, Formed, Reads, Worker
  <2>2. worker'.got = [worker.got EXCEPT ![i] = input[i]] /\ worker'.next = worker.next + 1
        /\ worker'.pc = IF worker.next = Len(Reading) THEN "judge" ELSE "load"
    BY <1>1, <1>5, Zenon DEF Reads, Worker
  <2>3. input[i] \in Input /\ input[i] # None /\ input[i].text \in TextsOf[i]
    BY <1>1, <1>5, <2>1, AcceptanceAssumption DEF TypeInv, Ordered, Reads
  <2>4. \A j \in 1..worker.next : worker'.got[Reading[j]] # None
    <3> TAKE j \in 1..worker.next
    <3>1. Reading[j] \in Inputs
      BY <2>1, Loops
    <3>2. CASE Reading[j] = i
      BY <1>1, <2>1, <2>2, <2>3, <3>2, Zenon DEF Worker
    <3>3. CASE Reading[j] # i
      <4>1. worker.got[Reading[j]] # None
        BY <1>5, <2>1, <3>3 DEF TypeInv, Formed, Reads
      <4> QED
        BY <1>1, <2>2, <3>1, <3>3, <4>1, Zenon DEF Worker
    <3> QED
      BY <3>2, <3>3, Zenon
  <2>5. Formed'
    <3>1. CASE worker.next = Len(Reading)
      BY <1>2, <1>4, <2>2, <2>4, <3>1, Loops DEF Formed, At, Judged
    <3>2. CASE worker.next # Len(Reading)
      <4>0. Len(Reading) \in Nat
        BY Loops, Zenon
      <4>1. worker'.next \in 1..Len(Reading) /\ worker'.next - 1 = worker.next
        BY <2>1, <2>2, <3>2, <4>0
      <4> QED
        BY <1>2, <1>4, <2>2, <2>4, <3>2, <4>1, Zenon DEF Formed, At, Judged
    <3> QED
      BY <3>1, <3>2, Zenon
  <2>6. NotLater(input[i], input[i])
    BY <2>3, Versions, Zenon DEF Input
  <2>7. \A k \in Inputs : worker'.got[k] = IF k = i THEN input[i] ELSE worker.got[k]
    BY <1>1, <2>1, <2>2, Zenon DEF Worker
  <2>8. Ordered'
    BY <1>1, <1>2, <2>3, <2>6, <2>7, Zenon DEF TypeInv, Ordered, NotLater
  <2> QED
    BY <1>3, <2>5, <2>8, Zenon DEF TypeInv
<1>6. CASE ~Reads
  <2>1. worker'.got = worker.got
    BY <1>6, GoingOn, Zenon
  <2>2. Ordered'
    BY <1>1, <1>2, <2>1, Zenon DEF TypeInv, Ordered, NotLater
  <2>3. \A k \in Inputs : worker'.got[k] # None
    BY <1>6, <2>1, Zenon DEF TypeInv, Formed, Judged, At, Passes, Returns, Rereads
  <2>4. worker'.pc \in Passed
    BY <1>1, <1>6, Zenon DEF Passes, Returns, Rereads, Worker, Passed
  <2>5. worker'.pc = "recheck" => worker'.next \in 1..Len(Rereading)
    <3>1. CASE Passes
      BY <1>1, <3>1, Zenon DEF Passes, Worker
    <3>2. CASE Returns
      BY <1>1, <3>2, Loops DEF Returns, Worker
    <3>3. CASE Rereads
      <4>1. worker.next \in 1..Len(Rereading)
        BY <3>3, Zenon DEF Rereads, TypeInv, Formed
      <4>2. worker'.next = worker.next + 1
            /\ worker'.pc = IF worker.next = Len(Rereading) THEN "patch" ELSE "recheck"
        BY <1>1, <3>3, Zenon DEF Rereads, Worker
      <4> QED
        BY <4>1, <4>2, Loops
    <3> QED
      BY <1>6, <3>1, <3>2, <3>3, Zenon
  <2>6. Formed'
    BY <1>2, <1>4, <2>3, <2>4, <2>5, Zenon DEF Formed, At, Passed
  <2> QED
    BY <1>3, <2>2, <2>6, Zenon DEF TypeInv
<1> QED
  BY <1>5, <1>6, Zenon

\* An input has become later, or is the version that it was.
Grows ==
    \A i \in Inputs :
       /\ NotLater(input[i], input'[i])
       /\ input'[i].text \in TextsOf[i] \cup {None}
       /\ /\ <<input'[i].uid, input'[i].gen>> = <<input[i].uid, input[i].gen>>
          /\ input'[i].text # None
          => input[i].text # None

\* Edits of inputs and the reconciles of RuleSources.
LEMMA InputsGrow ==
    ASSUME TypeInv,
           \/ \E i \in Inputs : \E t \in TextsOf[i] \cup {None} : EditInput(i, t)
           \/ \E s \in Range(Sources) : AnnotateSource(s) \/ SourceStep(s)
    PROVE  /\ UNCHANGED <<build, ruleSet, cache, unseen, worker>>
           /\ input' \in [Inputs -> Input] /\ due' \in SUBSET Range(Sources)
           /\ checking' \in [Range(Sources) -> Input \cup {None}]
           /\ queued' \in BOOLEAN /\ changes' \in 0..MaxChanges
           /\ Grows
<1>1. /\ input \in [Inputs -> Input] /\ due \in SUBSET Range(Sources)
      /\ checking \in [Range(Sources) -> Input \cup {None}]
      /\ queued \in BOOLEAN /\ changes \in 0..MaxChanges
      /\ \A i \in Inputs : input[i].text \in TextsOf[i] \cup {None}
  BY Zenon DEF TypeInv, AcceptanceTypeOK, Ordered
<1>2. \A i \in Inputs : NotLater(input[i], input[i])
  BY <1>1, Versions, Zenon DEF Input
<1>3. Changed => changes' \in 0..MaxChanges
  BY <1>1, AcceptanceAssumption DEF Changed
<1>4. ASSUME NEW i \in Inputs, NEW t \in TextsOf[i] \cup {None}, EditInput(i, t)
      PROVE  /\ input' \in [Inputs -> Input] /\ due' \in SUBSET Range(Sources) /\ Grows
             /\ queued' \in BOOLEAN
  <2> DEFINE n == IF t = None THEN [input[i] EXCEPT !.text = None]
                  ELSE IF input[i].text = None THEN NewInput(input[i].uid + 1, t)
                  ELSE [input[i] EXCEPT !.text = t, !.gen = input[i].gen + 1]
  <2>1. input' = [input EXCEPT ![i] = n] /\ t # input[i].text
    BY <1>1, <1>4, Zenon DEF EditInput
  <2>2. t \in Texts \cup {None}
    BY Zenon DEF Texts
  <2>3. /\ n \in Input /\ n.text = t /\ NotLater(input[i], n)
        /\ <<n.uid, n.gen>> = <<input[i].uid, input[i].gen>> => t = None
    <3>0. input[i] \in Input /\ input[i].uid \in Nat /\ input[i].gen \in Nat
      BY <1>1, Zenon DEF Input
    <3>1. CASE t = None
      BY <3>0, <3>1 DEF Input, NotLater
    <3>2. CASE t # None /\ input[i].text = None
      BY <3>0, <2>2, <3>2 DEF Input, NewInput, NotLater
    <3>3. CASE t # None /\ input[i].text # None
      <4>1. n = [input[i] EXCEPT !.text = t, !.gen = input[i].gen + 1]
        BY <3>3, Zenon
      <4> HIDE DEF n
      <4>0. input[i].gen + 1 \in Nat
        BY <3>0
      <4>2. n \in Input /\ n.text = t /\ n.uid = input[i].uid /\ n.gen = input[i].gen + 1
        BY <3>0, <2>2, <4>0, <4>1, Zenon DEF Input
      <4> QED
        BY <3>0, <4>2 DEF NotLater
    <3> QED
      BY <3>1, <3>2, <3>3, Zenon
  <2> HIDE DEF n
  <2>4. input' \in [Inputs -> Input]
        /\ \A k \in Inputs : input'[k] = IF k = i THEN n ELSE input[k]
    BY <1>1, <2>1, <2>3, Zenon
  <2>5. Grows
    BY <1>1, <1>2, <2>3, <2>4, Zenon DEF Grows
  <2>6. due' \in SUBSET Range(Sources) /\ queued' \in BOOLEAN
    BY <1>1, <1>4, Zenon DEF EditInput
  <2> QED
    BY <2>4, <2>5, <2>6, Zenon
<1>5. ASSUME NEW s \in Range(Sources), AnnotateSource(s) \/ PatchSource(s) \/ CheckSource(s)
      PROVE  /\ input' \in [Inputs -> Input] /\ due' \in SUBSET Range(Sources) /\ Grows
             /\ checking' \in [Range(Sources) -> Input \cup {None}] /\ queued' \in BOOLEAN
  <2>0. s \in Inputs /\ input[s] \in Input
    BY <1>1, Zenon DEF Inputs
  <2>1. CASE UNCHANGED input
    <3>1. Grows
      BY <1>1, <1>2, <2>1, Zenon DEF Grows
    <3> QED
      BY <1>1, <1>5, <2>0, <2>1, <3>1, Zenon
      DEF AnnotateSource, PatchSource, CheckSource, ruleSetVars
  <2>2. CASE AnnotateSource(s)
    <3>1. /\ input' \in [Inputs -> Input]
          /\ \A k \in Inputs : /\ input'[k].uid = input[k].uid /\ input'[k].gen = input[k].gen
                               /\ input'[k].text = input[k].text
      BY <1>1, <2>0, <2>2, Zenon DEF AnnotateSource, Input
    <3>2. Grows
      BY <1>1, <1>2, <3>1, Zenon DEF Grows, NotLater
    <3> QED
      BY <1>1, <2>2, <3>1, <3>2, Zenon DEF AnnotateSource
  <2>3. CASE PatchSource(s) /\ ~UNCHANGED input
    <3> DEFINE st == Outcome(checking[s])
    <3>1. st \in {"skipped", "validated", "invalid"} /\ checking[s] \in Input
      BY <1>1, <2>3, Zenon DEF Outcome, PatchSource
    <3>2. /\ input' = [input EXCEPT ![s].status = st, ![s].statusGen = checking[s].gen]
          /\ UNCHANGED due /\ queued' = TRUE /\ checking' = [checking EXCEPT ![s] = None]
      BY <2>3, Zenon DEF PatchSource
    <3>3. checking[s].gen \in Nat
      BY <3>1, Zenon DEF Input
    <3> HIDE DEF st
    <3>4. /\ input' \in [Inputs -> Input]
          /\ \A k \in Inputs : /\ input'[k].uid = input[k].uid /\ input'[k].gen = input[k].gen
                               /\ input'[k].text = input[k].text
      BY <1>1, <2>0, <3>1, <3>2, <3>3, Zenon DEF Input
    <3>5. Grows
      BY <1>1, <1>2, <3>4, Zenon DEF Grows, NotLater
    <3> QED
      BY <1>1, <3>2, <3>4, <3>5, Zenon
  <2> QED
    BY <1>5, <2>1, <2>2, <2>3, Zenon DEF CheckSource
<1> QED
  BY <1>1, <1>3, <1>4, <1>5, Zenon
     DEF EditInput, AnnotateSource, SourceStep, CheckSource, PatchSource, ruleSetVars

\* An edit makes the RuleSet later, and touches its status only by recreating it.
LEMMA RuleSetGrows ==
    ASSUME TypeInv, EditRuleSet
    PROVE  /\ ruleSet' \in RuleSet /\ NotLater(ruleSet, ruleSet')
           /\ \/ ruleSet' = NewRuleSet(ruleSet.uid + 1)
              \/ /\ ruleSet'.uid = ruleSet.uid /\ ruleSet'.gen >= ruleSet.gen
                 /\ ruleSet'.conds = ruleSet.conds /\ ruleSet'.accepted = ruleSet.accepted
                 /\ ruleSet'.crossed = ruleSet.crossed
                 /\ ruleSet'.exists => ruleSet.exists
           /\ UNCHANGED <<build, input, due, checking, cache, queued, worker>>
           /\ unseen' \in BOOLEAN /\ changes' \in 0..MaxChanges
<1>1. ruleSet \in RuleSet /\ ruleSet.uid \in Nat /\ ruleSet.gen \in Nat
  BY Zenon DEF TypeInv, AcceptanceTypeOK, RuleSet
<1>5. /\ UNCHANGED <<build, input, due, checking, cache, queued, worker>>
      /\ unseen' \in BOOLEAN
  BY Zenon DEF EditRuleSet, sourceVars, TypeInv, AcceptanceTypeOK
<1>6. changes' \in 0..MaxChanges
  BY AcceptanceAssumption DEF EditRuleSet, Changed, TypeInv, AcceptanceTypeOK
<1>2. CASE ruleSet' = NewRuleSet(ruleSet.uid + 1)
  <2>1. NewRuleSet(ruleSet.uid + 1) \in RuleSet
    BY <1>1 DEF NewRuleSet, RuleSet, NoConditions, Conditions
  <2>2. NewRuleSet(ruleSet.uid + 1).uid = ruleSet.uid + 1
    BY Zenon DEF NewRuleSet
  <2> QED
    BY <1>1, <1>2, <1>5, <1>6, <2>1, <2>2 DEF NotLater
<1>3. CASE /\ ruleSet.exists
           /\ ruleSet' = [ruleSet EXCEPT !.duplicates = ~@, !.gen = @ + 1]
  <2>1. ruleSet.gen + 1 \in Nat
    BY <1>1
  <2>2. /\ ruleSet' \in RuleSet /\ ruleSet'.uid = ruleSet.uid
        /\ ruleSet'.gen = ruleSet.gen + 1
        /\ ruleSet'.conds = ruleSet.conds /\ ruleSet'.accepted = ruleSet.accepted
        /\ ruleSet'.crossed = ruleSet.crossed
    BY <1>1, <1>3, <2>1, Zenon DEF RuleSet
  <2> QED
    BY <1>1, <1>3, <1>5, <1>6, <2>2 DEF NotLater
<1>4. CASE /\ ruleSet.exists
           /\ ruleSet' \in {[ruleSet EXCEPT !.override = ~@], [ruleSet EXCEPT !.exists = FALSE]}
  <2>1. /\ ruleSet' \in RuleSet /\ ruleSet'.uid = ruleSet.uid
        /\ ruleSet'.gen = ruleSet.gen
        /\ ruleSet'.conds = ruleSet.conds /\ ruleSet'.accepted = ruleSet.accepted
        /\ ruleSet'.crossed = ruleSet.crossed
    BY <1>1, <1>4, Zenon DEF RuleSet
  <2> QED
    BY <1>1, <1>4, <1>5, <1>6, <2>1 DEF NotLater
<1> QED
  BY <1>2, <1>3, <1>4, Zenon DEF EditRuleSet

\* The start of a reconcile.
LEMMA Begins ==
    ASSUME NEW rs \in RuleSet, Begin(rs)
    PROVE  /\ worker' \in Worker /\ worker'.pc = "load" /\ worker'.obj = rs
           /\ worker'.next = 1 /\ \A i \in Inputs : worker'.got[i] = None
<1>1. Idle \in Worker /\ Idle.next = 1
  BY IdleFormed, Zenon DEF Idle
<1>2. worker' = [Idle EXCEPT !.pc = "load", !.obj = rs]
  BY Zenon DEF Begin
<1> QED
  BY <1>1, <1>2, IdleFormed, Zenon DEF Worker

\* A reconcile starts from the cache, or from the status it has just initialized.
LEMMA ReconcileStarts ==
    ASSUME TypeInv, ReconcileRuleSet
    PROVE  /\ ruleSet' \in RuleSet
           /\ ruleSet'.uid = ruleSet.uid /\ ruleSet'.gen = ruleSet.gen
           /\ ruleSet'.exists = ruleSet.exists
           /\ ruleSet'.accepted = ruleSet.accepted /\ ruleSet'.crossed = ruleSet.crossed
           /\ UNCHANGED <<build, input, due, checking, cache, unseen, changes>>
           /\ queued' = FALSE /\ At("idle")
           /\ \/ UNCHANGED <<ruleSet, worker>>
              \/ UNCHANGED ruleSet /\ Begin(cache) /\ cache.conds # NoConditions
              \/ /\ Begin(ruleSet') /\ cache.conds = NoConditions
                 /\ ruleSet'.conds # NoConditions /\ ruleSet'.conds.reason \notin Accepting
<1>1. ruleSet \in RuleSet /\ cache \in RuleSet /\ cache.gen \in Nat
  BY Zenon DEF TypeInv, AcceptanceTypeOK, RuleSet
<1>2. CASE initializeStatus
  <2> DEFINE c == Progressing(NoConditions, cache.gen, "reconciling")
  <2>1. NoConditions \in Conditions /\ NoConditions.reason = "none"
    BY Zenon DEF NoConditions, Conditions
  <2>2. c \in Conditions /\ c.reason \notin Accepting \cup {"none"}
    BY <1>1, <2>1, WrittenConditions, Zenon
  <2>3. ruleSet' = [ruleSet EXCEPT !.conds = c] /\ Begin(ruleSet')
    BY <1>2, Zenon DEF initializeStatus
  <2> HIDE DEF c
  <2>4. /\ ruleSet' \in RuleSet
        /\ ruleSet'.uid = ruleSet.uid /\ ruleSet'.gen = ruleSet.gen
        /\ ruleSet'.exists = ruleSet.exists
        /\ ruleSet'.accepted = ruleSet.accepted /\ ruleSet'.crossed = ruleSet.crossed
        /\ ruleSet'.conds = c
    BY <1>1, <2>2, <2>3, Zenon DEF RuleSet
  <2>5. c # NoConditions
    BY <2>1, <2>2, Zenon
  <2> QED
    BY <1>2, <2>2, <2>3, <2>4, <2>5, Zenon DEF ReconcileRuleSet, sourceVars
<1> QED
  BY <1>1, <1>2, Zenon DEF ReconcileRuleSet, sourceVars

\* The newly created objects are well formed, and the cache is what was listed.
LEMMA TypeInit == Init => TypeInv
<1> SUFFICES ASSUME Init
             PROVE  TypeInv
  OBVIOUS
<1>1. PICK c \in Content : input = [i \in Inputs |-> NewInput(1, c[i])]
  BY Zenon DEF Init
<1>2. \A i \in Inputs : c[i] \in TextsOf[i] /\ c[i] \in Texts
  BY Zenon DEF Content
<1>3. \A i \in Inputs : input[i] \in Input /\ input[i].text \in TextsOf[i]
  BY <1>1, <1>2, Zenon DEF NewInput, Input
<1>4. ruleSet \in RuleSet /\ NotLater(ruleSet, ruleSet)
  BY DEF Init, NewRuleSet, RuleSet, NoConditions, Conditions, NotLater
<1>5. AcceptanceTypeOK
  <2>1. input \in [Inputs -> Input]
    BY <1>1, <1>3, Zenon
  <2>2. build \in 1..MaxBuild /\ changes \in 0..MaxChanges
    BY AcceptanceAssumption DEF Init
  <2>3. checking \in [Range(Sources) -> Input \cup {None}]
    BY Zenon DEF Init
  <2> QED
    BY <1>4, <2>1, <2>2, <2>3, IdleFormed, Zenon DEF Init, AcceptanceTypeOK
<1>6. Formed /\ Ordered
  BY <1>3, <1>4, IdleFormed, Zenon DEF Init, Formed, Ordered, At, Judged
<1> QED
  BY <1>5, <1>6, Zenon DEF TypeInv

\* An input may be edited, annotated or deleted under a reconcile: what was read of it is
\* then an earlier version.
LEMMA InputTypes ==
    ASSUME TypeInv, Grows, UNCHANGED <<build, ruleSet, cache, unseen, worker>>,
           input' \in [Inputs -> Input], due' \in SUBSET Range(Sources),
           checking' \in [Range(Sources) -> Input \cup {None}],
           queued' \in BOOLEAN, changes' \in 0..MaxChanges
    PROVE  TypeInv'
<1>1. AcceptanceTypeOK' /\ Formed'
  BY Zenon DEF TypeInv, AcceptanceTypeOK, Formed, At
<1>2. ASSUME NEW i \in Inputs, worker.got[i] # None
      PROVE  worker.got[i].text \in TextsOf[i] /\ NotLater(worker.got[i], input'[i])
  <2>1. worker.got[i] \in Input /\ input[i] \in Input /\ input'[i] \in Input
    BY <1>2, Zenon DEF TypeInv, AcceptanceTypeOK, Worker
  <2>2. NotLater(worker.got[i], input[i]) /\ NotLater(input[i], input'[i])
    BY <1>2, Zenon DEF TypeInv, Ordered, Grows
  <2>3. NotLater(worker.got[i], input'[i])
    BY <2>1, <2>2, Versions, Zenon DEF Input
  <2> QED
    BY <1>2, <2>3, Zenon DEF TypeInv, Ordered
<1>3. Ordered'
  BY <1>2, Zenon DEF TypeInv, Ordered, Grows, NotLater
<1> QED
  BY <1>1, <1>3, Zenon DEF TypeInv

\* The same of the RuleSet.
LEMMA EditTypes ==
    ASSUME TypeInv, EditRuleSet
    PROVE  TypeInv'
<1>1. ruleSet' \in RuleSet /\ NotLater(ruleSet, ruleSet')
      /\ UNCHANGED <<build, input, due, checking, cache, queued, worker>>
      /\ unseen' \in BOOLEAN /\ changes' \in 0..MaxChanges
  BY RuleSetGrows, Zenon
<1>2. ruleSet \in RuleSet /\ cache \in RuleSet
      /\ (worker.obj # None => worker.obj \in RuleSet)
  BY Zenon DEF TypeInv, AcceptanceTypeOK, Worker
<1>3. NotLater(cache, ruleSet')
  BY <1>1, <1>2, Versions, Zenon DEF TypeInv, Ordered, RuleSet
<1>4. worker.obj # None => NotLater(worker.obj, ruleSet')
  BY <1>1, <1>2, Versions, Zenon DEF TypeInv, Ordered, RuleSet
<1>5. AcceptanceTypeOK' /\ Formed'
  BY <1>1, Zenon DEF TypeInv, AcceptanceTypeOK, Formed, At
<1>6. Ordered'
  BY <1>1, <1>3, <1>4, Zenon DEF TypeInv, Ordered, NotLater
<1> QED
  BY <1>5, <1>6, Zenon DEF TypeInv

\* The RuleSet informer catches up with the latest version.
LEMMA SyncTypes ==
    ASSUME TypeInv, SyncRuleSet
    PROVE  TypeInv'
<1>1. ruleSet.uid \in Nat /\ ruleSet.gen \in Nat
  BY Zenon DEF TypeInv, AcceptanceTypeOK, RuleSet
<1>2. AcceptanceTypeOK' /\ Formed'
  BY Zenon DEF TypeInv, AcceptanceTypeOK, Formed, At, SyncRuleSet, sourceVars
<1>3. Ordered'
  BY <1>1 DEF TypeInv, Ordered, NotLater, SyncRuleSet, sourceVars
<1> QED
  BY <1>2, <1>3, Zenon DEF TypeInv

\* A new process lists every object and holds nothing.
LEMMA RestartTypes ==
    ASSUME TypeInv, Restart
    PROVE  TypeInv'
<1>1. ruleSet.uid \in Nat /\ ruleSet.gen \in Nat
  BY Zenon DEF TypeInv, AcceptanceTypeOK, RuleSet
<1>2. build' \in 1..MaxBuild /\ changes' \in 0..MaxChanges
  BY AcceptanceAssumption DEF TypeInv, AcceptanceTypeOK, Restart, Changed
<1>3. AcceptanceTypeOK'
  BY <1>2, IdleFormed, Zenon DEF TypeInv, AcceptanceTypeOK, Restart
<1>4. Formed'
  BY IdleFormed, Zenon DEF Formed, At, Judged, Restart
<1>5. Ordered'
  BY <1>1, IdleFormed DEF TypeInv, Ordered, NotLater, Restart
<1> QED
  BY <1>3, <1>4, <1>5, Zenon DEF TypeInv

\* A reconcile starts from the cached RuleSet, its first status patch included.
LEMMA StartTypes ==
    ASSUME TypeInv, ReconcileRuleSet
    PROVE  TypeInv'
<1>1. ruleSet \in RuleSet /\ cache \in RuleSet /\ ruleSet' \in RuleSet
      /\ None \notin RuleSet
  BY ReconcileStarts, AcceptanceAssumption, Zenon DEF TypeInv, AcceptanceTypeOK
<1>2. /\ ruleSet'.uid = ruleSet.uid /\ ruleSet'.gen = ruleSet.gen
      /\ UNCHANGED <<build, input, due, checking, cache, unseen, changes>>
      /\ queued' = FALSE
  BY ReconcileStarts, Zenon
<1>3. CASE UNCHANGED worker
  <2>1. AcceptanceTypeOK' /\ Formed'
    BY <1>1, <1>2, <1>3, Zenon DEF TypeInv, AcceptanceTypeOK, Formed, At
  <2>2. Ordered'
    BY <1>2, <1>3, Zenon DEF TypeInv, Ordered, NotLater
  <2> QED
    BY <2>1, <2>2, Zenon DEF TypeInv
<1>4. ASSUME NEW rs \in {cache, ruleSet'}, Begin(rs)
      PROVE  TypeInv'
  <2>1. /\ worker' \in Worker /\ worker'.pc = "load" /\ worker'.obj = rs
        /\ worker'.next = 1 /\ \A i \in Inputs : worker'.got[i] = None
    BY <1>1, <1>4, Begins, Zenon
  <2>2. AcceptanceTypeOK'
    BY <1>1, <1>2, <2>1, Zenon DEF TypeInv, AcceptanceTypeOK
  <2>3. Formed'
    BY <1>1, <2>1, Loops DEF Formed, At, Judged
  <2>4. NotLater(rs, ruleSet')
    BY <1>1, <1>2 DEF TypeInv, Ordered, NotLater, RuleSet
  <2>5. Ordered'
    BY <1>2, <2>1, <2>4, Zenon DEF TypeInv, Ordered, NotLater
  <2> QED
    BY <2>2, <2>3, <2>5, Zenon DEF TypeInv
<1> QED
  BY <1>3, <1>4, ReconcileStarts, Zenon

\* Each later step of a reconcile preserves the types.
LEMMA ReconcileTypes ==
    ASSUME TypeInv, Reconciles
    PROVE  TypeInv'
<1>1. /\ worker.obj \in RuleSet
      /\ UNCHANGED <<build, input, due, checking, cache, unseen>>
      /\ changes' \in 0..MaxChanges /\ queued' \in BOOLEAN
      /\ Kinds
  BY ReconcileKinds, Zenon
<1>2. ruleSet \in RuleSet /\ worker.obj.gen \in Nat /\ worker.obj.accepted \in Accepted \cup {None}
      /\ worker.obj.conds \in Conditions
  BY <1>1, Zenon DEF TypeInv, AcceptanceTypeOK, RuleSet
<1>3. CASE Gives
  BY <1>1, <1>2, <1>3, IdleTypes, Zenon DEF Gives
<1>4. ASSUME NEW c \in Conditions, NEW a \in Accepted \cup {None}, Writes(c, a)
      PROVE  TypeInv'
  <2>1. /\ ruleSet' \in RuleSet
        /\ ruleSet'.uid = ruleSet.uid /\ ruleSet'.gen = ruleSet.gen
    BY <1>1, <1>2, <1>4, WritesTypes, Zenon
  <2> QED
    BY <1>1, <1>4, <2>1, IdleTypes, Zenon DEF Writes
<1>5. ASSUME NEW c \in Conditions, Notes(c) \/ Withdraws(c)
      PROVE  TypeInv'
  BY <1>2, <1>4, <1>5, Zenon DEF Notes, Withdraws
<1>6. ASSUME NEW r \in Accepting, Accepts(r)
      PROVE  TypeInv'
  <2>1. content \in Content
    BY <1>6, ContentRead, Zenon DEF Accepts, At, Judged
  <2>2. [gen |-> worker.obj.gen, hash |-> content] \in Accepted
    BY <1>2, <2>1, Zenon DEF Accepted
  <2>3. Ready(worker.obj.gen, r) \in Conditions
    BY <1>2, WrittenConditions, Zenon
  <2> QED
    BY <1>4, <1>6, <2>2, <2>3, Zenon DEF Accepts
<1>7. CASE Reads \/ Passes \/ Returns \/ Rereads
  BY <1>1, <1>7, GoingOnTypes, Zenon
<1> QED
  BY <1>1, <1>3, <1>5, <1>6, <1>7, Zenon DEF Kinds

\* The steps of the system.
LEMMA NextSteps ==
    ASSUME [Next]_vars
    PROVE  \/ UNCHANGED vars
           \/ \E i \in Inputs : \E t \in TextsOf[i] \cup {None} : EditInput(i, t)
           \/ \E s \in Range(Sources) : AnnotateSource(s) \/ SourceStep(s)
           \/ EditRuleSet \/ SyncRuleSet \/ Restart \/ ReconcileRuleSet \/ Reconciles
BY Zenon DEF Next, RuleSetStep, Reconciles

\* Every step preserves the types and the order of the versions.
LEMMA TypeStep == TypeInv /\ [Next]_vars => TypeInv'
<1> SUFFICES ASSUME TypeInv, [Next]_vars
             PROVE  TypeInv'
  OBVIOUS
<1>1. CASE UNCHANGED vars
  <2>1. UNCHANGED <<build, input, due, checking, ruleSet, cache, unseen, queued, worker, changes>>
    BY <1>1, Zenon DEF vars, sourceVars, ruleSetVars
  <2> QED
    BY <2>1 DEF TypeInv, AcceptanceTypeOK, Formed, Ordered, At, NotLater
<1>2. CASE \/ \E i \in Inputs : \E t \in TextsOf[i] \cup {None} : EditInput(i, t)
           \/ \E s \in Range(Sources) : AnnotateSource(s) \/ SourceStep(s)
  BY <1>2, InputsGrow, InputTypes, Zenon
<1> QED
  BY <1>1, <1>2, NextSteps, EditTypes, SyncTypes, RestartTypes, StartTypes, ReconcileTypes, Zenon

\* Conditions, records and what a reconcile holds are well formed: patches merged field by
\* field into a later RuleSet, the loops over the inputs and the verdict on what they read.
THEOREM AcceptanceTypeCorrect == Spec => []AcceptanceTypeOK
<1>1. TypeInv => AcceptanceTypeOK
  BY Zenon DEF TypeInv
<1> QED
  BY <1>1, TypeInit, TypeStep, PTL DEF Spec

------------------------------------------------------------------------------
(***************************************************************************)
(* What is accepted was one configuration.                                  *)
(***************************************************************************)

\* An input that has moved on since it was read does not come back.
LEMMA InputGone ==
    ASSUME TypeInv, Grows, input' \in [Inputs -> Input], UNCHANGED worker,
           NEW i \in Inputs, worker.got[i] # None, SameInput(i)'
    PROVE  SameInput(i)
<1>1. worker.got[i] \in Input /\ input[i] \in Input /\ input'[i] \in Input
  BY Zenon DEF TypeInv, AcceptanceTypeOK, Worker
<1>2. NotLater(worker.got[i], input[i]) /\ NotLater(input[i], input'[i])
  BY Zenon DEF TypeInv, Ordered, Grows
<1>3. /\ input'[i].text # None
      /\ input'[i].uid = worker.got[i].uid /\ input'[i].gen = worker.got[i].gen
  BY Zenon DEF SameInput
<1>4. /\ input[i].uid = worker.got[i].uid /\ input[i].gen = worker.got[i].gen
  BY <1>1, <1>2, <1>3 DEF NotLater, Input
<1>5. input[i].text # None
  BY <1>3, <1>4, Zenon DEF Grows
<1> QED
  BY <1>4, <1>5, Zenon DEF SameInput

\* Nor does a RuleSet.
LEMMA RuleSetStaysGone ==
    ASSUME TypeInv, EditRuleSet, worker.obj # None, RuleSetGone
    PROVE  RuleSetGone'
<1>1. worker.obj \in RuleSet /\ ruleSet \in RuleSet /\ ruleSet' \in RuleSet
      /\ UNCHANGED <<cache, worker>>
  BY RuleSetGrows, Zenon DEF TypeInv, AcceptanceTypeOK, Worker
<1>2. NotLater(worker.obj, ruleSet)
  BY Zenon DEF TypeInv, Ordered
<1>3. ~SameRuleSet(cache)'
  BY <1>1, Zenon DEF RuleSetGone, SameRuleSet
<1>4. CASE ruleSet' = NewRuleSet(ruleSet.uid + 1)
  <2>1. ruleSet'.uid = ruleSet.uid + 1
    BY <1>4, Zenon DEF NewRuleSet
  <2>2. worker.obj.uid <= ruleSet.uid /\ worker.obj.uid \in Nat /\ ruleSet.uid \in Nat
    BY <1>1, <1>2 DEF NotLater, RuleSet
  <2>3. worker'.obj.uid # ruleSet'.uid
    BY <1>1, <2>1, <2>2
  <2> QED
    BY <1>3, <2>3, Zenon DEF RuleSetGone, SameRuleSet
<1>5. CASE /\ ruleSet'.uid = ruleSet.uid /\ ruleSet'.gen >= ruleSet.gen
           /\ ruleSet'.exists => ruleSet.exists
  <2>1. /\ worker.obj.uid \in Nat /\ ruleSet.uid \in Nat
        /\ worker.obj.gen \in Nat /\ ruleSet.gen \in Nat /\ ruleSet'.gen \in Nat
    BY <1>1, Zenon DEF RuleSet
  <2>2. SameRuleSet(ruleSet)' => SameRuleSet(ruleSet)
    BY <1>1, <1>2, <1>5, <2>1 DEF SameRuleSet, NotLater
  <2> QED
    BY <1>3, <2>2, Zenon DEF RuleSetGone
<1> QED
  BY <1>4, <1>5, RuleSetGrows, Zenon

\* A step that leaves the worker alone, and brings nothing back, keeps Wholeness.
LEMMA WholenessKept ==
    ASSUME TypeInv, Wholeness, UNCHANGED worker,
           worker.pc \in Judged /\ RuleSetGone => RuleSetGone',
           \A i \in Inputs : worker.got[i] # None /\ SameInput(i)' => SameInput(i)
    PROVE  Wholeness'
<1>1. worker.pc \in Judged => \A i \in Inputs : SameInput(i)' => SameInput(i)
  BY Zenon DEF TypeInv, Formed
<1>2. CASE worker.pc \in {"judge", "recheckRuleSet"}
  BY <1>1, <1>2, Zenon DEF Wholeness, At, Judged
<1>3. CASE At("recheck")
  <2>1. worker.next \in 1..Len(Rereading)
    BY <1>3, Zenon DEF TypeInv, Formed
  <2>2. \A j \in worker.next..Len(Rereading) : SameInput(Rereading[j])' => SameInput(Rereading[j])
    BY <1>1, <1>3, <2>1, Loops DEF At, Judged
  <2>3. worker.whole \/ \E j \in worker.next..Len(Rereading) : ~SameInput(Rereading[j])
    BY <1>3, Zenon DEF Wholeness
  <2>4. worker'.whole \/ \E j \in worker'.next..Len(Rereading) : ~SameInput(Rereading[j])'
    BY <2>2, <2>3, Zenon
  <2>5. worker'.pc = "recheck"
    BY <1>3, Zenon DEF At
  <2> QED
    BY <2>4, <2>5, Zenon DEF Wholeness, At
<1>4. CASE worker.pc \notin {"judge", "recheckRuleSet", "recheck"}
  BY <1>4, Zenon DEF Wholeness, At
<1> QED
  BY <1>2, <1>3, <1>4, Zenon DEF At

\* The read that completes the inputs leaves one configuration, or an input that has moved
\* on since it was read (checkAggregatedInputsCurrent will meet it).
LEMMA WholenessReads ==
    ASSUME TypeInv, Reads, UNCHANGED <<input, cache>>
    PROVE  Wholeness'
<1> DEFINE i == Reading[worker.next]
           wh == /\ worker.next = Len(Reading) /\ (SameRuleSet(cache) \/ SameRuleSet(ruleSet))
                 /\ \A x \in Inputs \ {i} : SameInput(x)
<1>1. worker \in Worker
  BY Zenon DEF TypeInv, AcceptanceTypeOK
<1>2. worker.next \in 1..Len(Reading) /\ i \in Inputs
  BY Loops, Zenon DEF TypeInv, Formed, Reads
<1>3. /\ worker'.got = [worker.got EXCEPT ![i] = input[i]] /\ worker'.obj = worker.obj
      /\ worker'.pc = IF worker.next = Len(Reading) THEN "judge" ELSE "load"
      /\ worker'.whole = wh /\ UNCHANGED ruleSet
  BY <1>1, Zenon DEF Reads, Worker
<1>4. \A x \in Inputs \ {i} : worker'.got[x] = worker.got[x]
  BY <1>1, <1>2, <1>3, Zenon DEF Worker
<1> HIDE DEF i
<1>5. \A x \in Inputs \ {i} : SameInput(x)' => SameInput(x)
  BY <1>4, Zenon DEF SameInput
<1>6. RuleSetGone => RuleSetGone'
  BY <1>3, Zenon DEF RuleSetGone, SameRuleSet
<1>7. CASE worker.next # Len(Reading)
  BY <1>3, <1>7, Zenon DEF Wholeness, At
<1>8. CASE worker.next = Len(Reading)
  <2>1. worker'.whole \/ RuleSetGone \/ \E x \in Inputs \ {i} : ~SameInput(x)
    BY <1>3, <1>8, Zenon DEF RuleSetGone
  <2>2. worker'.whole \/ RuleSetGone' \/ \E x \in Inputs : ~SameInput(x)'
    BY <1>5, <1>6, <2>1, Zenon
  <2>3. worker'.pc = "judge"
    BY <1>3, <1>8, Zenon
  <2> QED
    BY <2>2, <2>3, Zenon DEF Wholeness, At
<1> QED
  BY <1>7, <1>8, Zenon

\* A reread that finds its input unchanged leaves one fewer to have moved on.
LEMMA WholenessGoesOn ==
    ASSUME TypeInv, Wholeness, Passes \/ Returns \/ Rereads, UNCHANGED <<input, cache>>
    PROVE  Wholeness'
<1>1. worker \in Worker /\ UNCHANGED ruleSet
  BY Zenon DEF TypeInv, AcceptanceTypeOK, Passes, Returns, Rereads
<1>2. worker'.obj = worker.obj /\ worker'.got = worker.got /\ worker'.whole = worker.whole
  BY GoingOn, Zenon DEF Passes, Returns, Rereads, Reads, At
<1>3. \A x : SameInput(x)' <=> SameInput(x)
  BY <1>2, Zenon DEF SameInput
<1>4. RuleSetGone => RuleSetGone'
  BY <1>1, <1>2, Zenon DEF RuleSetGone, SameRuleSet
<1>5. CASE Passes
  <2>1. worker'.pc = "recheckRuleSet" /\ worker.pc = "judge"
    BY <1>1, <1>5, Zenon DEF Passes, Worker, At
  <2> QED
    BY <1>2, <1>3, <1>4, <2>1, Zenon DEF Wholeness, At
<1>6. CASE Returns
  <2>1. worker'.pc = "recheck" /\ worker'.next = 1 /\ worker.pc = "recheckRuleSet"
    BY <1>1, <1>6, Zenon DEF Returns, Worker, At
  <2>2. worker.whole \/ \E x \in Inputs : ~SameInput(x)
    BY <1>6, <2>1, Zenon DEF Wholeness, RuleSetGone, Returns
  <2>3. worker.whole \/ \E j \in 1..Len(Rereading) : ~SameInput(Rereading[j])
    BY <2>2, Loops
  <2> QED
    BY <1>2, <1>3, <2>1, <2>3, Zenon DEF Wholeness, At
<1>7. CASE Rereads
  <2>1. /\ worker'.next = worker.next + 1 /\ worker.pc = "recheck"
        /\ worker'.pc = IF worker.next = Len(Rereading) THEN "patch" ELSE "recheck"
    BY <1>1, <1>7, Zenon DEF Rereads, Worker, At
  <2>2. worker.next \in 1..Len(Rereading) /\ Len(Rereading) \in Nat
    BY <1>7, Loops, Zenon DEF TypeInv, Formed, Rereads
  <2>3. SameInput(Rereading[worker.next])
    BY <1>7, Zenon DEF Rereads
  <2>4. worker.whole \/ \E j \in worker.next..Len(Rereading) : ~SameInput(Rereading[j])
    BY <2>1, Zenon DEF Wholeness, At
  <2>5. worker.whole \/ \E j \in (worker.next + 1)..Len(Rereading) : ~SameInput(Rereading[j])
    BY <2>2, <2>3, <2>4
  <2>6. worker.next = Len(Rereading) => worker.whole
    BY <2>2, <2>5
  <2> QED
    BY <1>2, <1>3, <2>1, <2>5, <2>6, Zenon DEF Wholeness, At
<1> QED
  BY <1>5, <1>6, <1>7, Zenon

\* Every step preserves Wholeness: an edit moves an object on and never back.
LEMMA WholenessStep == TypeInv /\ Wholeness /\ [Next]_vars => Wholeness'
<1> SUFFICES ASSUME TypeInv, Wholeness, [Next]_vars
             PROVE  Wholeness'
  OBVIOUS
<1>1. CASE UNCHANGED vars
  <2>1. UNCHANGED <<input, ruleSet, cache, worker>>
    BY <1>1, Zenon DEF vars, sourceVars, ruleSetVars
  <2> QED
    BY <2>1, WholenessKept, Zenon DEF RuleSetGone, SameRuleSet, SameInput
<1>2. CASE \/ \E i \in Inputs : \E t \in TextsOf[i] \cup {None} : EditInput(i, t)
           \/ \E s \in Range(Sources) : AnnotateSource(s) \/ SourceStep(s)
  <2>1. Grows /\ input' \in [Inputs -> Input] /\ UNCHANGED <<ruleSet, cache, worker>>
    BY <1>2, InputsGrow, Zenon
  <2>2. \A i \in Inputs : worker.got[i] # None /\ SameInput(i)' => SameInput(i)
    BY <2>1, InputGone, Zenon
  <2>3. RuleSetGone => RuleSetGone'
    BY <2>1, Zenon DEF RuleSetGone, SameRuleSet
  <2> QED
    BY <2>1, <2>2, <2>3, WholenessKept, Zenon
<1>3. CASE EditRuleSet
  <2>1. UNCHANGED <<input, worker>>
    BY <1>3, RuleSetGrows, Zenon
  <2>2. worker.pc \in Judged => worker.obj # None
    BY Zenon DEF TypeInv, Formed, At, Judged
  <2>3. \A i \in Inputs : SameInput(i)' => SameInput(i)
    BY <2>1, Zenon DEF SameInput
  <2> QED
    BY <1>3, <2>1, <2>2, <2>3, RuleSetStaysGone, WholenessKept, Zenon
<1>4. CASE SyncRuleSet
  <2>1. UNCHANGED <<input, ruleSet, worker>> /\ cache' = ruleSet
    BY <1>4, Zenon DEF SyncRuleSet, sourceVars
  <2> QED
    BY <2>1, WholenessKept, Zenon DEF RuleSetGone, SameRuleSet, SameInput
<1>5. CASE worker' = Idle
  BY <1>5, IdleFormed, Zenon DEF Wholeness, At
<1>6. CASE ReconcileRuleSet
  <2>1. At("idle") /\ (UNCHANGED worker \/ \E rs \in RuleSet : Begin(rs))
    BY <1>6, ReconcileStarts, Zenon DEF TypeInv, AcceptanceTypeOK
  <2>2. worker'.pc \in {"idle", "load"}
    BY <2>1, Begins, Zenon DEF At
  <2> QED
    BY <2>2, Zenon DEF Wholeness, At
<1>7. CASE Reconciles
  <2>1. UNCHANGED <<input, cache>> /\ Kinds
    BY <1>7, ReconcileKinds, Zenon
  <2>2. worker' = Idle \/ Reads \/ Passes \/ Returns \/ Rereads
    BY <2>1, Zenon DEF Kinds, Gives, Notes, Withdraws, Accepts, Writes
  <2> QED
    BY <1>5, <2>1, <2>2, WholenessReads, WholenessGoesOn, Zenon
<1> QED
  BY <1>1, <1>2, <1>3, <1>4, <1>5, <1>6, <1>7, NextSteps, Zenon DEF Restart

\* What acceptRules records was one configuration, whatever is edited, deleted or recreated
\* while the inputs are read one after the other and read again by inputsChanged.
THEOREM AcceptedIsWhole == Spec => []AcceptedWhole
<1>1. Init => Wholeness
  BY IdleFormed, Zenon DEF Init, Wholeness, At
<1>2. Wholeness => AcceptedWhole
  BY Zenon DEF Wholeness, AcceptedWhole
<1> QED
  BY <1>1, <1>2, TypeInit, TypeStep, WholenessStep, PTL DEF Spec

------------------------------------------------------------------------------
(***************************************************************************)
(* What is recorded was let pass, and is withdrawn only when refused.       *)
(***************************************************************************)

\* A merged hash is one of the two that were merged.
LEMMA MergedHash ==
    ASSUME NEW base \in Accepted \cup {None}, NEW new \in Accepted \cup {None},
           NEW cur \in Accepted \cup {None}, MergedRecord(base, new, cur) # None
    PROVE  \/ cur # None /\ MergedRecord(base, new, cur).hash = cur.hash
           \/ new # None /\ new # base /\ MergedRecord(base, new, cur).hash = new.hash
BY Zenon DEF MergedRecord, Accepted

\* What a patch does to the record.
LEMMA RecordSteps ==
    ASSUME TypeInv, Reconciles
    PROVE  \/ ruleSet'.accepted = ruleSet.accepted
           \/ /\ ruleSet'.accepted = None
              /\ worker.obj.accepted # None /\ Refuses(worker.obj.accepted.hash)
           \/ /\ At("patch") /\ ruleSet'.accepted # None
              /\ \/ ruleSet'.accepted.hash = content
                 \/ ruleSet.accepted # None /\ ruleSet'.accepted.hash = ruleSet.accepted.hash
<1>1. worker.obj \in RuleSet /\ Kinds /\ ruleSet \in RuleSet
  BY ReconcileKinds, Zenon DEF TypeInv, AcceptanceTypeOK
<1>2. /\ worker.obj.accepted \in Accepted \cup {None} /\ worker.obj.gen \in Nat
      /\ worker.obj.conds \in Conditions /\ ruleSet.accepted \in Accepted \cup {None}
  BY <1>1, Zenon DEF RuleSet
<1>3. CASE Gives \/ Reads \/ Passes \/ Returns \/ Rereads
  BY <1>3, Zenon DEF Gives, Reads, Passes, Returns, Rereads
<1>4. ASSUME NEW c \in Conditions, Notes(c)
      PROVE  ruleSet'.accepted = ruleSet.accepted
  <2>1. ruleSet'.accepted =
           MergedRecord(worker.obj.accepted, worker.obj.accepted, ruleSet.accepted)
    BY <1>1, <1>2, <1>4, WritesTypes, Zenon DEF Notes
  <2> QED
    BY <2>1, Zenon DEF MergedRecord
<1>5. ASSUME NEW c \in Conditions, Withdraws(c)
      PROVE  /\ ruleSet'.accepted = None
             /\ worker.obj.accepted # None /\ Refuses(worker.obj.accepted.hash)
  <2>1. ruleSet'.accepted = MergedRecord(worker.obj.accepted, None, ruleSet.accepted)
    BY <1>1, <1>5, WritesTypes, Zenon DEF Withdraws
  <2> QED
    BY <1>5, <2>1, Zenon DEF MergedRecord, Withdraws
<1>6. ASSUME NEW r \in Accepting, Accepts(r)
      PROVE  \/ ruleSet'.accepted = ruleSet.accepted
             \/ /\ At("patch") /\ ruleSet'.accepted # None
                /\ \/ ruleSet'.accepted.hash = content
                   \/ ruleSet.accepted # None /\ ruleSet'.accepted.hash = ruleSet.accepted.hash
  <2> DEFINE a == [gen |-> worker.obj.gen, hash |-> content]
  <2>1. content \in Content
    BY <1>6, ContentRead, Zenon DEF Accepts, At, Judged
  <2>2. a \in Accepted /\ a.hash = content /\ a # None
    BY <1>2, <2>1, AcceptanceAssumption DEF Accepted
  <2>3. Ready(worker.obj.gen, r) \in Conditions
    BY <1>2, WrittenConditions, Zenon
  <2>4. At("patch") /\ Writes(Ready(worker.obj.gen, r), a)
    BY <1>6, Zenon DEF Accepts
  <2> HIDE DEF a
  <2>5. ruleSet'.accepted = MergedRecord(worker.obj.accepted, a, ruleSet.accepted)
    BY <1>1, <2>2, <2>3, <2>4, WritesTypes, Zenon
  <2>6. ruleSet'.accepted # None \/ ruleSet'.accepted = ruleSet.accepted
    BY <1>2, <2>2, <2>5, AcceptanceAssumption DEF MergedRecord, Accepted
  <2> QED
    BY <1>2, <2>2, <2>4, <2>5, <2>6, MergedHash
<1> QED
  BY <1>1, <1>3, <1>4, <1>5, <1>6, Zenon DEF Kinds

\* Every step preserves Approval: only the patch that follows the checks writes a hash.
LEMMA ApprovalStep == TypeInv /\ Approval /\ [Next]_vars => Approval'
<1> SUFFICES ASSUME TypeInv, Approval, [Next]_vars
             PROVE  Approval'
  OBVIOUS
<1>0. build \in 1..MaxBuild /\ MaxBuild \in Nat
  BY AcceptanceAssumption, Zenon DEF TypeInv, AcceptanceTypeOK
<1>1. CASE UNCHANGED <<build, worker>> /\ ruleSet'.accepted \in {ruleSet.accepted, None}
  BY <1>1, Zenon DEF Approval, Approved, Lets, content
<1>2. UNCHANGED vars => UNCHANGED <<build, ruleSet, worker>>
  BY Zenon DEF vars, ruleSetVars
<1>3. EditRuleSet => UNCHANGED <<build, worker>> /\ ruleSet'.accepted \in {ruleSet.accepted, None}
  BY RuleSetGrows DEF NewRuleSet
<1>4. SyncRuleSet => UNCHANGED <<build, ruleSet, worker>>
  BY Zenon DEF SyncRuleSet
<1>5. CASE Restart
  <2>1. build' \in build..MaxBuild /\ worker' = Idle /\ UNCHANGED ruleSet
    BY <1>5, Zenon DEF Restart
  <2>2. 1..build \subseteq 1..build'
    BY <1>0, <2>1
  <2> QED
    BY <2>1, <2>2, IdleFormed, Zenon DEF Approval, Approved, Passed
<1>6. CASE ReconcileRuleSet
  <2>1. /\ UNCHANGED build /\ ruleSet'.accepted = ruleSet.accepted
        /\ At("idle") /\ (UNCHANGED worker \/ \E rs \in RuleSet : Begin(rs))
    BY <1>6, ReconcileStarts, Zenon DEF TypeInv, AcceptanceTypeOK
  <2>2. worker'.pc \in {"idle", "load"}
    BY <2>1, Begins, Zenon DEF At
  <2> QED
    BY <2>1, <2>2, Zenon DEF Approval, Approved, Passed
<1>7. CASE Reconciles
  <2>1. UNCHANGED build /\ Kinds
    BY <1>7, ReconcileKinds, Zenon
  <2>2. \A h : (Approved(h) => Approved(h)') /\ (Lets(h) => Approved(h)) /\ (Lets(h) => Lets(h)')
    BY <1>0, <2>1 DEF Approved, Lets
  <2>3. At("patch") => Lets(content)
    BY Zenon DEF Approval, At, Passed
  <2>4. ruleSet'.accepted # None => Approved(ruleSet'.accepted.hash)
    BY <1>7, <2>2, <2>3, RecordSteps, Zenon DEF Approval
  <2>5. ruleSet'.accepted # None => Approved(ruleSet.accepted.hash)'
    BY <2>1, <2>4, Zenon DEF Approved
  <2>6. worker'.pc \in Passed => Lets(content)'
    <3>1. CASE worker' = Idle
      BY <3>1, IdleFormed, Zenon DEF Passed
    <3>2. CASE Reads
      BY <3>2, Zenon DEF Reads, Passed, TypeInv, AcceptanceTypeOK, Worker
    <3>3. CASE Passes \/ Returns \/ Rereads
      <4>1. worker'.got = worker.got
        BY <3>3, GoingOn, Zenon DEF Passes, Returns, Rereads, Reads, At
      <4>2. Lets(content)
        BY <3>3, Zenon DEF Passes, Returns, Rereads, Approval, Passed, At
      <4> QED
        BY <2>1, <4>1, <4>2, Zenon DEF Lets, content
    <3> QED
      BY <2>1, <3>1, <3>2, <3>3, Zenon DEF Kinds, Gives, Notes, Withdraws, Accepts, Writes
  <2> QED
    BY <2>5, <2>6, Zenon DEF Approval
<1> QED
  BY <1>1, <1>2, <1>3, <1>4, <1>5, <1>6, <1>7, NextSteps, InputsGrow, Zenon

\* A new RuleSet has no record, and no worker has passed the checks.
LEMMA ApprovalInit == Init => Approval
<1> SUFFICES ASSUME Init
             PROVE  Approval
  OBVIOUS
<1>1. ruleSet.accepted = None
  BY Zenon DEF Init, NewRuleSet
<1>2. worker.pc = "idle"
  BY IdleFormed, Zenon DEF Init
<1>3. "idle" \notin Passed
  BY Zenon DEF Passed
<1> QED
  BY <1>1, <1>2, <1>3, Zenon DEF Approval

\* A recorded hash is that of a content which the aggregate checks of this or an earlier
\* build let pass, whatever stale reconciles merge into the status.
THEOREM AcceptedIsApproved == Spec => []AcceptedApproved
<1>1. Approval => AcceptedApproved
  BY Zenon DEF Approval, AcceptedApproved, Approved
<1> QED
  BY <1>1, ApprovalInit, TypeInit, TypeStep, ApprovalStep, PTL DEF Spec

\* The record of a RuleSet is withdrawn only by a reconcile that read a record whose
\* content its build refuses (markRulesInvalid).
THEOREM RecordIsKept == Spec => RecordKept
<1>1. TypeInv /\ [Next]_vars => [Withdrawal]_vars
  <2> SUFFICES ASSUME TypeInv, [Next]_vars,
                      ruleSet.accepted # None, ruleSet'.accepted = None, ruleSet'.uid = ruleSet.uid
               PROVE  worker.obj.accepted # None /\ Refuses(worker.obj.accepted.hash)
    BY Zenon DEF Withdrawal, Refuses
  <2>1. ruleSet.uid \in Nat
    BY Zenon DEF TypeInv, AcceptanceTypeOK, RuleSet
  <2>2. UNCHANGED vars => UNCHANGED ruleSet
    BY Zenon DEF vars, ruleSetVars
  <2>3. EditRuleSet => ruleSet'.accepted = ruleSet.accepted
    BY <2>1, RuleSetGrows DEF NewRuleSet
  <2>4. ReconcileRuleSet => ruleSet'.accepted = ruleSet.accepted
    BY ReconcileStarts, Zenon
  <2>5. Reconciles
    BY <2>2, <2>3, <2>4, NextSteps, InputsGrow, Zenon DEF SyncRuleSet, Restart
  <2> QED
    BY <2>5, RecordSteps, Zenon
<1> QED
  BY <1>1, TypeInit, TypeStep, PTL DEF Spec, RecordKept

------------------------------------------------------------------------------
(***************************************************************************)
(* A Ready condition comes with its record.                                 *)
(***************************************************************************)

\* Records speaks of the build, the RuleSet and what is known of it.
LEMMA RecordsKept ==
    ASSUME Records, UNCHANGED <<build, ruleSet, cache>>, worker'.obj \in {worker.obj, None}
    PROVE  Records'
BY Zenon DEF Records, Recorded, Since, Horizon, Refuses, Lets

\* Generations are ordered along the versions of one RuleSet.
LEMMA Generations ==
    ASSUME TypeInv
    PROVE  /\ ruleSet.gen \in Nat /\ ruleSet.uid \in Nat /\ cache.gen \in Nat /\ cache.uid \in Nat
           /\ cache.uid <= ruleSet.uid
           /\ cache.uid = ruleSet.uid => cache.gen <= ruleSet.gen
           /\ Horizon \in Nat /\ Horizon <= ruleSet.gen
           /\ worker.obj # None =>
                 /\ worker.obj.gen \in Nat /\ worker.obj.uid \in Nat
                 /\ worker.obj.uid <= ruleSet.uid
                 /\ worker.obj.uid = ruleSet.uid => worker.obj.gen <= ruleSet.gen
           /\ ruleSet.accepted # None => ruleSet.accepted.gen \in Nat
           /\ cache.accepted # None => cache.accepted.gen \in Nat
<1>1. /\ ruleSet \in RuleSet /\ cache \in RuleSet /\ (worker.obj # None => worker.obj \in RuleSet)
      /\ NotLater(cache, ruleSet) /\ (worker.obj # None => NotLater(worker.obj, ruleSet))
  BY Zenon DEF TypeInv, AcceptanceTypeOK, Worker, Ordered
<1> QED
  BY <1>1 DEF RuleSet, NotLater, Horizon, Accepted

\* An edit of the RuleSet keeps its record and conditions; a new RuleSet has neither.
LEMMA RecordsEdit ==
    ASSUME TypeInv, Records, EditRuleSet
    PROVE  Records'
<1>1. UNCHANGED <<build, cache, worker>> /\ ruleSet' \in RuleSet
  BY RuleSetGrows, Zenon
<1>2. CASE ruleSet' = NewRuleSet(ruleSet.uid + 1)
  <2>1. /\ ruleSet'.uid = ruleSet.uid + 1 /\ ruleSet'.conds = NoConditions
        /\ ruleSet'.accepted = None
    BY <1>2, Zenon DEF NewRuleSet
  <2>2. NoConditions.reason \notin Accepting
    BY Zenon DEF NoConditions, Accepting
  <2>3. cache'.uid # ruleSet'.uid /\ (worker'.obj # None => worker'.obj.uid # ruleSet'.uid)
    BY <1>1, <2>1, Generations
  <2> QED
    BY <2>1, <2>2, <2>3, Zenon DEF Records, Recorded
<1>3. CASE /\ ruleSet'.uid = ruleSet.uid /\ ruleSet'.gen >= ruleSet.gen
           /\ ruleSet'.conds = ruleSet.conds /\ ruleSet'.accepted = ruleSet.accepted
           /\ ruleSet'.crossed = ruleSet.crossed
  <2>1. Horizon' >= Horizon /\ Horizon' \in Nat
    BY <1>1, <1>3, Generations DEF Horizon, RuleSet
  <2>2. \A rs : Since(rs) => /\ Recorded(rs)
                             /\ rs.conds = NoConditions => rs.accepted = None
                             /\ rs.conds # NoConditions => ruleSet'.conds # NoConditions
                             /\ rs.accepted # None =>
                                   /\ rs.accepted.gen <= rs.gen
                                   /\ IF ruleSet'.accepted = None THEN Refuses(rs.accepted.hash)
                                      ELSE /\ \/ ruleSet'.accepted = rs.accepted
                                              \/ Lets(ruleSet'.accepted.hash)
                                           /\ rs.accepted.gen = rs.gen =>
                                                 ruleSet'.accepted.gen = rs.gen
    BY <1>3, Zenon DEF Since
  <2>3. Since(cache) => Since(cache)'
    BY <1>1, <2>2, Zenon DEF Since, Recorded, Refuses, Lets
  <2>4. Since(worker.obj) => Since(worker.obj)'
    BY <1>1, <2>2, Zenon DEF Since, Recorded, Refuses, Lets
  <2>5. Recorded(ruleSet) => Recorded(ruleSet)'
    BY <1>3, Zenon DEF Recorded
  <2>6. ruleSet.accepted # None /\ ruleSet.accepted.gen <= Horizon =>
           ruleSet'.accepted.gen <= Horizon'
    BY <1>3, <2>1, Generations
  <2>7. worker.obj # None /\ worker.obj.gen <= Horizon => worker'.obj.gen <= Horizon'
    BY <1>1, <2>1, Generations
  <2> QED
    BY <1>1, <1>3, <2>3, <2>4, <2>5, <2>6, <2>7, Zenon DEF Records
<1> QED
  BY <1>2, <1>3, RuleSetGrows, Zenon

\* The RuleSet is known as it is.
LEMMA SinceNow ==
    ASSUME TypeInv, Records, ~ruleSet.crossed
    PROVE  /\ Recorded(ruleSet)
           /\ ruleSet.conds = NoConditions => ruleSet.accepted = None
           /\ ruleSet.accepted # None => ruleSet.accepted.gen <= ruleSet.gen
<1>1. ruleSet.accepted # None => ruleSet.accepted.gen <= Horizon
  BY Zenon DEF Records
<1>2. ruleSet.accepted # None => ruleSet.accepted.gen <= ruleSet.gen
  BY <1>1, Generations
<1> QED
  BY <1>2, Zenon DEF Records

\* The informer catches up, alone or with a new process that holds nothing.
LEMMA RecordsList ==
    ASSUME TypeInv, Records, UNCHANGED ruleSet, cache' = ruleSet,
           worker'.obj = None \/ UNCHANGED <<build, worker>>
    PROVE  Records'
<1> SUFFICES ASSUME ~ruleSet.crossed
             PROVE  Records'
  BY Zenon DEF Records
<1>1. /\ Recorded(ruleSet)
      /\ ruleSet.conds = NoConditions => ruleSet.accepted = None
      /\ ruleSet.accepted # None => ruleSet.accepted.gen <= ruleSet.gen
  BY SinceNow, Zenon
<1>2. Recorded(ruleSet)' /\ Recorded(cache)'
  BY <1>1, Zenon DEF Recorded
<1>3. Since(cache)'
  BY <1>1, <1>2, Zenon DEF Since
<1>4. Horizon' = ruleSet.gen
  BY Zenon DEF Horizon
<1>5. ASSUME worker'.obj # None, worker'.obj.uid = ruleSet'.uid
      PROVE  /\ Since(worker.obj)'
             /\ ruleSet'.conds # NoConditions
             /\ worker'.obj.gen <= Horizon'
             /\ ruleSet'.accepted # None => ruleSet'.accepted.gen <= worker'.obj.gen
             /\ cache'.accepted # None => cache'.accepted.gen <= worker'.obj.gen
  <2>1. UNCHANGED <<build, worker>> /\ worker.obj # None /\ worker.obj.uid = ruleSet.uid
    BY <1>5, Zenon
  <2>2. /\ Since(worker.obj) /\ ruleSet.conds # NoConditions
        /\ ruleSet.accepted # None => ruleSet.accepted.gen <= worker.obj.gen
    BY <2>1, Zenon DEF Records
  <2>3. Since(worker.obj)'
    BY <2>1, <2>2, Zenon DEF Since, Recorded, Refuses, Lets
  <2> QED
    BY <1>4, <2>1, <2>2, <2>3, Generations, Zenon
<1> QED
  BY <1>1, <1>2, <1>3, <1>4, <1>5, Zenon DEF Records

\* The first status patch of a RuleSet without conditions finds no record (Reconcile).
LEMMA RecordsStart ==
    ASSUME TypeInv, Records, ReconcileRuleSet
    PROVE  Records'
<1>1. /\ UNCHANGED <<build, cache>>
      /\ ruleSet'.uid = ruleSet.uid /\ ruleSet'.gen = ruleSet.gen
      /\ ruleSet'.accepted = ruleSet.accepted /\ ruleSet'.crossed = ruleSet.crossed
      /\ ruleSet' \in RuleSet /\ cache \in RuleSet
  BY ReconcileStarts, Zenon DEF TypeInv, AcceptanceTypeOK
<1>2. CASE UNCHANGED <<ruleSet, worker>>
  BY <1>1, <1>2, RecordsKept, Zenon
<1>3. CASE UNCHANGED ruleSet /\ Begin(cache) /\ cache.conds # NoConditions
  <2>1. worker'.obj = cache
    BY <1>1, <1>3, Begins, Zenon
  <2>2. ASSUME ~ruleSet.crossed, cache.uid = ruleSet.uid
        PROVE  /\ Since(worker.obj)' /\ ruleSet.conds # NoConditions /\ cache.gen <= Horizon'
               /\ ruleSet.accepted # None => ruleSet.accepted.gen <= cache.gen
               /\ cache.accepted # None => cache.accepted.gen <= cache.gen
    <3>1. Since(cache) /\ Horizon = cache.gen /\ Horizon' = cache.gen
          /\ (ruleSet.accepted # None => ruleSet.accepted.gen <= Horizon)
      BY <1>1, <1>3, <2>2, Zenon DEF Records, Horizon
    <3>2. Since(worker.obj)'
      BY <1>1, <1>3, <2>1, <3>1, Zenon DEF Since, Recorded, Refuses, Lets
    <3> QED
      BY <1>3, <3>1, <3>2, Generations DEF Since
  <2>3. Since(cache) => Since(cache)'
    BY <1>1, <1>3, Zenon DEF Since, Recorded, Refuses, Lets
  <2>4. Recorded(ruleSet) => Recorded(ruleSet)'
    BY <1>3, Zenon DEF Recorded
  <2>5. Horizon' = Horizon
    BY <1>1, <1>3, Zenon DEF Horizon
  <2> QED
    BY <1>1, <1>3, <2>1, <2>2, <2>3, <2>4, <2>5, Zenon DEF Records
<1>4. CASE /\ Begin(ruleSet') /\ cache.conds = NoConditions
           /\ ruleSet'.conds # NoConditions /\ ruleSet'.conds.reason \notin Accepting
  <2> SUFFICES ASSUME ~ruleSet.crossed
               PROVE  Records'
    BY <1>1, Zenon DEF Records
  <2>1. worker'.obj = ruleSet'
    BY <1>1, <1>4, Begins, Zenon
  <2>2. ruleSet.accepted # None => ruleSet.accepted.gen <= ruleSet.gen
    BY SinceNow, Zenon
  <2>3. Recorded(ruleSet)' /\ Recorded(worker.obj)'
    BY <1>4, <2>1, Zenon DEF Recorded
  <2>4. Since(worker.obj)'
    BY <1>1, <1>4, <2>1, <2>2, <2>3, Zenon DEF Since
  <2>5. Horizon' = ruleSet.gen
    BY <1>1, <1>4, Zenon DEF Horizon
  <2>6. cache.uid = ruleSet.uid => cache.accepted = None /\ Since(cache)'
    BY <1>1, <1>4, Zenon DEF Records, Since, Recorded
  <2> QED
    BY <1>1, <1>4, <2>1, <2>2, <2>3, <2>4, <2>5, <2>6, Generations DEF Records
<1> QED
  BY <1>2, <1>3, <1>4, ReconcileStarts, Zenon

\* The record after an acceptance names the generation that was read, and it is the one
\* that was there or one that this build lets pass.
LEMMA AcceptedRecord ==
    ASSUME NEW base \in Accepted \cup {None}, NEW cur \in Accepted \cup {None},
           NEW new \in Accepted, NEW m, m = MergedRecord(base, new, cur),
           Lets(new.hash),
           base # None =>
              IF cur = None THEN Refuses(base.hash)
              ELSE /\ cur = base \/ Lets(cur.hash)
                   /\ base.gen = new.gen => cur.gen = new.gen
    PROVE  m # None /\ m.gen = new.gen /\ (m = cur \/ Lets(m.hash))
<1>1. new # None /\ \A h : ~(Lets(h) /\ Refuses(h))
  BY AcceptanceAssumption, Zenon DEF Lets, Refuses
<1>2. CASE new = base
  BY <1>1, <1>2, Zenon DEF MergedRecord
<1>3. CASE new # base /\ (base = None \/ cur = None)
  BY <1>1, <1>3, Zenon DEF MergedRecord
<1>4. CASE new # base /\ base # None /\ cur # None
  <2> DEFINE g == IF new.gen = base.gen THEN cur.gen ELSE new.gen
             h == IF new.hash = base.hash THEN cur.hash ELSE new.hash
  <2>1. m = [gen |-> g, hash |-> h]
    BY <1>1, <1>4, Zenon DEF MergedRecord
  <2>2. g = new.gen
    BY <1>4, Zenon
  <2>3. Lets(h)
    BY <1>4, Zenon
  <2>4. m.gen = g /\ m.hash = h
    BY <2>1
  <2>5. g \in Nat /\ h \in Content
    BY <1>4, Zenon DEF Accepted
  <2>6. m # None
    BY <2>1, <2>5, AcceptanceAssumption DEF Accepted
  <2> QED
    BY <2>2, <2>3, <2>4, <2>6, Zenon
<1> QED
  BY <1>2, <1>3, <1>4, Zenon

\* A patch keeps Records, if the record it leaves fits the condition it leaves and what
\* the cache says.
LEMMA RecordsWritten ==
    ASSUME TypeInv, Records, UNCHANGED <<build, cache>>, worker'.obj = None,
           ruleSet'.uid = ruleSet.uid, ruleSet'.gen = ruleSet.gen, ~ruleSet.crossed,
           ruleSet'.conds # NoConditions, Recorded(ruleSet)',
           ruleSet'.accepted # None => ruleSet'.accepted.gen <= Horizon,
           cache.uid = ruleSet.uid /\ cache.accepted # None =>
              IF ruleSet'.accepted = None THEN Refuses(cache.accepted.hash)
              ELSE /\ ruleSet'.accepted = cache.accepted \/ Lets(ruleSet'.accepted.hash)
                   /\ cache.accepted.gen = cache.gen => ruleSet'.accepted.gen = cache.gen
    PROVE  Records'
<1>1. Horizon' = Horizon
  BY Zenon DEF Horizon
<1>2. cache.uid = ruleSet.uid => Since(cache)'
  BY Zenon DEF Records, Since, Recorded, Refuses, Lets
<1> QED
  BY <1>1, <1>2, Zenon DEF Records

\* Every status patch of a reconcile keeps a Ready condition with its record.
LEMMA RecordsReconcile ==
    ASSUME TypeInv, Approval, Records, Reconciles
    PROVE  Records'
<1>1. /\ worker.obj \in RuleSet /\ ruleSet \in RuleSet /\ cache \in RuleSet
      /\ UNCHANGED <<build, cache>> /\ Kinds
  BY ReconcileKinds, Zenon DEF TypeInv, AcceptanceTypeOK
<1>2. /\ worker.obj.accepted \in Accepted \cup {None} /\ worker.obj.gen \in Nat
      /\ worker.obj.conds \in Conditions
      /\ ruleSet.accepted \in Accepted \cup {None} /\ ruleSet.crossed \in BOOLEAN
  BY <1>1, Zenon DEF RuleSet
<1>3. CASE Gives \/ Reads \/ Passes \/ Returns \/ Rereads
  <2>1. UNCHANGED ruleSet /\ worker'.obj \in {worker.obj, None}
    BY <1>3, GoingOn, IdleFormed, Zenon DEF Gives, Reads, Passes, Returns, Rereads
  <2> QED
    BY <1>1, <2>1, RecordsKept, Zenon
<1>4. ASSUME NEW c \in Conditions, NEW a \in Accepted \cup {None}, Writes(c, a),
             c # NoConditions,
             c.reason \notin Accepting \/ c.gen = worker.obj.gen,
             \/ a = worker.obj.accepted /\ c.reason \notin Accepting
             \/ /\ a = None /\ c.reason \notin Accepting /\ c # worker.obj.conds
                /\ worker.obj.accepted # None /\ Refuses(worker.obj.accepted.hash)
             \/ /\ a # None /\ a.gen = worker.obj.gen /\ Lets(a.hash)
                /\ c.reason \in Accepting
      PROVE  Records'
  <2> DEFINE obj == worker.obj
  <2>1. /\ ruleSet' \in RuleSet /\ ruleSet'.uid = ruleSet.uid /\ ruleSet'.gen = ruleSet.gen
        /\ ruleSet'.conds = MergedConditions(obj.conds, c, ruleSet.conds)
        /\ ruleSet'.accepted = MergedRecord(obj.accepted, a, ruleSet.accepted)
        /\ ruleSet'.crossed = (ruleSet.crossed \/ Crosses(obj, a))
    BY <1>1, <1>2, <1>4, WritesTypes, Zenon
  <2>2. worker'.obj = None
    BY <1>4, IdleFormed, Zenon DEF Writes
  <2> SUFFICES ASSUME ~ruleSet.crossed, ~Crosses(obj, a)
               PROVE  Records'
    BY <1>2, <2>1, Zenon DEF Records
  <2>3. obj.uid = ruleSet.uid /\ obj # None
    BY <1>1, AcceptanceAssumption, Zenon DEF Crosses
  <2>4. /\ Since(obj) /\ ruleSet.conds # NoConditions /\ obj.gen <= Horizon
        /\ ruleSet.accepted # None => ruleSet.accepted.gen <= Horizon
        /\ Recorded(ruleSet)
        /\ cache.uid = ruleSet.uid =>
              Since(cache) /\ (cache.accepted # None => cache.accepted.gen <= obj.gen)
    BY <2>3, Zenon DEF Records
  <2>5. ruleSet'.conds # NoConditions
    BY <1>4, <2>1, <2>4, Zenon DEF MergedConditions
  <2>6. CASE a = obj.accepted /\ c.reason \notin Accepting
    <3>1. ruleSet'.accepted = ruleSet.accepted
      BY <2>1, <2>6, Zenon DEF MergedRecord
    <3>2. Recorded(ruleSet)'
      BY <2>1, <2>4, <2>6, <3>1, Zenon DEF Recorded, MergedConditions
    <3> QED
      BY <1>1, <2>1, <2>2, <2>4, <2>5, <3>1, <3>2, RecordsWritten, Zenon DEF Since
  <2>7. CASE /\ a = None /\ c.reason \notin Accepting /\ c # obj.conds
             /\ obj.accepted # None /\ Refuses(obj.accepted.hash)
    <3>1. ruleSet'.accepted = None /\ ruleSet'.conds = c
      BY <2>1, <2>7, Zenon DEF MergedRecord, MergedConditions
    <3>2. ruleSet.accepted \in {obj.accepted, None}
      BY <2>7, Zenon DEF Crosses
    <3>3. cache.uid = ruleSet.uid /\ cache.accepted # None => Refuses(cache.accepted.hash)
      BY <2>4, <2>7, <3>2, Zenon DEF Since, Lets, Refuses
    <3>4. Recorded(ruleSet)'
      BY <2>7, <3>1, Zenon DEF Recorded
    <3> QED
      BY <1>1, <2>1, <2>2, <2>5, <3>1, <3>3, <3>4, RecordsWritten, Zenon
  <2>8. CASE a # None /\ a.gen = obj.gen /\ Lets(a.hash) /\ c.reason \in Accepting
    <3>1. obj.accepted # None =>
             IF ruleSet.accepted = None THEN Refuses(obj.accepted.hash)
             ELSE /\ ruleSet.accepted = obj.accepted \/ Lets(ruleSet.accepted.hash)
                  /\ obj.accepted.gen = a.gen => ruleSet.accepted.gen = a.gen
      BY <2>4, <2>8, Zenon DEF Since
    <3>2. /\ ruleSet'.accepted # None /\ ruleSet'.accepted.gen = obj.gen
          /\ ruleSet'.accepted = ruleSet.accepted \/ Lets(ruleSet'.accepted.hash)
      <4> DEFINE m == MergedRecord(obj.accepted, a, ruleSet.accepted)
      <4>1. a \in Accepted
        BY <2>8, Zenon
      <4> HIDE DEF obj
      <4>2. /\ obj.accepted \in Accepted \cup {None}
            /\ ruleSet.accepted \in Accepted \cup {None}
        BY <1>2, Zenon DEF obj
      <4> HIDE DEF m
      <4>3. m # None /\ m.gen = a.gen /\ (m = ruleSet.accepted \/ Lets(m.hash))
        BY <2>8, <3>1, <4>1, <4>2, AcceptedRecord DEF m
      <4> QED
        BY <2>1, <2>8, <4>3, Zenon DEF m
    <3>3. Recorded(ruleSet)'
      <4>1. CASE c # obj.conds
        BY <1>4, <2>1, <2>8, <3>2, <4>1, Zenon DEF MergedConditions, Recorded
      <4>2. CASE c = obj.conds
        <5>1. obj.accepted # None /\ obj.accepted.gen = obj.gen
          BY <1>4, <2>4, <2>8, <4>2, Zenon DEF Since, Recorded
        <5>2. ruleSet.accepted # None
          BY <1>4, <2>8, <3>1, <5>1, Zenon DEF Writes, Incomplete, Lets, Refuses
        <5>3. ruleSet.accepted.gen = obj.gen
          BY <2>8, <3>1, <5>1, <5>2, Zenon
        <5> QED
          BY <2>1, <2>4, <3>2, <4>2, <5>2, <5>3, Zenon DEF MergedConditions, Recorded
      <4> QED
        BY <4>1, <4>2, Zenon
    <3>4. ASSUME cache.uid = ruleSet.uid, cache.accepted # None
          PROVE  /\ ruleSet'.accepted = cache.accepted \/ Lets(ruleSet'.accepted.hash)
                 /\ cache.accepted.gen = cache.gen => ruleSet'.accepted.gen = cache.gen
      <4>1. Since(cache) /\ cache.accepted.gen <= obj.gen
        BY <2>4, <3>4, Zenon
      <4>2. Horizon = cache.gen
        BY <3>4, <4>1, Zenon DEF Since, Horizon
      <4>3. cache.accepted.gen = cache.gen => obj.gen = cache.gen
        BY <2>3, <2>4, <4>1, <4>2, Generations
      <4>4. ruleSet'.accepted = ruleSet.accepted =>
               ruleSet'.accepted = cache.accepted \/ Lets(ruleSet'.accepted.hash)
        BY <3>2, <3>4, <4>1, Zenon DEF Since
      <4> QED
        BY <3>2, <4>3, <4>4, Zenon
    <3> QED
      BY <1>1, <2>1, <2>2, <2>4, <2>5, <3>2, <3>3, <3>4, RecordsWritten, Zenon
  <2> QED
    BY <1>4, <2>6, <2>7, <2>8, Zenon
<1>5. NoConditions.reason = "none" /\ NoConditions \in Conditions
  BY Zenon DEF NoConditions, Conditions
<1>6. ASSUME NEW c \in Conditions, Notes(c)
      PROVE  Records'
  BY <1>2, <1>4, <1>5, <1>6, Zenon DEF Notes
<1>7. ASSUME NEW c \in Conditions, Withdraws(c)
      PROVE  Records'
  BY <1>4, <1>5, <1>7, Zenon DEF Withdraws
<1>8. ASSUME NEW r \in Accepting, Accepts(r)
      PROVE  Records'
  <2> DEFINE a == [gen |-> worker.obj.gen, hash |-> content]
             c == Ready(worker.obj.gen, r)
  <2>1. content \in Content /\ Lets(content)
    BY <1>8, ContentRead, Zenon DEF Accepts, At, Judged, Approval, Passed
  <2>2. a \in Accepted /\ a.hash = content /\ a.gen = worker.obj.gen /\ a # None
    BY <1>2, <2>1, AcceptanceAssumption DEF Accepted
  <2>3. c \in Conditions /\ c.reason = r /\ c.gen = worker.obj.gen /\ c # NoConditions
    <3>1. c \in Conditions
      BY <1>2, WrittenConditions, Zenon
    <3>2. c.reason = r /\ c.gen = worker.obj.gen
      BY Zenon DEF Ready
    <3>3. r # "none"
      BY Zenon DEF Accepting
    <3> HIDE DEF c
    <3> QED
      BY <1>5, <3>1, <3>2, <3>3, Zenon
  <2>4. Writes(c, a)
    BY <1>8, Zenon DEF Accepts
  <2> HIDE DEF a, c
  <2> QED
    BY <1>4, <2>1, <2>2, <2>3, <2>4, Zenon
<1> QED
  BY <1>1, <1>3, <1>6, <1>7, <1>8, Zenon DEF Kinds

\* Every step preserves Records.
LEMMA RecordsStep == TypeInv /\ Approval /\ Records /\ [Next]_vars => Records'
<1> SUFFICES ASSUME TypeInv, Approval, Records, [Next]_vars
             PROVE  Records'
  OBVIOUS
<1>1. CASE UNCHANGED <<build, ruleSet, cache, worker>>
  BY <1>1, RecordsKept, Zenon
<1>2. CASE SyncRuleSet
  BY <1>2, RecordsList, Zenon DEF SyncRuleSet
<1>3. CASE Restart
  BY <1>3, RecordsList, IdleFormed, Zenon DEF Restart
<1>4. UNCHANGED vars => UNCHANGED <<build, ruleSet, cache, worker>>
  BY Zenon DEF vars, ruleSetVars
<1> QED
  BY <1>1, <1>2, <1>3, <1>4, NextSteps, InputsGrow, RecordsEdit, RecordsStart, RecordsReconcile,
     Zenon

\* A Ready condition comes with the accepted record of the same generation, however far the
\* informer lags and whatever is edited, accepted and withdrawn meanwhile.
THEOREM ReadyIsRecorded == Spec => []ReadyRecorded
<1>1. Init => Records
  <2> SUFFICES ASSUME Init
               PROVE  Records
    OBVIOUS
  <2>1. /\ ruleSet.accepted = None /\ cache = ruleSet /\ worker.obj = None
        /\ ruleSet.conds.reason \notin Accepting
    BY IdleFormed, Zenon DEF Init, NewRuleSet, NoConditions, Accepting
  <2>2. ruleSet.conds = NoConditions
    BY Zenon DEF Init, NewRuleSet
  <2> QED
    BY <2>1, <2>2, Zenon DEF Records, Recorded, Since
<1>2. Records => ReadyRecorded
  BY Zenon DEF Records, Recorded, ReadyRecorded
<1> QED
  BY <1>1, <1>2, ApprovalInit, TypeInit, TypeStep, ApprovalStep, RecordsStep, PTL DEF Spec

=============================================================================
