------------------------------ MODULE Rendering ------------------------------
(***************************************************************************)
(* From RuleSources and RuleData to a published resource: assembling the   *)
(* content of a RuleSet, its hash and the fingerprint of its inputs,       *)
(* rendering an Engine's resource and version, the record of an accepted   *)
(* configuration, and rendering again from that record.                    *)
(*                                                                         *)
(* A text is the sequence of its lines, so joining texts by newlines is    *)
(* concatenation.  A line is blank or an active directive.  SHA-256 is     *)
(* taken to be injective and JSON encoding to be faithful.                 *)
(***************************************************************************)
EXTENDS Naturals, SequencesExt, Functions, TLC

CONSTANTS Texts,       \* rule texts a RuleSource may hold
          FileSets,    \* files a RuleData may hold
          Sources, RuleData,   \* object names
          SourceLists, DataLists,  \* values of spec.sources and spec.data
          Refused,     \* stands for an error
          MaxChanges   \* bound

VARIABLES
  source,   \* source[n]: the RuleSource of name n
  data,     \* data[n]: the RuleData of name n
  ruleset, engine,
  uids,     \* UIDs handed out
  changes,
  log       \* history: the configurations accepted so far

vars == <<source, data, ruleset, engine, uids, changes, log>>

Shadowing == {"crs-setup.conf.example"}
BundledModule == [url |-> "bundled.wasm", sha256 |-> "bundled", crs |-> "4.28"]
CustomModule == [url |-> "custom.wasm", sha256 |-> "custom", crs |-> ""]

Init == /\ \E text \in Texts, files \in FileSets :
             /\ source = [n \in Sources |-> [uid |-> 1, generation |-> 1, rules |-> text]]
             /\ data = [n \in RuleData |-> [uid |-> 2, generation |-> 1, files |-> files]]
        /\ ruleset = [uid |-> 3, sources |-> SetToSeq(Sources), data |-> SetToSeq(RuleData),
                      policy |-> ""]
        /\ engine = [uid |-> 4, failurePolicy |-> "fail", logs |-> FALSE, module |-> BundledModule]
        /\ uids = 4
        /\ changes = 0
        /\ log = {}

----------------------------------------------------------------------------
(* Assembly                                                                *)

\* loadRuleSetInputs.
Inputs == [ruleset |-> ruleset.uid, policy |-> ruleset.policy,
           sources |-> [i \in DOMAIN ruleset.sources |->
                          [name |-> ruleset.sources[i], object |-> source[ruleset.sources[i]]]],
           data |-> [i \in DOMAIN ruleset.data |->
                       [name |-> ruleset.data[i], object |-> data[ruleset.data[i]]]]]

duplicateNames(items) == ~IsInjective([i \in DOMAIN items |-> items[i].name])

validateReferences(in) ==
  /\ ~duplicateNames(in.sources) /\ ~duplicateNames(in.data)
  /\ \A i \in DOMAIN in.data : DOMAIN in.data[i].object.files \cap Shadowing = {}

Joined(in) == FlattenSeq([i \in DOMAIN in.sources |-> in.sources[i].object.rules])

\* The file listed last wins.
Merged(in) == FoldLeft(LAMBDA files, d : d.object.files @@ files, <<>>, in.data)

Blank(rules) == ToSet(rules) \subseteq {""}

\* ValidatePMFromFileData, for rules that read the file list.data.
pmFromFileProvided(rules, files) == "@pmFromFile" \in ToSet(rules) => "list.data" \in DOMAIN files

Assemble(in) ==
  LET rules == Joined(in)  files == Merged(in)
  IN IF /\ validateReferences(in)
        /\ pmFromFileProvided(rules, files)
        /\ Blank(rules) => in.policy = "Allow"
     THEN [rules |-> rules, files |-> files] ELSE Refused

digest(document) == [sha256 |-> document]

\* Fault: objects are identified by name and generation only.
identitiesByName(items) ==
  [i \in DOMAIN items |-> [name |-> items[i].name, generation |-> items[i].object.generation]]

identities(items) ==
  [i \in DOMAIN items |-> [name |-> items[i].name, uid |-> items[i].object.uid,
                           generation |-> items[i].object.generation]]

Fingerprint(in) == digest([ruleset |-> in.ruleset, policy |-> in.policy,
                           sources |-> identities(in.sources), data |-> identities(in.data)])

RuleSetContentHash(content) == digest(content)

----------------------------------------------------------------------------
(* Rendering                                                               *)

\* Fault: a module without a recorded CRS version is unknown.
selectedCRSVersionRecorded(module) == module.crs

\* A module with the bundled digest has the bundled capability.
selectedCRSVersion(module) ==
  IF module.crs = "" /\ module.sha256 = BundledModule.sha256 THEN BundledModule.crs ELSE module.crs

\* ValidateCorazaRSIncludesForModule, for rules that include crs/.
includesResolve(rules, crs) == "Include crs" \in ToSet(rules) => crs \notin {"", "none"}

resolveEmptyRulesPolicy(policy) == IF policy = "" THEN "Reject" ELSE policy

resolveVMSettings(vm, uid) ==
  [id |-> IF vm.id = "" THEN <<"coraza", uid>> ELSE vm.id,
   timeout |-> IF vm.timeout = 0 THEN 10 ELSE vm.timeout]

runtimeConfig(in, policy) ==
  [engine |-> in.uid, policy |-> policy, failurePolicy |-> in.failurePolicy, logs |-> in.logs,
   rules |-> in.content.rules, files |-> in.content.files]

engineVersion(in, policy, vm) ==
  digest([engine |-> in.uid, policy |-> policy, failurePolicy |-> in.failurePolicy,
          logs |-> in.logs, ruleset |-> in.ruleset, hash |-> in.contentHash,
          url |-> in.module.url, sha256 |-> in.module.sha256, vm |-> vm])

buildResource(in, policy, vm) ==
  [name |-> <<"coraza.waf", in.uid>>, url |-> in.module.url, sha256 |-> in.module.sha256,
   vm |-> vm, failurePolicy |-> in.failurePolicy, payload |-> runtimeConfig(in, policy)]

Render(in) ==
  LET policy == resolveEmptyRulesPolicy(in.policy)
      vm == resolveVMSettings(in.vm, in.uid)
  IN IF /\ includesResolve(in.content.rules, selectedCRSVersion(in.module))
        /\ RuleSetContentHash(in.content) = in.contentHash
        /\ ~(policy = "Reject" /\ Blank(in.content.rules))
     THEN [version |-> engineVersion(in, policy, vm), resource |-> buildResource(in, policy, vm),
           policy |-> policy, logs |-> in.logs, vm |-> vm]
     ELSE Refused

\* The record that patchAcceptedConfiguration writes.
acceptedConfiguration(in, artifact) ==
  [version |-> artifact.version, ruleset |-> in.ruleset, hash |-> in.contentHash,
   url |-> in.module.url, sha256 |-> in.module.sha256, failurePolicy |-> in.failurePolicy,
   policy |-> artifact.policy, logs |-> artifact.logs, vm |-> artifact.vm]

\* What reconstruct renders, from the record and the current content.
reconstructed(record, uid, current, content) ==
  [uid |-> uid, ruleset |-> current, contentHash |-> record.hash, content |-> content,
   policy |-> record.policy, failurePolicy |-> record.failurePolicy, logs |-> record.logs,
   module |-> [url |-> record.url, sha256 |-> record.sha256, crs |-> ""], vm |-> record.vm]

\* Matches; the version is a hash over the other fields it compares.
Matches(record, artifact) == artifact.version = record.version

----------------------------------------------------------------------------
(* Steps                                                                   *)

\* The Engine controller renders the current objects and accepts them.
Accept ==
  LET content == Assemble(Inputs)
      in == [uid |-> engine.uid, ruleset |-> ruleset.uid, contentHash |-> RuleSetContentHash(content),
             content |-> content, policy |-> ruleset.policy, failurePolicy |-> engine.failurePolicy,
             logs |-> engine.logs, module |-> engine.module, vm |-> [id |-> "", timeout |-> 0]]
      artifact == Render(in)
  IN /\ content # Refused /\ artifact # Refused
     /\ log' = log \cup {[fingerprint |-> Fingerprint(Inputs), content |-> content, engine |-> engine.uid,
                          ruleset |-> ruleset.uid, resource |-> artifact.resource,
                          record |-> acceptedConfiguration(in, artifact)]}
     /\ UNCHANGED <<source, data, ruleset, engine, uids, changes>>

Change == changes < MaxChanges /\ changes' = changes + 1

\* An object is edited in place, or deleted and created again.
Edited(old, new) == {[new EXCEPT !.uid = old.uid, !.generation = old.generation + 1],
                     [new EXCEPT !.uid = uids + 1, !.generation = 1]}

ChangeSource(n, text) ==
  /\ Change
  /\ \E s \in Edited(source[n], [source[n] EXCEPT !.rules = text]) : source' = [source EXCEPT ![n] = s]
  /\ uids' = uids + 1
  /\ UNCHANGED <<data, ruleset, engine, log>>

ChangeData(n, files) ==
  /\ Change
  /\ \E d \in Edited(data[n], [data[n] EXCEPT !.files = files]) : data' = [data EXCEPT ![n] = d]
  /\ uids' = uids + 1
  /\ UNCHANGED <<source, ruleset, engine, log>>

ChangeRuleSet ==
  /\ Change
  /\ \/ \E list \in SourceLists : ruleset' = [ruleset EXCEPT !.sources = list]
     \/ \E list \in DataLists : ruleset' = [ruleset EXCEPT !.data = list]
     \/ \E policy \in {"", "Reject", "Allow"} : ruleset' = [ruleset EXCEPT !.policy = policy]
     \/ ruleset' = [ruleset EXCEPT !.uid = uids + 1]
  /\ uids' = uids + 1
  /\ UNCHANGED <<source, data, engine, log>>

ChangeEngine ==
  /\ Change
  /\ \/ engine' = [engine EXCEPT !.logs = ~@]
     \/ engine' = [engine EXCEPT !.failurePolicy = "allow"]
     \/ engine' = [engine EXCEPT !.module = CustomModule]
     \/ engine' = [engine EXCEPT !.uid = uids + 1]
  /\ uids' = uids + 1
  /\ UNCHANGED <<source, data, ruleset, log>>

Next == \/ Accept \/ ChangeRuleSet \/ ChangeEngine
        \/ \E n \in Sources, text \in Texts : ChangeSource(n, text)
        \/ \E n \in RuleData, files \in FileSets : ChangeData(n, files)

Spec == Init /\ [][Next]_vars

----------------------------------------------------------------------------
(* Properties                                                              *)

\* The identities that let a replica skip work are sound: inputs with one
\* fingerprint assemble to one content, across edits and re-creations, and one
\* version names one resource.
Identified ==
  \A x, y \in log :
     /\ x.fingerprint = y.fingerprint => x.content = y.content
     /\ x.record.version = y.record.version => x.resource = y.resource

Reconstruct(x, y) == Render(reconstructed(x.record, x.engine, y.ruleset, y.content))

\* A replica renders exactly what was accepted from the record and the content,
\* and from any other content it renders nothing that matches the record.
RecordReproduces ==
  \A x, y \in log :
     LET artifact == Reconstruct(x, y) IN
     /\ x = y => artifact # Refused /\ Matches(x.record, artifact)
     /\ artifact # Refused /\ Matches(x.record, artifact) => artifact.resource = x.resource
=============================================================================
