------------------------------ MODULE RuleText ------------------------------
(***************************************************************************)
(* Validation of the rule text of a RuleSet and of the RuleData files it   *)
(* includes, against what the module in the proxy does with the same text. *)
(*                                                                         *)
(* A text is a sequence of directives.  The operator reads the chain of    *)
(* Includes three times, each time in its own way: breadth first for the   *)
(* directives and targets it refuses, depth first for the body limits, and *)
(* depth first for the CRS rules that are tuned by id.  Then Coraza        *)
(* compiles the text with empty files in place of the CRS.                 *)
(***************************************************************************)
EXTENDS Naturals, SequencesExt, FiniteSets

CONSTANTS Vocabularies,  \* sets of directives, from each of which texts are made
          RuleData,      \* file names
          CrsIds,        \* rules of the embedded CRS
          MaxRules, MaxFile  \* bounds: directives of the rule text and of a file

VARIABLES input, verdict

vars == <<input, verdict>>

Files == input.files

----------------------------------------------------------------------------
(* The guard                                                               *)

\* RuleData names a text includes, in order; names have no directory.
ruleDataIncludeNames(text) ==
  LET includes == SelectSeq(text, LAMBDA d : d.op = "include" /\ d.arg \in DOMAIN Files)
  IN [i \in DOMAIN includes |-> includes[i].arg]

\* Fault: files that are included by included files are not scanned.
IncludeChainShallow(text) == <<text>> \o [i \in DOMAIN ruleDataIncludeNames(text) |->
                                            Files[ruleDataIncludeNames(text)[i]]]

\* The queue of texts of the breadth-first scans, every file once.
RECURSIVE Enqueued(_, _, _)
Enqueued(queue, at, seen) ==
  IF at > Len(queue) THEN queue
  ELSE LET new == SelectSeq(ruleDataIncludeNames(queue[at]), LAMBDA f : f \notin seen)
           files == ToSet(new)
       IN Enqueued(queue \o [i \in DOMAIN SetToSeq(files) |-> Files[SetToSeq(files)[i]]],
                   at + 1, seen \cup files)

IncludeChain(text) == Enqueued(<<text>>, 1, {})

\* validateRuleText and validateCorazaRSRuleText: directives that open host
\* files or that the plugin cannot compile, aliases, foreign globs and paths.
RefusedText(text) == \E i \in DOMAIN text : text[i].op = "refused"

ValidateIncludes(rules) == \A text \in ToSet(IncludeChain(rules)) : ~RefusedText(text)

----------------------------------------------------------------------------
(* Depth-first scans                                                       *)

RECURSIVE BodyWalk(_, _)
BodyWalk(text, state) ==
  FoldLeft(LAMBDA s, d :
             IF d.op \in {"access", "limit"} THEN [s EXCEPT ![d.op] = d.arg]
             ELSE IF d.op = "include" /\ d.arg \in DOMAIN Files \ s.seen
             THEN BodyWalk(Files[d.arg], [s EXCEPT !.seen = @ \cup {d.arg}])
             ELSE s,
           state, text)

\* A limit beyond the range of the plugin is refused by the guard.
ValidateAssembledBodyLimits(rules) ==
  LET end == BodyWalk(rules, [access |-> "", limit |-> "", seen |-> {}])
  IN end.access = "On" => end.limit # ""

RECURSIVE TuningWalk(_, _)
TuningWalk(text, state) ==
  FoldLeft(LAMBDA s, d :
             IF d.op = "crs" THEN [s EXCEPT !.crsLoaded = TRUE]
             ELSE IF d.op = "include"
             THEN IF d.arg \in DOMAIN Files \ s.seen
                  THEN TuningWalk(Files[d.arg], [s EXCEPT !.seen = @ \cup {d.arg}]) ELSE s
             ELSE IF d.op = "update" /\ s.crsLoaded THEN [s EXCEPT !.referenced = @ \cup {d.arg}]
             ELSE IF d.op = "rule" THEN [s EXCEPT !.defined = @ \cup {d.arg}]
             ELSE s,
           state, text)

\* The rules that validation defines ahead of the text.
crsTuningStandInRules(rules) ==
  LET end == TuningWalk(rules, [crsLoaded |-> FALSE, referenced |-> {}, defined |-> {}, seen |-> {}])
  IN IF end.crsLoaded THEN end.referenced \ end.defined ELSE {}

----------------------------------------------------------------------------
(* Coraza, compiling a text: crs is the set of rules a crs/ Include loads. *)

RECURSIVE Compile(_, _, _)
Compile(text, state, crs) ==
  FoldLeft(LAMBDA s, d :
             IF ~s.ok THEN s
             ELSE IF d.op \in {"access", "limit"} THEN [s EXCEPT ![d.op] = d.arg]
             ELSE IF d.op = "refused" THEN [s EXCEPT !.refused = TRUE]
             ELSE IF d.op = "rule"
             THEN [s EXCEPT !.ok = d.arg \notin s.rules, !.rules = @ \cup {d.arg}]
             ELSE IF d.op = "update" THEN [s EXCEPT !.ok = d.arg \in s.rules]
             ELSE IF d.op = "crs"
             THEN [s EXCEPT !.ok = s.rules \cap crs = {}, !.rules = @ \cup crs]
             ELSE IF d.arg \notin DOMAIN Files \/ s.depth > Cardinality(RuleData) THEN [s EXCEPT !.ok = FALSE]
             ELSE [Compile(Files[d.arg], [s EXCEPT !.depth = @ + 1], crs) EXCEPT !.depth = s.depth],
           state, text)

Fresh(rules) == [ok |-> TRUE, refused |-> FALSE, rules |-> rules, access |-> "", limit |-> "",
                 depth |-> 0]

\* Acceptance of aggregated rules by the RuleSet controller.
Validated(rules) ==
  /\ ValidateIncludes(rules)
  /\ ValidateAssembledBodyLimits(rules)
  /\ Compile(rules, Fresh(crsTuningStandInRules(rules)), {}).ok

\* The module has the CRS, refuses what the guard refuses wherever it reads it,
\* and body access without a limit.
ModuleAccepts(rules) ==
  LET end == Compile(rules, Fresh({}), CrsIds)
  IN end.ok /\ ~end.refused /\ (end.access = "On" => end.limit # "")

----------------------------------------------------------------------------
Init == /\ \E words \in Vocabularies :
             \E rules \in SeqOf(words, MaxRules), files \in [RuleData -> SeqOf(words, MaxFile)] :
               input = [rules |-> rules, files |-> files]
        /\ verdict = "none"

Validate == /\ verdict = "none"
            /\ verdict' = IF Validated(input.rules) THEN "accepted" ELSE "refused"
            /\ UNCHANGED input

Next == Validate

Spec == Init /\ [][Next]_vars

----------------------------------------------------------------------------
(* Properties                                                              *)

\* The directives in the order in which Coraza reads them; a cycle of Includes
\* is cut where the compilation gives up.
RECURSIVE Unfolded(_, _)
Unfolded(text, depth) ==
  FoldLeft(LAMBDA s, d : s \o <<d>> \o IF d.op = "include" /\ depth <= Cardinality(RuleData)
                                       THEN Unfolded(Files[d.arg], depth + 1) ELSE <<>>,
           <<>>, text)

At(read, op) == {i \in DOMAIN read : read[i].op = op}
Arguments(read, op) == {read[i].arg : i \in At(read, op)}

\* What validation cannot see, for want of the CRS or because it walks a file
\* once only: tuning of a rule that is neither defined here nor in the CRS, a
\* rule with the id of a CRS rule next to the CRS, the CRS included twice, a rule
\* tuned both before and after the CRS, and body settings of a file that is
\* included twice.
Visible ==
  LET read == Unfolded(input.rules, 0)
      crs == At(read, "crs")
  IN /\ Arguments(read, "update") \subseteq CrsIds \cup Arguments(read, "rule")
     /\ crs # {} => Arguments(read, "rule") \cap CrsIds = {}
     /\ Cardinality(crs) <= 1
     /\ \A i, j \in At(read, "update"), k \in crs : i < k /\ k < j => read[i] # read[j]
     /\ \A i, j \in At(read, "include") :
          i # j /\ read[i] = read[j] => At(Files[read[i].arg], "access") \cup At(Files[read[i].arg], "limit") = {}

\* The three scans and the compilation with stubs agree with the module: an
\* aggregate is accepted exactly when the module can load it.
ValidationExact == verdict # "none" /\ Visible => ((verdict = "accepted") <=> ModuleAccepts(input.rules))
=============================================================================
