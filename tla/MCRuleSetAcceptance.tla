------------------------ MODULE MCRuleSetAcceptance ------------------------
(***************************************************************************)
(* RuleSetAcceptance for TLC: one RuleData and one RuleSource, so that      *)
(* mixed contents exist.                                                    *)
(***************************************************************************)
EXTENDS RuleSetAcceptance

CONSTANTS ruleData, ruleSource

MCData == <<ruleData>>
MCSources == <<ruleSource>>
MCTextsOf == [i \in {ruleData, ruleSource} |-> IF i = ruleData THEN {"a", "b"} ELSE {"a", "b", "c", "x"}]

\* "a" with "a" and "b" with "b" fit together, and the second build refuses the former.
MCJudge(b, data, rules) ==
    CASE data = rules -> IF b = 2 /\ data = "a" THEN "rejected" ELSE "ok"
      [] data = "a" /\ rules = "b" -> "rejected"
      [] data = "b" /\ rules = "a" -> "invalid"
      [] data = "a" /\ rules = "c" -> "unsupported"
      [] OTHER -> "unassembled"

MCVerdict == [b \in 1..2 |-> [c \in Content |-> MCJudge(b, c[ruleData], c[ruleSource])]]

=============================================================================
