----------------------------- MODULE AuthzHistory -----------------------------
(***************************************************************************)
(* AuthzIndex with a history: the grants that were withdrawn since a        *)
(* process read the evidence it is about to write.                          *)
(***************************************************************************)
EXTENDS AuthzIndex

VARIABLE lost   \* process -> withdrawn pairs of a name and an identity

Grants(es) == {g \in Names \X Identities : es[g[1]] # None /\ g[2] \in es[g[1]].ids}

HistoryInit == Init /\ lost = [w \in Workers |-> {}]

HistoryNext ==
    /\ Next
    /\ lost' = [w \in Workers |->
                  IF worker[w].pc = "commit" /\ worker'[w].pc = "commit"
                  THEN lost[w] \cup (Grants(entries) \ Grants(entries'))
                  ELSE {}]

HistorySpec == HistoryInit /\ [][HistoryNext]_<<vars, lost>>

\* Action property: a refresh never grants again what was revoked since it read
\* its evidence (AuthzIndex.revocations).
NoResurrection ==
    [][\A w \in Workers :
          worker[w].pc = "commit" /\ worker'[w].pc # "commit"
          => (Grants(entries') \ Grants(entries)) \cap lost[w] = {}]_<<vars, lost>>

=============================================================================
