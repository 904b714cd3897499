----------------------------- MODULE StoreProofs -----------------------------
(***************************************************************************)
(* Invariance proofs for SnapshotStore, for any number of Engines, UIDs,    *)
(* proxies and versions and any eviction bound.                             *)
(***************************************************************************)
EXTENDS SnapshotStore, FiniteSetTheorems, TLAPS

\* The eviction order has an oldest proxy in every set of an Engine's proxies.
ProxyOrder ==
    \A e \in Engines : \A T \in SUBSET byEngine[e] :
        T # {} => \E p \in T : \A q \in T \ {p} : <<p, q>> \in before

ProxiesFinite == \A e \in Engines : IsFiniteSet(byEngine[e])

-----------------------------------------------------------------------------
\* A subscription resolves to an Engine that publishes a snapshot.
LEMMA Resolved ==
    ASSUME StoreTypeOK, NEW n \in Names, snapshotForResource(n) # None
    PROVE  /\ snapshotForResource(n) \in Engines
           /\ meta[snapshotForResource(n)] \in Snapshot
           /\ resources[n] = snapshotForResource(n)
  BY StoreAssumption, Zenon DEF StoreTypeOK, snapshotForResource

\* Commit keeps the types of what it writes.
LEMMA CommitType ==
    ASSUME StoreTypeOK, NEW e \in Engines,
           NEW px \in [Proxies -> ProxySnapshot \cup {None}],
           NEW ps \in SUBSET Proxies,
           NEW c \in [Engines \cup Proxies -> Version \cup {None}],
           NEW order \in SUBSET (Proxies \X Proxies),
           NEW gone, Commit(e, px, ps, c, order, gone)
    PROVE  /\ cache' \in [Engines \cup Proxies -> Version \cup {None}]
           /\ proxies' \in [Proxies -> ProxySnapshot \cup {None}]
           /\ byEngine' \in [Engines -> SUBSET Proxies]
           /\ before' \in SUBSET (Proxies \X Proxies)
  <1>1. proxies' \in [Proxies -> ProxySnapshot \cup {None}]
    BY Zenon DEF Commit
  <1>2. cache' \in [Engines \cup Proxies -> Version \cup {None}]
    BY Zenon DEF Commit
  <1>3. byEngine' \in [Engines -> SUBSET Proxies]
    BY Zenon DEF Commit, StoreTypeOK
  <1>4. before' \in SUBSET (Proxies \X Proxies)
    BY Zenon DEF Commit
  <1> QED
    BY <1>1, <1>2, <1>3, <1>4, Zenon

\* Taking a sequence number keeps the order a relation on proxies.
LEMMA TouchType ==
    ASSUME before \in SUBSET (Proxies \X Proxies), NEW p \in Proxies,
           NEW ps \in SUBSET Proxies
    PROVE  Touch(p, ps) \in SUBSET (Proxies \X Proxies)
  BY DEF Touch

\* A derived version is a version.
LEMMA RetryType ==
    ASSUME NEW v \in Versions, NEW n \in Nat
    PROVE  Retry(v, n) \in Version
  BY Zenon DEF Retry, Version

-----------------------------------------------------------------------------
\* The resource index names exactly the published snapshots, each under a name
\* of its own Engine.
NamesAgree ==
    /\ \A n \in Names, e \in Engines :
          resources[n] = e <=> meta[e] # None /\ meta[e].name = n
    /\ \A e \in Engines : meta[e] # None => meta[e].name[1] = e

\* Every tracked proxy has a snapshot and is listed by its own Engine only.
ProxiesAgree ==
    /\ \A p \in Proxies : proxies[p] # None => cache[p] # None
    /\ \A e \in Engines :
          byEngine[e] = {p \in Proxies : proxies[p] # None /\ proxies[p].engineKey = e}

\* The inductive invariant.
StoreInv ==
    /\ StoreTypeOK
    /\ ServedIsCurrent
    /\ NamesAgree
    /\ ProxiesAgree
    /\ ProxyOrder
    /\ ProxiesFinite
    /\ InactiveRetriesBounded

\* What an operation must establish about the values it hands to Commit for the
\* invariant to hold afterwards.  The Engine's proxies are ps; the others keep
\* their entries; those that are not dropped hold content of the version the
\* Engine publishes after the step.
Sound(e, px, ps, c, order, gone) ==
    /\ px \in [Proxies -> ProxySnapshot \cup {None}]
    /\ ps \in SUBSET Proxies
    /\ c \in [Engines \cup Proxies -> Version \cup {None}]
    /\ order \in SUBSET (Proxies \X Proxies)
    /\ gone \in SUBSET ps
    /\ byEngine[e] \subseteq ps
    /\ IsFiniteSet(ps)
    /\ \A p \in ps : px[p] # None /\ px[p].engineKey = e
    /\ \A p \in ps : proxies[p] # None => proxies[p].engineKey = e
    /\ \A p \in ps \ gone : /\ meta'[e] # None
                            /\ c[p] # None
                            /\ c[p].base = meta'[e].version
    /\ \A p \in Proxies \ ps : px[p] = proxies[p] /\ c[p] = cache[p]
    /\ \A f \in Engines \ {e} : meta'[f] = meta[f] /\ c[f] = cache[f]
    /\ c[e] = IF meta'[e] = None THEN None ELSE Retry(meta'[e].version, 0)
    /\ \A r \in before : r[1] \notin ps /\ r[2] \notin ps => r \in order
    /\ \A T \in SUBSET ps :
          T # {} => \E p \in T : \A q \in T \ {p} : <<p, q>> \in order
    /\ Cardinality(InactiveRetries(px, ps) \ gone) <= MaxInactive

\* What Commit has to be given for the invariant to hold after it.
LEMMA CommitPreserves ==
    ASSUME StoreInv, NEW e \in Engines, NEW px, NEW ps, NEW c, NEW order, NEW gone,
           Sound(e, px, ps, c, order, gone), Commit(e, px, ps, c, order, gone),
           meta' \in [Engines -> Snapshot \cup {None}],
           resources' \in [Names -> Engines \cup {None}],
           NamesAgree'
    PROVE  StoreInv'
  <1>t. StoreTypeOK
    BY Zenon DEF StoreInv
  <1>1. StoreTypeOK'
    BY <1>t, CommitType, Zenon DEF Sound, StoreTypeOK
  <1>2. \A p \in Proxies : /\ proxies'[p] = IF p \in gone THEN None ELSE px[p]
                           /\ cache'[p] = IF p \in gone THEN None ELSE c[p]
    BY Zenon DEF Commit
  <1>3. \A f \in Engines : cache'[f] = c[f]
    BY StoreAssumption, Zenon DEF Commit, Sound
  <1>4. /\ byEngine'[e] = ps \ gone
        /\ \A f \in Engines \ {e} : byEngine'[f] = byEngine[f]
    BY <1>t, Zenon DEF Commit, StoreTypeOK
  <1>a. /\ ps \subseteq Proxies /\ gone \subseteq ps /\ byEngine[e] \subseteq ps
        /\ \A p \in ps : px[p] # None /\ px[p].engineKey = e
        /\ \A p \in ps : proxies[p] # None => proxies[p].engineKey = e
        /\ \A p \in Proxies \ ps : px[p] = proxies[p] /\ c[p] = cache[p]
    BY Zenon DEF Sound
  <1>b. \A p \in ps \ gone : /\ meta'[e] # None
                             /\ c[p] # None
                             /\ c[p].base = meta'[e].version
    BY Zenon DEF Sound
  <1>c. \A f \in Engines, p \in Proxies :
            p \in byEngine[f] <=> proxies[p] # None /\ proxies[p].engineKey = f
    BY DEF StoreInv, ProxiesAgree
  <1>5. \A f \in Engines \ {e} : byEngine[f] \cap ps = {}
    BY <1>a, <1>c
  <1>6. ServedIsCurrent'
    <2>1. ASSUME NEW f \in Engines
          PROVE  cache'[f] = IF meta'[f] = None THEN None ELSE Retry(meta'[f].version, 0)
      BY <1>3 DEF Sound, StoreInv, ServedIsCurrent
    <2>2. ASSUME NEW p \in Proxies, cache'[p] # None
          PROVE  /\ proxies'[p] # None
                 /\ meta'[proxies'[p].engineKey] # None
                 /\ cache'[p].base = meta'[proxies'[p].engineKey].version
      <3>1. CASE p \in ps
        BY <1>2, <1>a, <1>b, <2>2, <3>1
      <3>2. CASE p \notin ps
        <4>1. cache[p] # None /\ cache'[p] = cache[p] /\ proxies'[p] = proxies[p]
          BY <1>2, <1>a, <2>2, <3>2, Zenon
        <4>2. proxies[p] # None /\ proxies[p].engineKey # e
          BY <4>1, <3>2, <1>a, <1>c, Zenon DEF StoreInv, ServedIsCurrent
        <4>3. proxies[p].engineKey \in Engines
          BY <4>2, <1>t, Zenon DEF StoreTypeOK, ProxySnapshot
        <4> QED
          BY <4>1, <4>2, <4>3 DEF StoreInv, ServedIsCurrent, Sound
      <3> QED
        BY <3>1, <3>2, Zenon
    <2> QED
      BY <2>1, <2>2, Zenon DEF ServedIsCurrent
  <1>7. ProxiesAgree'
    <2>1. ASSUME NEW p \in Proxies, proxies'[p] # None
          PROVE  cache'[p] # None
      BY <1>2, <1>a, <1>b, <2>1 DEF StoreInv, ProxiesAgree
    <2>2. ASSUME NEW f \in Engines, NEW p \in Proxies
          PROVE  p \in byEngine'[f] <=> proxies'[p] # None /\ proxies'[p].engineKey = f
      <3>1. CASE f = e
        BY <1>2, <1>4, <1>a, <1>c, <3>1
      <3>2. CASE f # e
        BY <1>2, <1>4, <1>5, <1>a, <1>c, <3>2
      <3> QED
        BY <3>1, <3>2, Zenon
    <2>3. ASSUME NEW f \in Engines
          PROVE  byEngine'[f] = {p \in Proxies : proxies'[p] # None /\ proxies'[p].engineKey = f}
      BY <1>1, <2>2 DEF StoreTypeOK
    <2> QED
      BY <2>1, <2>3, Zenon DEF ProxiesAgree
  <1>8. ProxyOrder'
    <2> SUFFICES ASSUME NEW f \in Engines, NEW T \in SUBSET byEngine'[f], T # {}
                 PROVE  \E p \in T : \A q \in T \ {p} : <<p, q>> \in before'
      BY Zenon DEF ProxyOrder
    <2>1. CASE f = e
      <3>1. T \in SUBSET ps /\ T \cap gone = {}
        BY <1>4, <2>1, Zenon
      <3>2. PICK p \in T : \A q \in T \ {p} : <<p, q>> \in order
        BY <3>1, Zenon DEF Sound
      <3>3. \A q \in T \ {p} : <<p, q>> \in before'
        BY <3>1, <3>2, Zenon DEF Commit
      <3> QED
        BY <3>3, Zenon
    <2>2. CASE f # e
      <3>1. T \in SUBSET byEngine[f] /\ T \cap ps = {}
        BY <1>4, <1>5, <2>2, Zenon
      <3>2. PICK p \in T : \A q \in T \ {p} : <<p, q>> \in before
        BY <3>1, Zenon DEF StoreInv, ProxyOrder
      <3>3. \A q \in T \ {p} : <<p, q>> \in order
        BY <3>1, <3>2, Zenon DEF Sound
      <3>4. \A q \in T \ {p} : <<p, q>> \in before'
        BY <3>1, <3>3, Zenon DEF Commit, Sound
      <3> QED
        BY <3>4, Zenon
    <2> QED
      BY <2>1, <2>2, Zenon
  <1>9. ProxiesFinite'
    BY <1>4, FS_Subset, Zenon DEF Sound, StoreInv, ProxiesFinite
  <1>10. InactiveRetriesBounded'
    <2> SUFFICES ASSUME NEW f \in Engines
                 PROVE  Cardinality(InactiveRetries(proxies, byEngine[f])') <= MaxInactive
      BY Zenon DEF InactiveRetriesBounded
    <2>1. CASE f = e
      <3>1. InactiveRetries(proxies, byEngine[f])' = InactiveRetries(px, ps) \ gone
        BY <1>2, <1>4, <2>1 DEF InactiveRetries, Sound
      <3> QED
        BY <3>1, Zenon DEF Sound
    <2>2. CASE f # e
      <3>1. byEngine[f] \subseteq Proxies \ ps
        BY <1>t, <1>5, <2>2, Zenon DEF StoreTypeOK
      <3>2. \A p \in byEngine[f] : proxies'[p] = proxies[p]
        BY <1>2, <3>1, Zenon DEF Sound
      <3>3. InactiveRetries(proxies, byEngine[f])' = InactiveRetries(proxies, byEngine[f])
        BY <1>4, <2>2, <3>2, Zenon DEF InactiveRetries
      <3> QED
        BY <3>3, Zenon DEF StoreInv, InactiveRetriesBounded
    <2> QED
      BY <2>1, <2>2, Zenon
  <1> QED
    BY <1>1, <1>6, <1>7, <1>8, <1>9, <1>10, Zenon DEF StoreInv

-----------------------------------------------------------------------------
\* What the invariant says of the proxies of one Engine.
LEMMA Tracked ==
    ASSUME StoreInv, NEW e \in Engines, NEW p \in byEngine[e]
    PROVE  /\ p \in Proxies
           /\ proxies[p] \in ProxySnapshot
           /\ proxies[p].engineKey = e
           /\ cache[p] \in Version
           /\ meta[e] # None
           /\ cache[p].base = meta[e].version
  <1>1. p \in Proxies /\ proxies[p] # None /\ proxies[p].engineKey = e /\ cache[p] # None
    BY DEF StoreInv, ProxiesAgree
  <1> QED
    BY <1>1, Zenon DEF StoreInv, StoreTypeOK, ServedIsCurrent

\* A proxy that takes the next sequence number is the youngest, and the order
\* of the others is kept.
LEMMA TouchOrder ==
    ASSUME StoreInv, NEW e \in Engines, NEW p \in Proxies
    PROVE  LET ps == byEngine[e] \cup {p}
           IN  /\ Touch(p, ps) \in SUBSET (Proxies \X Proxies)
               /\ \A r \in before : r[1] \notin ps /\ r[2] \notin ps => r \in Touch(p, ps)
               /\ \A T \in SUBSET ps :
                     T # {} => \E x \in T : \A q \in T \ {x} : <<x, q>> \in Touch(p, ps)
  <1> DEFINE ps == byEngine[e] \cup {p}
  <1>1. Touch(p, ps) \in SUBSET (Proxies \X Proxies)
    BY TouchType DEF StoreInv, StoreTypeOK
  <1>2. ASSUME NEW r \in before, r[1] \notin ps /\ r[2] \notin ps
        PROVE  r \in Touch(p, ps)
    BY <1>2, Zenon DEF Touch
  <1>3. ASSUME NEW T \in SUBSET ps, T # {}
        PROVE  \E x \in T : \A q \in T \ {x} : <<x, q>> \in Touch(p, ps)
    <2>1. CASE T = {p}
      BY <2>1, Zenon
    <2>2. CASE T # {p}
      <3>1. T \ {p} \in SUBSET byEngine[e] /\ T \ {p} # {}
        BY <1>3, <2>2, Zenon
      <3>2. PICK x \in T \ {p} : \A q \in (T \ {p}) \ {x} : <<x, q>> \in before
        BY <3>1, Zenon DEF StoreInv, ProxyOrder
      <3>3. \A q \in T \ {x} : <<x, q>> \in Touch(p, ps)
        BY <3>2, Zenon DEF Touch
      <3> QED
        BY <3>3, Zenon
    <2> QED
      BY <2>1, <2>2, Zenon
  <1> QED
    BY <1>1, <1>2, <1>3, Zenon

\* evictInactiveRetriesLocked restores the bound after at most one proxy joined
\* the candidates: the oldest of MaxInactive + 1 candidates has MaxInactive
\* younger ones.
LEMMA EvictionBounds ==
    ASSUME NEW px, NEW ps, IsFiniteSet(ps), NEW order, NEW p,
           \A T \in SUBSET ps :
               T # {} => \E x \in T : \A q \in T \ {x} : <<x, q>> \in order,
           Cardinality(InactiveRetries(px, ps) \ {p}) <= MaxInactive
    PROVE  Cardinality(InactiveRetries(px, ps) \ Evicted(px, ps, order)) <= MaxInactive
  <1> DEFINE S == InactiveRetries(px, ps)
             K == S \ Evicted(px, ps, order)
  <1>1. S \in SUBSET ps /\ K \in SUBSET S
    BY Zenon DEF InactiveRetries
  <1>2. IsFiniteSet(S) /\ Cardinality(S) \in Nat
    BY <1>1, FS_Subset, FS_CardinalityType, Zenon
  <1>3. IsFiniteSet(K) /\ Cardinality(K) \in Nat /\ Cardinality(K) <= Cardinality(S)
    BY <1>1, <1>2, FS_Subset, FS_CardinalityType, Zenon
  <1>4. Cardinality(S) <= MaxInactive + 1
    <2> HIDE DEF S
    <2>1. Cardinality(S \ {p}) = IF p \in S THEN Cardinality(S) - 1 ELSE Cardinality(S)
      BY <1>2, FS_RemoveElement, Zenon
    <2>2. Cardinality(S \ {p}) <= MaxInactive
      BY Zenon DEF S
    <2> QED
      BY <1>2, <2>1, <2>2, StoreAssumption
  <1>5. CASE Cardinality(S) <= MaxInactive
    BY <1>2, <1>3, <1>5, StoreAssumption
  <1>6. CASE Cardinality(S) = MaxInactive + 1
    <2>1. S # {}
      BY <1>6, FS_EmptySet, StoreAssumption
    <2>2. PICK x \in S : \A q \in S \ {x} : <<x, q>> \in order
      BY <1>1, <2>1, Zenon
    <2> DEFINE Y == {q \in S : <<x, q>> \in order}
    <2>3. S \ {x} \in SUBSET Y /\ Y \in SUBSET S
      BY <2>2, Zenon
    <2>4. Cardinality(S \ {x}) = MaxInactive
      <3> HIDE DEF S
      <3>1. Cardinality(S \ {x}) = IF x \in S THEN Cardinality(S) - 1 ELSE Cardinality(S)
        BY <1>2, FS_RemoveElement, Zenon
      <3> QED
        BY <1>6, <2>2, <3>1, StoreAssumption
    <2>5. IsFiniteSet(Y) /\ Cardinality(Y) \in Nat /\ Cardinality(S \ {x}) <= Cardinality(Y)
      BY <1>2, <2>3, FS_Subset, FS_CardinalityType, Zenon
    <2>6. x \in Evicted(px, ps, order)
      BY <2>4, <2>5, StoreAssumption, Zenon DEF Evicted
    <2>7. K \in SUBSET (S \ {x}) /\ IsFiniteSet(S \ {x})
      BY <1>2, <2>6, FS_RemoveElement, Zenon
    <2> QED
      BY <2>4, <2>7, FS_Subset, StoreAssumption, Zenon
  <1> QED
    BY <1>2, <1>4, <1>5, <1>6, StoreAssumption


-----------------------------------------------------------------------------
\* Replace preserves the invariant: idle proxies go, busy ones get the new content.
LEMMA ReplaceInv ==
    ASSUME StoreInv, NEW e \in Engines, NEW u \in UIDs, NEW v \in Versions,
           Replace(e, u, v)
    PROVE  StoreInv'
  <1> DEFINE ps == byEngine[e]
             idle == {p \in byEngine[e] : proxies[p].active = 0}
             busy == byEngine[e] \ idle
             px == [p \in Proxies |-> IF p \in busy
                                      THEN [proxies[p] EXCEPT !.retryUnacked = FALSE]
                                      ELSE proxies[p]]
             c == [k \in Engines \cup Proxies |-> IF k \in busy \cup {e} THEN Retry(v, 0)
                                                  ELSE cache[k]]
             new == [name |-> <<e, u>>, version |-> v]
  <1>t. StoreTypeOK
    BY Zenon DEF StoreInv
  <1>1. Commit(e, px, ps, c, before, idle)
    BY Zenon DEF Replace, Republished
  <1>2. /\ new \in Snapshot /\ new # None
        /\ meta' = [meta EXCEPT ![e] = new]
        /\ meta' \in [Engines -> Snapshot \cup {None}]
        /\ meta'[e] = new /\ \A f \in Engines \ {e} : meta'[f] = meta[f]
    BY <1>t, StoreAssumption DEF Replace, StoreTypeOK, Snapshot, Names
  <1>3. resources' \in [Names -> Engines \cup {None}]
    BY <1>t, Zenon DEF Replace, StoreTypeOK
  <1>4. NamesAgree'
    <2>1. \A n \in Names : resources'[n] =
              IF n = <<e, u>> THEN e
              ELSE IF meta[e] # None /\ meta[e].name = n THEN None
              ELSE resources[n]
      BY Zenon DEF Replace
    <2>2. \A f \in Engines \ {e} : meta[f] # None => meta[f].name # <<e, u>>
      BY DEF StoreInv, NamesAgree
    <2>3. ASSUME NEW n \in Names, NEW f \in Engines
          PROVE  resources'[n] = f <=> meta'[f] # None /\ meta'[f].name = n
      <3>1. CASE f = e
        BY <1>2, <2>1, <3>1, StoreAssumption DEF StoreInv, NamesAgree
      <3>2. CASE f # e
        BY <1>2, <2>1, <2>2, <3>2, StoreAssumption DEF StoreInv, NamesAgree
      <3> QED
        BY <3>1, <3>2, Zenon
    <2>4. ASSUME NEW f \in Engines, meta'[f] # None
          PROVE  meta'[f].name[1] = f
      BY <1>2, <2>4 DEF StoreInv, NamesAgree
    <2> QED
      BY <2>3, <2>4, Zenon DEF NamesAgree
  <1>5. \A p \in ps : /\ px[p] \in ProxySnapshot
                      /\ px[p].engineKey = e
                      /\ p \notin idle => px[p].active # 0
    <2> SUFFICES ASSUME NEW p \in ps
                 PROVE  /\ px[p] \in ProxySnapshot
                        /\ px[p].engineKey = e
                        /\ p \notin idle => px[p].active # 0
      OBVIOUS
    <2>1. p \in Proxies /\ proxies[p] \in ProxySnapshot /\ proxies[p].engineKey = e
      BY Tracked, Zenon
    <2>2. CASE p \in busy
      <3>1. px[p] = [proxies[p] EXCEPT !.retryUnacked = FALSE] /\ proxies[p].active # 0
        BY <2>1, <2>2, Zenon
      <3> QED
        BY <2>1, <3>1, Zenon DEF ProxySnapshot
    <2>3. CASE p \notin busy
      BY <2>1, <2>3, Zenon
    <2> QED
      BY <2>2, <2>3, Zenon
  <1>6. px \in [Proxies -> ProxySnapshot \cup {None}]
    BY <1>t, <1>5, Zenon DEF StoreTypeOK
  <1>7. c \in [Engines \cup Proxies -> Version \cup {None}]
    BY <1>t, RetryType, Zenon DEF StoreTypeOK
  <1>8. \A p \in ps \ idle : c[p] # None /\ c[p].base = meta'[e].version
    BY <1>2, <1>t, RetryType, StoreAssumption DEF Retry, StoreTypeOK
  <1>9. Cardinality(InactiveRetries(px, ps) \ idle) <= MaxInactive
    <2>1. InactiveRetries(px, ps) \ idle = {}
      BY <1>5, Zenon DEF InactiveRetries
    <2>2. Cardinality({}) = 0
      BY FS_EmptySet, Zenon
    <2> HIDE DEF px, ps, idle
    <2> QED
      BY <2>1, <2>2, StoreAssumption
  <1>10. ps \in SUBSET Proxies /\ idle \in SUBSET ps /\ IsFiniteSet(ps)
    BY <1>t, Zenon DEF StoreTypeOK, StoreInv, ProxiesFinite
  <1>11. Sound(e, px, ps, c, before, idle)
    <2>1. \A p \in ps : px[p] # None /\ px[p].engineKey = e /\ proxies[p].engineKey = e
      BY <1>5, Tracked, StoreAssumption
    <2>2. \A p \in Proxies \ ps : px[p] = proxies[p] /\ c[p] = cache[p]
      BY <1>10, StoreAssumption, Zenon
    <2>3. /\ \A f \in Engines \ {e} : c[f] = cache[f]
          /\ c[e] = Retry(v, 0)
      BY <1>10, StoreAssumption, Zenon
    <2>4. \A T \in SUBSET ps : T # {} => \E p \in T : \A q \in T \ {p} : <<p, q>> \in before
      BY Zenon DEF StoreInv, ProxyOrder
    <2> HIDE DEF px, c, idle, ps
    <2> QED
      BY <1>t, <1>2, <1>6, <1>7, <1>8, <1>9, <1>10, <2>1, <2>2, <2>3, <2>4, Zenon
      DEF Sound, StoreTypeOK, ps
  <1> HIDE DEF px, c, idle, ps
  <1> QED
    BY <1>1, <1>2, <1>3, <1>4, <1>11, CommitPreserves, Zenon

\* DeleteEngine preserves the invariant.
LEMMA DeleteInv ==
    ASSUME StoreInv, NEW e \in Engines, DeleteEngine(e)
    PROVE  StoreInv'
  <1> DEFINE ps == byEngine[e]
             c == [cache EXCEPT ![e] = None]
  <1>t. StoreTypeOK
    BY Zenon DEF StoreInv
  <1>1. Commit(e, proxies, ps, c, before, ps)
    BY Zenon DEF DeleteEngine
  <1>2. /\ meta' \in [Engines -> Snapshot \cup {None}]
        /\ meta'[e] = None /\ \A f \in Engines \ {e} : meta'[f] = meta[f]
    BY <1>t, Zenon DEF DeleteEngine, StoreTypeOK
  <1>3. resources' \in [Names -> Engines \cup {None}]
    BY <1>t, Zenon DEF DeleteEngine, StoreTypeOK
  <1>4. NamesAgree'
    <2>1. \A n \in Names : resources'[n] =
              IF meta[e] # None /\ meta[e].name = n THEN None ELSE resources[n]
      BY Zenon DEF DeleteEngine
    <2>2. ASSUME NEW n \in Names, NEW f \in Engines
          PROVE  resources'[n] = f <=> meta'[f] # None /\ meta'[f].name = n
      BY <1>2, <2>1, StoreAssumption DEF StoreInv, NamesAgree
    <2> QED
      BY <1>2, <2>2 DEF NamesAgree, StoreInv
  <1>5. \A p \in ps : p \in Proxies /\ proxies[p] # None /\ proxies[p].engineKey = e
    BY Tracked, StoreAssumption
  <1>6. /\ c \in [Engines \cup Proxies -> Version \cup {None}]
        /\ c[e] = None
        /\ \A f \in Engines \ {e} : c[f] = cache[f]
        /\ \A p \in Proxies : c[p] = cache[p]
    BY <1>t, StoreAssumption, Zenon DEF StoreTypeOK
  <1>7. Cardinality(InactiveRetries(proxies, ps) \ ps) <= MaxInactive
    <2>1. InactiveRetries(proxies, ps) \ ps = {}
      BY Zenon DEF InactiveRetries
    <2>2. Cardinality({}) = 0
      BY FS_EmptySet, Zenon
    <2> QED
      BY <2>1, <2>2, StoreAssumption
  <1>8. ps \in SUBSET Proxies /\ IsFiniteSet(ps)
    BY <1>t, Zenon DEF StoreTypeOK, StoreInv, ProxiesFinite
  <1>9. \A T \in SUBSET ps : T # {} => \E p \in T : \A q \in T \ {p} : <<p, q>> \in before
    BY Zenon DEF StoreInv, ProxyOrder
  <1>10. Sound(e, proxies, ps, c, before, ps)
    <2> HIDE DEF c
    <2> QED
      BY <1>t, <1>2, <1>5, <1>6, <1>7, <1>8, <1>9, Zenon DEF Sound, StoreTypeOK
  <1> HIDE DEF c, ps
  <1> QED
    BY <1>1, <1>2, <1>3, <1>4, <1>10, CommitPreserves, Zenon

\* BumpRejected, BindRejectedRetry and ReleaseRejectedRetry write one proxy of a
\* published Engine.  It is enough that the proxy's entry is well formed, that its
\* snapshot derives from the published version and that the bound holds after.
LEMMA OneProxyInv ==
    ASSUME StoreInv, NEW e \in Engines, NEW p \in Proxies, NEW ent \in ProxySnapshot,
           NEW ver \in Version, NEW order, NEW gone,
           meta[e] # None, ent.engineKey = e, ver.base = meta[e].version,
           proxies[p] # None => proxies[p].engineKey = e,
           \/ order = Touch(p, byEngine[e] \cup {p})
           \/ order = before /\ p \in byEngine[e],
           gone \in SUBSET (byEngine[e] \cup {p}),
           Cardinality(InactiveRetries([proxies EXCEPT ![p] = ent],
                                       byEngine[e] \cup {p}) \ gone) <= MaxInactive,
           Commit(e, [proxies EXCEPT ![p] = ent], byEngine[e] \cup {p},
                  [cache EXCEPT ![p] = ver], order, gone),
           UNCHANGED <<meta, resources>>
    PROVE  StoreInv'
  <1> DEFINE ps == byEngine[e] \cup {p}
             px == [proxies EXCEPT ![p] = ent]
             c == [cache EXCEPT ![p] = ver]
  <1>t. StoreTypeOK
    BY Zenon DEF StoreInv
  <1>1. /\ px \in [Proxies -> ProxySnapshot \cup {None}]
        /\ px[p] = ent /\ \A q \in Proxies \ {p} : px[q] = proxies[q]
    BY <1>t, Zenon DEF StoreTypeOK
  <1>2. /\ c \in [Engines \cup Proxies -> Version \cup {None}]
        /\ c[p] = ver /\ \A k \in (Engines \cup Proxies) \ {p} : c[k] = cache[k]
    BY <1>t, Zenon DEF StoreTypeOK
  <1>3. ps \in SUBSET Proxies /\ IsFiniteSet(ps)
    BY <1>t, FS_AddElement, Zenon DEF StoreTypeOK, StoreInv, ProxiesFinite
  <1>4. \A q \in ps : /\ px[q] # None /\ px[q].engineKey = e
                      /\ proxies[q] # None => proxies[q].engineKey = e
                      /\ c[q] # None /\ c[q].base = meta[e].version
    <2> SUFFICES ASSUME NEW q \in ps
                 PROVE  /\ px[q] # None /\ px[q].engineKey = e
                        /\ proxies[q] # None => proxies[q].engineKey = e
                        /\ c[q] # None /\ c[q].base = meta[e].version
      OBVIOUS
    <2>1. CASE q = p
      BY <1>1, <1>2, <2>1, StoreAssumption
    <2>2. CASE q # p
      <3>1. q \in byEngine[e] /\ q \in Proxies
        BY <1>3, <2>2, Zenon
      <3>2. /\ proxies[q] \in ProxySnapshot /\ proxies[q].engineKey = e
            /\ cache[q] \in Version /\ cache[q].base = meta[e].version
        BY <3>1, Tracked, Zenon
      <3> QED
        BY <1>1, <1>2, <2>2, <3>1, <3>2, StoreAssumption, Zenon
    <2> QED
      BY <2>1, <2>2, Zenon
  <1>5. /\ order \in SUBSET (Proxies \X Proxies)
        /\ \A r \in before : r[1] \notin ps /\ r[2] \notin ps => r \in order
        /\ \A T \in SUBSET ps : T # {} => \E x \in T : \A q \in T \ {x} : <<x, q>> \in order
    <2>1. CASE order = Touch(p, ps)
      <3>1. /\ Touch(p, ps) \in SUBSET (Proxies \X Proxies)
            /\ \A r \in before : r[1] \notin ps /\ r[2] \notin ps => r \in Touch(p, ps)
            /\ \A T \in SUBSET ps :
                  T # {} => \E x \in T : \A q \in T \ {x} : <<x, q>> \in Touch(p, ps)
        BY TouchOrder, Zenon
      <3> HIDE DEF ps
      <3> QED
        BY <2>1, <3>1, Zenon
    <2>2. CASE order = before /\ p \in byEngine[e]
      <3>1. ps = byEngine[e]
        BY <2>2, Zenon
      <3> QED
        BY <1>t, <2>2, <3>1 DEF StoreTypeOK, StoreInv, ProxyOrder
    <2> QED
      BY <2>1, <2>2, Zenon
  <1>6. /\ \A f \in Engines : c[f] = cache[f]
        /\ cache[e] = Retry(meta[e].version, 0)
    <2>1. cache[e] = Retry(meta[e].version, 0)
      BY Zenon DEF StoreInv, ServedIsCurrent
    <2>2. \A f \in Engines : f \in (Engines \cup Proxies) \ {p}
      BY StoreAssumption, Zenon
    <2> HIDE DEF c
    <2> QED
      BY <1>2, <2>1, <2>2, Zenon
  <1>7. Sound(e, px, ps, c, order, gone)
    <2>1. \A q \in Proxies \ ps : px[q] = proxies[q] /\ c[q] = cache[q]
      BY <1>1, <1>2, Zenon
    <2>2. Cardinality(InactiveRetries(px, ps) \ gone) <= MaxInactive
      OBVIOUS
    <2>3. byEngine[e] \subseteq ps /\ gone \in SUBSET ps
      OBVIOUS
    <2> HIDE DEF px, c, ps
    <2> QED
      BY <1>1, <1>2, <1>3, <1>4, <1>5, <1>6, <2>1, <2>2, <2>3 DEF Sound
  <1>8. Commit(e, px, ps, c, order, gone)
    OBVIOUS
  <1>9. NamesAgree'
    BY DEF StoreInv, NamesAgree
  <1>10. /\ meta' \in [Engines -> Snapshot \cup {None}]
         /\ resources' \in [Names -> Engines \cup {None}]
    BY <1>t, Zenon DEF StoreTypeOK
  <1> HIDE DEF px, c, ps
  <1> QED
    BY <1>7, <1>8, <1>9, <1>10, CommitPreserves, Zenon

\* Writing the entry of p leaves the other candidates for eviction alone, so
\* without p the bound still holds.
LEMMA OthersBounded ==
    ASSUME StoreInv, NEW e \in Engines, NEW p \in Proxies, NEW ent
    PROVE  LET ps == byEngine[e] \cup {p}
               S == InactiveRetries([proxies EXCEPT ![p] = ent], ps)
           IN  /\ IsFiniteSet(ps)
               /\ IsFiniteSet(S \ {p})
               /\ Cardinality(S \ {p}) \in Nat
               /\ Cardinality(S \ {p}) <= MaxInactive
  <1> DEFINE ps == byEngine[e] \cup {p}
             S == InactiveRetries([proxies EXCEPT ![p] = ent], ps)
             O == InactiveRetries(proxies, byEngine[e])
  <1>1. IsFiniteSet(byEngine[e]) /\ Cardinality(O) <= MaxInactive
    BY Zenon DEF StoreInv, ProxiesFinite, InactiveRetriesBounded
  <1>2. IsFiniteSet(ps)
    BY <1>1, FS_AddElement, Zenon
  <1>3. O \in SUBSET byEngine[e]
    BY Zenon DEF InactiveRetries
  <1>4. S \ {p} \in SUBSET O
    <2>1. \A q \in byEngine[e] \ {p} : [proxies EXCEPT ![p] = ent][q] = proxies[q]
      BY Zenon DEF StoreInv, StoreTypeOK
    <2> QED
      BY <2>1, Zenon DEF InactiveRetries
  <1>5. IsFiniteSet(O)
    BY <1>1, <1>3, FS_Subset, Zenon
  <1> HIDE DEF S, O
  <1>6. /\ IsFiniteSet(S \ {p})
        /\ Cardinality(S \ {p}) <= Cardinality(O)
        /\ Cardinality(S \ {p}) \in Nat /\ Cardinality(O) \in Nat
    BY <1>4, <1>5, FS_Subset, FS_CardinalityType, Zenon
  <1> QED
    BY <1>1, <1>2, <1>6, StoreAssumption DEF S

\* After the write of p's entry and p's new sequence number, eviction restores
\* the bound.
LEMMA EvictedBounded ==
    ASSUME StoreInv, NEW e \in Engines, NEW p \in Proxies, NEW ent, NEW order,
           \/ order = Touch(p, byEngine[e] \cup {p})
           \/ order = before /\ p \in byEngine[e],
           NEW gone,
           Evicted([proxies EXCEPT ![p] = ent], byEngine[e] \cup {p}, order) \subseteq gone
    PROVE  Cardinality(InactiveRetries([proxies EXCEPT ![p] = ent],
                                       byEngine[e] \cup {p}) \ gone) <= MaxInactive
  <1> DEFINE ps == byEngine[e] \cup {p}
             px == [proxies EXCEPT ![p] = ent]
             S == InactiveRetries(px, ps)
             K == S \ Evicted(px, ps, order)
  <1>1. /\ IsFiniteSet(ps) /\ Cardinality(S \ {p}) <= MaxInactive
    BY OthersBounded, Zenon
  <1>2. \A T \in SUBSET ps : T # {} => \E x \in T : \A q \in T \ {x} : <<x, q>> \in order
    <2>1. CASE order = Touch(p, ps)
      BY <2>1, TouchOrder, Zenon
    <2>2. CASE order = before /\ p \in byEngine[e]
      <3>1. ps = byEngine[e]
        BY <2>2, Zenon
      <3> QED
        BY <2>2, <3>1, Zenon DEF StoreInv, ProxyOrder
    <2> QED
      BY <2>1, <2>2, Zenon
  <1>3. S \in SUBSET ps /\ S \ gone \in SUBSET K
    BY Zenon DEF InactiveRetries
  <1> HIDE DEF ps, px
  <1>4. Cardinality(K) <= MaxInactive
    BY <1>1, <1>2, EvictionBounds, Zenon
  <1>5. IsFiniteSet(K)
    BY <1>1, <1>3, FS_Subset, Zenon
  <1> HIDE DEF S, K
  <1>6. /\ Cardinality(S \ gone) <= Cardinality(K)
        /\ Cardinality(S \ gone) \in Nat /\ Cardinality(K) \in Nat
    BY <1>3, <1>5, FS_Subset, FS_CardinalityType, Zenon
  <1> QED
    BY <1>4, <1>6, StoreAssumption DEF S, px, ps

\* BumpRejected preserves the invariant.
LEMMA BumpInv ==
    ASSUME StoreInv, NEW name \in Names, NEW p \in Proxies, NEW base, NEW n \in Nat,
           BumpRejected(name, p, base, n)
    PROVE  StoreInv'
  <1> DEFINE e == snapshotForResource(name)
             ps == byEngine[e] \cup {p}
             active == IF proxies[p] = None THEN 0 ELSE proxies[p].active
             ent == [engineKey |-> e, active |-> active, retryUnacked |-> TRUE]
             px == [proxies EXCEPT ![p] = ent]
             ver == Retry(meta[e].version, n)
             order == Touch(p, ps)
             gone == Evicted(px, ps, order)
  <1>t. StoreTypeOK
    BY Zenon DEF StoreInv
  <1>1. /\ e \in Engines /\ meta[e] \in Snapshot /\ meta[e] # None
        /\ proxies[p] # None => proxies[p].engineKey = e
    BY <1>t, Resolved, StoreAssumption, Zenon DEF BumpRejected, CanBump
  <1>2. ent \in ProxySnapshot /\ ent.engineKey = e
    BY <1>t, <1>1, Zenon DEF StoreTypeOK, ProxySnapshot
  <1>3. ver \in Version /\ ver.base = meta[e].version
    BY <1>1, RetryType, Zenon DEF Retry, Snapshot
  <1>4. Commit(e, px, ps, [cache EXCEPT ![p] = ver], order, gone)
    BY Zenon DEF BumpRejected
  <1>5. UNCHANGED <<meta, resources>>
    BY Zenon DEF BumpRejected
  <1>6. gone \in SUBSET ps
    BY Zenon DEF Evicted, InactiveRetries
  <1> HIDE DEF e, ent, ver
  <1>7. Cardinality(InactiveRetries(px, ps) \ gone) <= MaxInactive
    BY <1>1, EvictedBounded, Zenon
  <1>8. \/ order = Touch(p, ps)
        \/ order = before /\ p \in byEngine[e]
    OBVIOUS
  <1> HIDE DEF gone, order
  <1> QED
    BY <1>1, <1>2, <1>3, <1>4, <1>5, <1>6, <1>7, <1>8, OneProxyInv, Zenon

\* BindRejectedRetry preserves the invariant.
LEMMA BindInv ==
    ASSUME StoreInv, NEW name \in Names, NEW p \in Proxies, NEW version \in Version,
           BindRejectedRetry(name, p, version)
    PROVE  StoreInv'
  <1> DEFINE e == snapshotForResource(name)
             ps == byEngine[e] \cup {p}
             fresh == proxies[p] = None
             ent == IF fresh THEN [engineKey |-> e, active |-> 1, retryUnacked |-> FALSE]
                    ELSE [proxies[p] EXCEPT !.active = proxies[p].active + 1]
             px == [proxies EXCEPT ![p] = ent]
             again == Retry(meta[e].version, version.attempt)
             ver == IF HasRetry(p, e) THEN cache[p] ELSE again
             order == IF fresh THEN Touch(p, ps) ELSE before
  <1>t. StoreTypeOK
    BY Zenon DEF StoreInv
  <1>1. /\ e \in Engines /\ meta[e] \in Snapshot /\ meta[e] # None
        /\ proxies[p] # None => proxies[p].engineKey = e
        /\ HasRetry(p, e) \/ IsRetryOf(version, e)
    BY <1>t, Resolved, StoreAssumption, Zenon DEF BindRejectedRetry, CanBind
  <1>2. ent \in ProxySnapshot /\ ent.engineKey = e /\ ent.active # 0
    <2>1. CASE fresh
      <3>1. ent = [engineKey |-> e, active |-> 1, retryUnacked |-> FALSE]
        BY <2>1, Zenon
      <3> HIDE DEF ent, e
      <3> QED
        BY <1>1, <3>1, SMT DEF ProxySnapshot
    <2>2. CASE ~fresh
      <3>1. ent = [proxies[p] EXCEPT !.active = proxies[p].active + 1]
        BY <2>2, Zenon
      <3>2. proxies[p] \in ProxySnapshot /\ proxies[p].engineKey = e
        BY <1>t, <1>1, <2>2, Zenon DEF StoreTypeOK
      <3>3. proxies[p].active \in Nat
        BY <3>2, Zenon DEF ProxySnapshot
      <3>4. proxies[p].active + 1 \in Nat /\ proxies[p].active + 1 # 0
        BY <3>3
      <3>5. ent \in ProxySnapshot /\ ent.engineKey = e /\ ent.active = proxies[p].active + 1
        <4> HIDE DEF ent
        <4> QED
          BY <3>1, <3>2, <3>4, Zenon DEF ProxySnapshot
      <3> QED
        BY <3>4, <3>5
    <2> QED
      BY <2>1, <2>2, Zenon
  <1>3. ver \in Version /\ ver.base = meta[e].version
    <2>1. again \in Version /\ again.base = meta[e].version
      BY <1>1, Zenon DEF Retry, Version, Snapshot
    <2>2. HasRetry(p, e) => cache[p] \in Version /\ cache[p].base = meta[e].version
      BY <1>t, Zenon DEF HasRetry, IsRetryOf, StoreTypeOK
    <2> HIDE DEF again
    <2> QED
      BY <2>1, <2>2, Zenon
  <1>4. Commit(e, px, ps, [cache EXCEPT ![p] = ver], order, {})
    <2>1. Commit(e, px, ps, IF HasRetry(p, e) THEN cache ELSE [cache EXCEPT ![p] = again],
                 order, {})
      BY Zenon DEF BindRejectedRetry
    <2>2. [cache EXCEPT ![p] = ver]
            = IF HasRetry(p, e) THEN cache ELSE [cache EXCEPT ![p] = again]
      BY <1>t, Zenon DEF StoreTypeOK
    <2> QED
      BY <2>1, <2>2, Zenon
  <1>5. UNCHANGED <<meta, resources>>
    BY Zenon DEF BindRejectedRetry
  <1>6. \/ order = Touch(p, ps)
        \/ order = before /\ p \in byEngine[e]
    BY <1>1, Zenon DEF StoreInv, ProxiesAgree
  <1>7. px[p] = ent
    BY <1>t, Zenon DEF StoreTypeOK
  <1> HIDE DEF e, ent, ver, order
  <1>8. Cardinality(InactiveRetries(px, ps) \ {}) <= MaxInactive
    <2>1. InactiveRetries(px, ps) \ {} = InactiveRetries(px, ps) \ {p}
      BY <1>2, <1>7, Zenon DEF InactiveRetries
    <2>2. Cardinality(InactiveRetries(px, ps) \ {p}) <= MaxInactive
      BY <1>1, OthersBounded, Zenon
    <2> QED
      BY <2>1, <2>2, Zenon
  <1>9. {} \in SUBSET ps
    OBVIOUS
  <1> QED
    BY <1>1, <1>2, <1>3, <1>4, <1>5, <1>6, <1>8, <1>9, OneProxyInv, Zenon

\* ReleaseRejectedRetry preserves the invariant.
LEMMA ReleaseInv ==
    ASSUME StoreInv, NEW p \in Proxies, ReleaseRejectedRetry(p)
    PROVE  StoreInv'
  <1> DEFINE e == proxies[p].engineKey
             ps == byEngine[e] \cup {p}
             active == IF proxies[p].active > 0 THEN proxies[p].active - 1 ELSE 0
             ent == [proxies[p] EXCEPT !.active = active]
             px == [proxies EXCEPT ![p] = ent]
             order == IF active = 0 THEN Touch(p, byEngine[e]) ELSE before
             done == IF active = 0 /\ ~proxies[p].retryUnacked THEN {p} ELSE {}
             gone == done \cup Evicted(px, byEngine[e], order)
  <1>t. StoreTypeOK
    BY Zenon DEF StoreInv
  <1>1. proxies[p] \in ProxySnapshot /\ e \in Engines
    BY <1>t, Zenon DEF ReleaseRejectedRetry, ReleaseTo, StoreTypeOK, ProxySnapshot
  <1>2. p \in byEngine[e] /\ ps = byEngine[e]
    BY <1>1, Zenon DEF ReleaseRejectedRetry, ReleaseTo, StoreInv, ProxiesAgree
  <1>3. /\ meta[e] # None
        /\ cache[p] \in Version
        /\ cache[p].base = meta[e].version
    BY <1>1, <1>2, Tracked, Zenon
  <1>4. active \in Nat
    <2>1. proxies[p].active \in Nat
      BY <1>1, Zenon DEF ProxySnapshot
    <2> QED
      BY <2>1
  <1>5. ent \in ProxySnapshot /\ ent.engineKey = e
    <2> HIDE DEF active
    <2> QED
      BY <1>1, <1>4, Zenon DEF ProxySnapshot
  <1>6. Commit(e, px, ps, [cache EXCEPT ![p] = cache[p]], order, gone)
    <2>1. Commit(e, px, byEngine[e], cache, order, gone)
      BY Zenon DEF ReleaseRejectedRetry, ReleaseTo
    <2>2. cache = [cache EXCEPT ![p] = cache[p]]
      BY <1>t, Zenon DEF StoreTypeOK
    <2> HIDE DEF gone, order, px
    <2> QED
      BY <1>2, <2>1, <2>2, Zenon
  <1>7. UNCHANGED <<meta, resources>>
    BY Zenon DEF ReleaseRejectedRetry, ReleaseTo
  <1>8. \/ order = Touch(p, ps)
        \/ order = before /\ p \in byEngine[e]
    BY <1>2, Zenon
  <1>9. gone \in SUBSET ps
    BY <1>2, Zenon DEF Evicted, InactiveRetries
  <1>10. Evicted(px, ps, order) \subseteq gone
    BY <1>2, Zenon
  <1> HIDE DEF e, ent, order, gone
  <1>11. Cardinality(InactiveRetries(px, ps) \ gone) <= MaxInactive
    BY <1>1, <1>8, <1>10, EvictedBounded, Zenon
  <1>12. proxies[p] # None => proxies[p].engineKey = e
    BY Zenon DEF e
  <1> QED
    BY <1>1, <1>3, <1>5, <1>6, <1>7, <1>8, <1>9, <1>11, <1>12, OneProxyInv, Zenon

\* An acknowledgement only removes a candidate for eviction.
LEMMA AckInv ==
    ASSUME StoreInv, NEW p \in Proxies, NEW version, AckRejected(p, version)
    PROVE  StoreInv'
  <1> DEFINE ent == [proxies[p] EXCEPT !.retryUnacked = FALSE]
  <1>t. StoreTypeOK
    BY Zenon DEF StoreInv
  <1>1. proxies[p] \in ProxySnapshot /\ proxies[p] # None
    BY <1>t, Zenon DEF AckRejected, StoreTypeOK
  <1>2. ent \in ProxySnapshot /\ ent # None /\ ent.engineKey = proxies[p].engineKey
    BY <1>1, StoreAssumption, Zenon DEF ProxySnapshot
  <1>3. ~ent.retryUnacked
    BY <1>1, Zenon DEF ProxySnapshot
  <1>4. /\ UNCHANGED <<cache, meta, resources, byEngine, before>>
        /\ proxies' = [proxies EXCEPT ![p] = ent]
    BY Zenon DEF AckRejected
  <1> HIDE DEF ent
  <1>5. /\ proxies'[p] = ent
        /\ \A q \in Proxies \ {p} : proxies'[q] = proxies[q]
    BY <1>t, <1>4, Zenon DEF StoreTypeOK
  <1>6. StoreTypeOK'
    BY <1>t, <1>2, <1>4, Zenon DEF StoreTypeOK
  <1>7. ServedIsCurrent'
    <2>1. \A q \in Proxies : proxies[q] # None =>
             proxies'[q] # None /\ proxies'[q].engineKey = proxies[q].engineKey
      BY <1>1, <1>2, <1>5, Zenon
    <2>2. \A e \in Engines :
             cache'[e] = IF meta'[e] = None THEN None ELSE Retry(meta'[e].version, 0)
      BY <1>4, Zenon DEF StoreInv, ServedIsCurrent
    <2>3. ASSUME NEW q \in Proxies, cache'[q] # None
          PROVE  /\ proxies'[q] # None
                 /\ meta'[proxies'[q].engineKey] # None
                 /\ cache'[q].base = meta'[proxies'[q].engineKey].version
      <3>1. /\ proxies[q] # None
            /\ meta[proxies[q].engineKey] # None
            /\ cache[q].base = meta[proxies[q].engineKey].version
        BY <1>4, <2>3, Zenon DEF StoreInv, ServedIsCurrent
      <3>2. proxies'[q] # None /\ proxies'[q].engineKey = proxies[q].engineKey
        BY <2>1, <2>3, <3>1, Zenon
      <3>3. meta' = meta /\ cache' = cache
        BY <1>4, Zenon
      <3> QED
        BY <3>1, <3>2, <3>3, Zenon
    <2> QED
      BY <2>2, <2>3, Zenon DEF ServedIsCurrent
  <1>8. NamesAgree' /\ ProxyOrder' /\ ProxiesFinite'
    <2>1. NamesAgree'
      BY <1>4 DEF StoreInv, NamesAgree
    <2>2. ProxyOrder'
      BY <1>4, Zenon DEF StoreInv, ProxyOrder
    <2>3. ProxiesFinite'
      BY <1>4, Zenon DEF StoreInv, ProxiesFinite
    <2> QED
      BY <2>1, <2>2, <2>3, Zenon
  <1>9. ProxiesAgree'
    BY <1>1, <1>2, <1>4, <1>5 DEF StoreInv, ProxiesAgree
  <1>10. InactiveRetriesBounded'
    <2> SUFFICES ASSUME NEW e \in Engines
                 PROVE  Cardinality(InactiveRetries(proxies, byEngine[e])') <= MaxInactive
      BY Zenon DEF InactiveRetriesBounded
    <2> DEFINE S == InactiveRetries(proxies, byEngine[e])
    <2>1. S' \in SUBSET S
      BY <1>t, <1>3, <1>4, <1>5, Zenon DEF InactiveRetries, StoreTypeOK
    <2>2. IsFiniteSet(S)
      <3>1. S \in SUBSET byEngine[e] /\ IsFiniteSet(byEngine[e])
        BY Zenon DEF InactiveRetries, StoreInv, ProxiesFinite
      <3> QED
        BY <3>1, FS_Subset, Zenon
    <2>3. Cardinality(S) <= MaxInactive
      BY Zenon DEF StoreInv, InactiveRetriesBounded
    <2> HIDE DEF S
    <2>4. /\ Cardinality(S') <= Cardinality(S)
          /\ Cardinality(S') \in Nat /\ Cardinality(S) \in Nat
      BY <2>1, <2>2, FS_Subset, FS_CardinalityType, Zenon
    <2>5. Cardinality(S') <= MaxInactive
      BY <2>3, <2>4, StoreAssumption
    <2> QED
      BY <2>5, Zenon DEF S
  <1> QED
    BY <1>6, <1>7, <1>8, <1>9, <1>10, Zenon DEF StoreInv

-----------------------------------------------------------------------------
\* The invariant holds of an empty store.
LEMMA InitInv == StoreInit => StoreInv
  <1> SUFFICES ASSUME StoreInit
               PROVE  StoreInv
    OBVIOUS
  <1>1. StoreTypeOK /\ ServedIsCurrent /\ ProxiesAgree
    BY StoreAssumption, Zenon DEF StoreInit, StoreTypeOK, ServedIsCurrent, ProxiesAgree
  <1>2. NamesAgree /\ ProxyOrder
    BY StoreAssumption, Zenon DEF StoreInit, NamesAgree, ProxyOrder
  <1>3. ProxiesFinite
    BY FS_EmptySet, Zenon DEF StoreInit, ProxiesFinite
  <1>4. InactiveRetriesBounded
    <2>1. \A e \in Engines : InactiveRetries(proxies, byEngine[e]) = {}
      BY Zenon DEF StoreInit, InactiveRetries
    <2>2. Cardinality({}) = 0
      BY FS_EmptySet, Zenon
    <2> QED
      BY <2>1, <2>2, StoreAssumption DEF InactiveRetriesBounded
  <1> QED
    BY <1>1, <1>2, <1>3, <1>4, Zenon DEF StoreInv

\* Every step of the store preserves the invariant.
LEMMA NextInv == StoreInv /\ [StoreNext]_storeVars => StoreInv'
  <1> SUFFICES ASSUME StoreInv, [StoreNext]_storeVars
               PROVE  StoreInv'
    OBVIOUS
  <1>0. 1..MaxAttempt \subseteq Nat /\ 0..MaxAttempt \subseteq Nat
    OBVIOUS
  <1>1. CASE \E e \in Engines, u \in UIDs, v \in Versions : Replace(e, u, v)
    BY <1>1, ReplaceInv, Zenon
  <1>2. CASE \E e \in Engines : DeleteEngine(e)
    BY <1>2, DeleteInv, Zenon
  <1>3. CASE \E n \in Names, p \in Proxies, v \in Versions \cup {None},
                a \in 1..MaxAttempt : BumpRejected(n, p, v, a)
    BY <1>0, <1>3, BumpInv, Zenon
  <1>4. CASE \E n \in Names, p \in Proxies, v \in Versions, a \in 0..MaxAttempt :
                /\ proxies[p] # None => proxies[p].active < MaxActive
                /\ BindRejectedRetry(n, p, Retry(v, a))
    BY <1>0, <1>4, BindInv, RetryType, Zenon
  <1>5. CASE \E p \in Proxies, v \in Versions, a \in 0..MaxAttempt :
                AckRejected(p, Retry(v, a))
    BY <1>5, AckInv, Zenon
  <1>6. CASE \E p \in Proxies : ReleaseRejectedRetry(p)
    BY <1>6, ReleaseInv, Zenon
  <1>7. CASE UNCHANGED storeVars
    <2>1. InactiveRetriesBounded'
      BY <1>7, Zenon DEF storeVars, StoreInv, InactiveRetriesBounded, InactiveRetries
    <2>2. StoreTypeOK' /\ ServedIsCurrent'
      BY <1>7, Zenon DEF storeVars, StoreInv, StoreTypeOK, ServedIsCurrent
    <2>3. NamesAgree' /\ ProxiesAgree'
      BY <1>7 DEF storeVars, StoreInv, NamesAgree, ProxiesAgree
    <2>4. ProxyOrder' /\ ProxiesFinite'
      BY <1>7, Zenon DEF storeVars, StoreInv, ProxyOrder, ProxiesFinite
    <2> QED
      BY <2>1, <2>2, <2>3, <2>4, Zenon DEF StoreInv
  <1> QED
    BY <1>1, <1>2, <1>3, <1>4, <1>5, <1>6, <1>7, Zenon DEF StoreNext

\* The store's maps, indexes and served versions are consistent in every
\* reachable state, for any set of Engines, proxies and versions.
THEOREM StoreInvariant == StoreSpec => []StoreInv
  BY InitInv, NextInv, PTL DEF StoreSpec

\* Every field keeps its type; in particular no reference count goes negative.
THEOREM TypeCorrect == StoreSpec => []StoreTypeOK
  <1>1. StoreInv => StoreTypeOK
    BY Zenon DEF StoreInv
  <1> QED
    BY <1>1, StoreInvariant, PTL

\* Replace, BumpRejected and BindRejectedRetry never leave a snapshot of
\* superseded content in the cache.
THEOREM ServedCurrent == StoreSpec => []ServedIsCurrent
  <1>1. StoreInv => ServedIsCurrent
    BY Zenon DEF StoreInv
  <1> QED
    BY <1>1, StoreInvariant, PTL

\* The resource, proxy and per-Engine indexes agree.
THEOREM IndexesConsistent == StoreSpec => []IndexesAgree
  <1>1. StoreInv => IndexesAgree
    BY Zenon DEF StoreInv, NamesAgree, ProxiesAgree, IndexesAgree
  <1> QED
    BY <1>1, StoreInvariant, PTL

\* evictInactiveRetriesLocked bounds the retries kept for disconnected proxies.
THEOREM RetriesBounded == StoreSpec => []InactiveRetriesBounded
  <1>1. StoreInv => InactiveRetriesBounded
    BY Zenon DEF StoreInv
  <1> QED
    BY <1>1, StoreInvariant, PTL

-----------------------------------------------------------------------------
\* A proxy that just took the newest sequence number is not evicted, and
\* eviction takes only disconnected proxies.
LEMMA NewestStays ==
    ASSUME StoreInv, NEW e \in Engines, NEW p \in Proxies, NEW px
    PROVE  p \notin Evicted(px, byEngine[e] \cup {p}, Touch(p, byEngine[e] \cup {p}))
  <1> DEFINE ps == byEngine[e] \cup {p}
             Y == {q \in InactiveRetries(px, ps) : <<p, q>> \in Touch(p, ps)}
  <1>1. Y = {}
    BY Zenon DEF Touch
  <1>2. Cardinality({}) = 0
    BY FS_EmptySet, Zenon
  <1>3. ~(Cardinality(Y) >= MaxInactive)
    <2> HIDE DEF Y
    <2> QED
      BY <1>1, <1>2, StoreAssumption
  <1> QED
    BY <1>3, Zenon DEF Evicted

\* No operation but the withdrawal of the Engine takes the snapshot of a
\* connected proxy that has not acknowledged its retry.
THEOREM ConnectedKept == StoreSpec => ConnectedKeepSnapshot
  <1> DEFINE A == \A p \in Proxies :
                     /\ proxies[p] # None /\ proxies[p].active > 0
                     /\ meta'[proxies[p].engineKey] # None
                     /\ proxies'[p] = None
                     => proxies[p].active = 1 /\ ~proxies[p].retryUnacked
  <1>1. ASSUME StoreInv, [StoreNext]_storeVars
        PROVE  A \/ UNCHANGED storeVars
    <2> SUFFICES ASSUME NEW p \in Proxies, StoreNext,
                        proxies[p] # None, proxies[p].active > 0,
                        meta'[proxies[p].engineKey] # None, proxies'[p] = None
                 PROVE  proxies[p].active = 1 /\ ~proxies[p].retryUnacked
      BY <1>1, Zenon
    <2>t. /\ StoreTypeOK /\ proxies[p] \in ProxySnapshot
          /\ proxies[p].active \in Nat /\ proxies[p].engineKey \in Engines
      BY <1>1, Zenon DEF StoreInv, StoreTypeOK, ProxySnapshot
    <2>a. proxies[p].active # 0
      BY <2>t
    <2>1. CASE \E e \in Engines, u \in UIDs, v \in Versions : Replace(e, u, v)
      <3>1. PICK e \in Engines, u \in UIDs, v \in Versions : Replace(e, u, v)
        BY <2>1, Zenon
      <3> DEFINE idle == {q \in byEngine[e] : proxies[q].active = 0}
                 ent == [proxies[p] EXCEPT !.retryUnacked = FALSE]
      <3>2. ent \in ProxySnapshot
        BY <2>t, Zenon DEF ProxySnapshot
      <3>3. p \notin idle
        BY <2>a, Zenon
      <3>4. proxies'[p] \in {proxies[p], ent}
        BY <3>1, <3>3, Zenon DEF Replace, Commit
      <3> HIDE DEF ent
      <3> QED
        BY <3>2, <3>4, StoreAssumption, Zenon
    <2>2. CASE \E e \in Engines : DeleteEngine(e)
      <3>1. PICK e \in Engines : DeleteEngine(e)
        BY <2>2, Zenon
      <3>2. p \in byEngine[e]
        BY <3>1, Zenon DEF DeleteEngine, Commit
      <3> QED
        BY <1>1, <2>t, <3>1, <3>2, Tracked DEF DeleteEngine, StoreTypeOK
    <2>3. CASE \E n \in Names, q \in Proxies, v \in Versions \cup {None},
                  a \in 1..MaxAttempt : BumpRejected(n, q, v, a)
      <3>1. PICK n \in Names, q \in Proxies, v \in Versions \cup {None},
                 a \in 1..MaxAttempt : BumpRejected(n, q, v, a)
        BY <2>3, Zenon
      <3> DEFINE e == snapshotForResource(n)
                 ps == byEngine[e] \cup {q}
                 active == IF proxies[q] = None THEN 0 ELSE proxies[q].active
                 ent == [engineKey |-> e, active |-> active, retryUnacked |-> TRUE]
                 px == [proxies EXCEPT ![q] = ent]
                 gone == Evicted(px, ps, Touch(q, ps))
      <3>2. px[p] # None /\ px[p].active = proxies[p].active
        <4>1. CASE p = q
          <5>1. px[p] = ent /\ ent.active = proxies[p].active
            BY <2>t, <4>1, Zenon DEF StoreTypeOK
          <5>2. ent \in ProxySnapshot
            <6>1. e \in Engines
              BY <3>1, <2>t, Resolved, Zenon DEF BumpRejected, CanBump
            <6> QED
              BY <6>1, <2>t, <4>1, Zenon DEF ProxySnapshot
          <5> QED
            BY <5>1, <5>2, StoreAssumption, Zenon
        <4>2. CASE p # q
          BY <2>t, <4>2, Zenon DEF StoreTypeOK
        <4> QED
          BY <4>1, <4>2, Zenon
      <3>3. p \in gone
        <4>1. proxies' = [r \in Proxies |-> IF r \in gone THEN None ELSE px[r]]
          BY <3>1, Zenon DEF BumpRejected, Commit
        <4> HIDE DEF gone, px
        <4> QED
          BY <3>2, <4>1, Zenon
      <3>4. px[p].active = 0
        BY <3>3, Zenon DEF Evicted, InactiveRetries
      <3>5. proxies[p].active = 0
        BY <3>2, <3>4, Zenon
      <3> QED
        BY <3>5, <2>a, Zenon
    <2>4. CASE \E n \in Names, q \in Proxies, v \in Versions, a \in 0..MaxAttempt :
                  /\ proxies[q] # None => proxies[q].active < MaxActive
                  /\ BindRejectedRetry(n, q, Retry(v, a))
      <3>1. PICK n \in Names, q \in Proxies, v \in Versions, a \in 0..MaxAttempt :
                  BindRejectedRetry(n, q, Retry(v, a))
        BY <2>4, Zenon
      <3> DEFINE ent == [proxies[q] EXCEPT !.active = proxies[q].active + 1]
      <3>2. CASE p = q
        <4>1. proxies'[p] = ent
          BY <3>1, <3>2, <2>t, Zenon DEF BindRejectedRetry, Commit, StoreTypeOK
        <4>2. ent \in ProxySnapshot
          BY <3>2, <2>t DEF ProxySnapshot
        <4> QED
          BY <4>1, <4>2, StoreAssumption, Zenon
      <3>3. CASE p # q
        BY <3>1, <3>3, <2>t, Zenon DEF BindRejectedRetry, Commit, StoreTypeOK
      <3> QED
        BY <3>2, <3>3, Zenon
    <2>5. CASE \E q \in Proxies, v \in Versions, a \in 0..MaxAttempt :
                  AckRejected(q, Retry(v, a))
      <3>1. PICK q \in Proxies, v \in Versions, a \in 0..MaxAttempt :
                  AckRejected(q, Retry(v, a))
        BY <2>5, Zenon
      <3> DEFINE ent == [proxies[p] EXCEPT !.retryUnacked = FALSE]
      <3>2. ent \in ProxySnapshot
        BY <2>t, Zenon DEF ProxySnapshot
      <3>3. proxies'[p] \in {proxies[p], ent}
        BY <3>1, <2>t, Zenon DEF AckRejected, StoreTypeOK
      <3> HIDE DEF ent
      <3> QED
        BY <3>2, <3>3, StoreAssumption, Zenon
    <2>6. CASE \E q \in Proxies : ReleaseRejectedRetry(q)
      <3>1. PICK q \in Proxies : ReleaseRejectedRetry(q)
        BY <2>6, Zenon
      <3> DEFINE e == proxies[q].engineKey
                 active == IF proxies[q].active > 0 THEN proxies[q].active - 1 ELSE 0
                 ent == [proxies[q] EXCEPT !.active = active]
                 px == [proxies EXCEPT ![q] = ent]
                 order == IF active = 0 THEN Touch(q, byEngine[e]) ELSE before
                 done == IF active = 0 /\ ~proxies[q].retryUnacked THEN {q} ELSE {}
                 gone == done \cup Evicted(px, byEngine[e], order)
      <3>2. proxies' = [r \in Proxies |-> IF r \in gone THEN None ELSE px[r]]
        BY <3>1, Zenon DEF ReleaseRejectedRetry, ReleaseTo, Commit
      <3>3. /\ proxies[q] \in ProxySnapshot /\ e \in Engines /\ proxies[q].active \in Nat
            /\ q \in byEngine[e]
        BY <1>1, <2>t, <3>1 DEF ReleaseRejectedRetry, ReleaseTo, StoreTypeOK, ProxySnapshot,
                                StoreInv, ProxiesAgree
      <3>4. ent \in ProxySnapshot /\ ent.active = active
        <4>1. active \in Nat
          BY <3>3
        <4> HIDE DEF active
        <4> QED
          BY <3>3, <4>1, Zenon DEF ProxySnapshot
      <3>5. p \in gone
        <4>1. px[p] \in ProxySnapshot
          <5> HIDE DEF ent
          <5> QED
            BY <2>t, <3>4, Zenon DEF StoreTypeOK
        <4> HIDE DEF gone, px
        <4> QED
          BY <3>2, <4>1, StoreAssumption, Zenon
      <3>6. CASE p \in done
        BY <3>6, <2>t
      <3>7. CASE p \in Evicted(px, byEngine[e], order)
        <4>1. px[p].active = 0
          BY <3>7, Zenon DEF Evicted, InactiveRetries
        <4>2. p = q /\ active = 0
          <5>1. /\ p = q => px[p] = ent
                /\ p # q => px[p] = proxies[p]
            <6> HIDE DEF ent
            <6> QED
              BY <2>t, Zenon DEF StoreTypeOK
          <5> HIDE DEF ent, px, active
          <5> QED
            BY <4>1, <3>4, <2>a, <5>1, Zenon
        <4>3. order = Touch(q, byEngine[e] \cup {q}) /\ byEngine[e] \cup {q} = byEngine[e]
          <5>1. byEngine[e] \cup {q} = byEngine[e]
            BY <3>3, Zenon
          <5> QED
            BY <4>2, <5>1, Zenon
        <4> HIDE DEF px, order, e
        <4> QED
          BY <1>1, <3>3, <3>7, <4>2, <4>3, NewestStays, Zenon
      <3> QED
        BY <3>5, <3>6, <3>7, Zenon
    <2> QED
      BY <2>1, <2>2, <2>3, <2>4, <2>5, <2>6, Zenon DEF StoreNext
  <1>2. StoreInv /\ [StoreNext]_storeVars => [A]_storeVars
    BY <1>1, Zenon
  <1> QED
    BY <1>2, StoreInvariant, PTL DEF StoreSpec, ConnectedKeepSnapshot

-----------------------------------------------------------------------------
\* What is older than an older proxy of the same Engine is older.
OrderTransitive ==
    \A e \in Engines : \A x, y, z \in byEngine[e] :
        <<x, y>> \in before /\ <<y, z>> \in before /\ x # z => <<x, z>> \in before

\* A relation that compares any two of the proxies ps, and is transitive on them.
Orders(order, ps) ==
    /\ \A x, y \in ps : x = y \/ <<x, y>> \in order \/ <<y, x>> \in order
    /\ \A x, y, z \in ps : <<x, y>> \in order /\ <<y, z>> \in order /\ x # z =>
                              <<x, z>> \in order

\* The sequence numbers order the proxies of an Engine, before and after one of them
\* takes the next number.
LEMMA NumbersOrder ==
    ASSUME StoreInv, OrderTransitive, NEW e \in Engines, NEW b \in Proxies, NEW ps,
           ps = byEngine[e] \cup {b}, NEW order,
           order = Touch(b, ps) \/ (order = before /\ b \in byEngine[e])
    PROVE  Orders(order, ps)
  <1>1. \A T \in SUBSET ps : T # {} => \E x \in T : \A y \in T \ {x} : <<x, y>> \in order
    <2>1. CASE order = Touch(b, ps)
      BY <2>1, TouchOrder
    <2>2. CASE order = before /\ b \in byEngine[e]
      <3>1. ps = byEngine[e]
        BY <2>2, Zenon
      <3> QED
        BY <2>2, <3>1, Zenon DEF StoreInv, ProxyOrder
    <2> QED
      BY <2>1, <2>2, Zenon
  <1>2. ASSUME NEW x \in ps, NEW y \in ps, x # y
        PROVE  <<x, y>> \in order \/ <<y, x>> \in order
    <2>1. PICK z \in {x, y} : \A w \in {x, y} \ {z} : <<z, w>> \in order
      <3>1. {x, y} \in SUBSET ps /\ {x, y} # {}
        OBVIOUS
      <3> QED
        BY <1>1, <3>1, Zenon
    <2> QED
      BY <1>2, <2>1, Zenon
  <1>3. ASSUME NEW x \in ps, NEW y \in ps, NEW z \in ps,
               <<x, y>> \in order, <<y, z>> \in order, x # z
        PROVE  <<x, z>> \in order
    <2>1. CASE order = before /\ b \in byEngine[e]
      BY <1>3, <2>1, Zenon DEF OrderTransitive
    <2>2. CASE order = Touch(b, ps)
      <3>1. x # b /\ y # b
        BY <1>3, <2>2, Zenon DEF Touch
      <3>2. CASE z = b
        BY <2>2, <3>1, <3>2, Zenon DEF Touch
      <3>3. CASE z # b
        <4>1. <<x, y>> \in before /\ <<y, z>> \in before
          BY <1>3, <2>2, <3>1, <3>3, Zenon DEF Touch
        <4>2. <<x, z>> \in before
          BY <1>3, <3>1, <3>3, <4>1, Zenon DEF OrderTransitive
        <4> QED
          BY <2>2, <3>1, <3>3, <4>2, Zenon DEF Touch
      <3> QED
        BY <3>2, <3>3, Zenon
    <2> QED
      BY <2>1, <2>2, Zenon
  <1> QED
    BY <1>2, <1>3 DEF Orders

\* Commit leaves the order of the other Engines' proxies alone.
LEMMA CommitOrder ==
    ASSUME StoreInv, OrderTransitive, NEW e \in Engines, NEW b \in Proxies, NEW ps,
           ps = byEngine[e] \cup {b}, NEW order,
           order = Touch(b, ps) \/ (order = before /\ b \in byEngine[e]),
           proxies[b] # None => proxies[b].engineKey = e,
           NEW px, NEW c, NEW gone, Commit(e, px, ps, c, order, gone)
    PROVE  OrderTransitive'
  <1> SUFFICES ASSUME NEW f \in Engines, NEW x \in byEngine'[f], NEW y \in byEngine'[f],
                      NEW z \in byEngine'[f],
                      <<x, y>> \in before', <<y, z>> \in before', x # z
               PROVE  <<x, z>> \in before'
    BY Zenon DEF OrderTransitive
  <1>1. /\ <<x, y>> \in order /\ <<y, z>> \in order /\ x \notin gone /\ z \notin gone
        /\ <<x, z>> \in order => <<x, z>> \in before'
    BY Zenon DEF Commit
  <1>2. CASE f = e
    <2>1. x \in ps /\ y \in ps /\ z \in ps
      BY <1>2, Zenon DEF Commit, StoreInv, StoreTypeOK
    <2>2. Orders(order, ps)
      BY NumbersOrder, Zenon
    <2> QED
      BY <1>1, <2>1, <2>2, Zenon DEF Orders
  <1>3. CASE f # e
    <2>1. x \in byEngine[f] /\ y \in byEngine[f] /\ z \in byEngine[f]
      BY <1>3, Zenon DEF Commit, StoreInv, StoreTypeOK
    <2>2. b \notin byEngine[f]
      BY <1>3 DEF StoreInv, ProxiesAgree
    <2>3. <<x, y>> \in before /\ <<y, z>> \in before
      BY <1>1, <2>1, <2>2 DEF Touch
    <2>4. <<x, z>> \in before
      BY <2>1, <2>3, Zenon DEF OrderTransitive
    <2> QED
      BY <1>1, <2>1, <2>2, <2>4, Zenon DEF Touch
  <1> QED
    BY <1>2, <1>3, Zenon

\* So does a Commit that drops proxies of one Engine and takes no number.
LEMMA DropOrder ==
    ASSUME StoreInv, OrderTransitive, NEW e \in Engines, NEW px, NEW c, NEW gone,
           Commit(e, px, byEngine[e], c, before, gone)
    PROVE  OrderTransitive'
  <1> SUFFICES ASSUME NEW f \in Engines, NEW x \in byEngine'[f], NEW y \in byEngine'[f],
                      NEW z \in byEngine'[f],
                      <<x, y>> \in before', <<y, z>> \in before', x # z
               PROVE  <<x, z>> \in before'
    BY Zenon DEF OrderTransitive
  <1>1. x \in byEngine[f] /\ y \in byEngine[f] /\ z \in byEngine[f]
    BY Zenon DEF Commit, StoreInv, StoreTypeOK
  <1>2. /\ <<x, y>> \in before /\ <<y, z>> \in before
        /\ <<x, z>> \in before => <<x, z>> \in before'
    BY Zenon DEF Commit
  <1> QED
    BY <1>1, <1>2, Zenon DEF OrderTransitive

\* Every operation of the store keeps the order transitive.
LEMMA OrderStep == StoreInv /\ OrderTransitive /\ [StoreNext]_storeVars => OrderTransitive'
  <1> SUFFICES ASSUME StoreInv, OrderTransitive, [StoreNext]_storeVars
               PROVE  OrderTransitive'
    OBVIOUS
  <1>t. StoreTypeOK
    BY Zenon DEF StoreInv
  <1>1. CASE \E e \in Engines, u \in UIDs, v \in Versions : Replace(e, u, v)
    BY <1>1, DropOrder, Zenon DEF Replace
  <1>2. CASE \E e \in Engines : DeleteEngine(e)
    BY <1>2, DropOrder, Zenon DEF DeleteEngine
  <1>3. CASE \E n \in Names, p \in Proxies, v \in Versions \cup {None},
                a \in 1..MaxAttempt : BumpRejected(n, p, v, a)
    <2>1. PICK n \in Names, p \in Proxies, v \in Versions \cup {None},
               a \in 1..MaxAttempt : BumpRejected(n, p, v, a)
      BY <1>3, Zenon
    <2> DEFINE e == snapshotForResource(n)
               ps == byEngine[e] \cup {p}
    <2>2. e \in Engines /\ (proxies[p] # None => proxies[p].engineKey = e)
      BY <1>t, <2>1, Resolved, Zenon DEF BumpRejected, CanBump
    <2>3. \E px, c, gone : Commit(e, px, ps, c, Touch(p, ps), gone)
      BY <2>1, Zenon DEF BumpRejected
    <2> HIDE DEF e, ps
    <2>4. ps = byEngine[e] \cup {p}
      BY Zenon DEF ps
    <2> QED
      BY <2>2, <2>3, <2>4, CommitOrder, Zenon
  <1>4. CASE \E n \in Names, p \in Proxies, v \in Versions, a \in 0..MaxAttempt :
                /\ proxies[p] # None => proxies[p].active < MaxActive
                /\ BindRejectedRetry(n, p, Retry(v, a))
    <2>1. PICK n \in Names, p \in Proxies, v \in Versions, a \in 0..MaxAttempt :
                BindRejectedRetry(n, p, Retry(v, a))
      BY <1>4, Zenon
    <2> DEFINE e == snapshotForResource(n)
               ps == byEngine[e] \cup {p}
               order == IF proxies[p] = None THEN Touch(p, ps) ELSE before
    <2>2. e \in Engines /\ (proxies[p] # None => proxies[p].engineKey = e)
      BY <1>t, <2>1, Resolved, Zenon DEF BindRejectedRetry, CanBind
    <2>3. \E px, c, gone : Commit(e, px, ps, c, order, gone)
      BY <2>1, Zenon DEF BindRejectedRetry
    <2>4. order = Touch(p, ps) \/ (order = before /\ p \in byEngine[e])
      BY <2>2, Zenon DEF StoreInv, ProxiesAgree
    <2> HIDE DEF e, ps, order
    <2>5. ps = byEngine[e] \cup {p}
      BY Zenon DEF ps
    <2> QED
      BY <2>2, <2>3, <2>4, <2>5, CommitOrder, Zenon
  <1>5. CASE \E p \in Proxies, v \in Versions, a \in 0..MaxAttempt :
                AckRejected(p, Retry(v, a))
    BY <1>5, Zenon DEF AckRejected, OrderTransitive
  <1>6. CASE \E p \in Proxies : ReleaseRejectedRetry(p)
    <2>1. PICK p \in Proxies : ReleaseRejectedRetry(p)
      BY <1>6, Zenon
    <2> DEFINE e == proxies[p].engineKey
               ps == byEngine[e]
    <2>2. e \in Engines /\ p \in ps /\ ps = byEngine[e] \cup {p}
      BY <1>t, <2>1 DEF ReleaseRejectedRetry, ReleaseTo, StoreTypeOK, ProxySnapshot,
                        StoreInv, ProxiesAgree
    <2>3. \E order \in {before, Touch(p, ps)} :
            \E px, gone : Commit(e, px, ps, cache, order, gone)
      BY <2>1, Zenon DEF ReleaseRejectedRetry, ReleaseTo
    <2> HIDE DEF e
    <2>4. e = proxies[p].engineKey
      BY Zenon DEF e
    <2> HIDE DEF ps
    <2>5. ps = byEngine[e]
      BY Zenon DEF ps
    <2> QED
      BY <2>2, <2>3, <2>4, <2>5, CommitOrder, Zenon
  <1>7. CASE UNCHANGED storeVars
    BY <1>7, Zenon DEF storeVars, OrderTransitive
  <1> QED
    BY <1>1, <1>2, <1>3, <1>4, <1>5, <1>6, <1>7, Zenon DEF StoreNext

\* evictInactiveRetriesLocked sorts by sequence number: what it drops is older than what
\* it keeps.
LEMMA EvictionOrder ==
    ASSUME NEW px, NEW ps, IsFiniteSet(ps), NEW order, Orders(order, ps),
           NEW p \in Evicted(px, ps, order),
           NEW q \in InactiveRetries(px, ps) \ Evicted(px, ps, order)
    PROVE  <<p, q>> \in order
  <1> DEFINE S == InactiveRetries(px, ps)
             Younger(x) == {r \in S : <<x, r>> \in order}
  <1>1. S \subseteq ps /\ p \in S /\ q \in S /\ p # q
    BY Zenon DEF InactiveRetries, Evicted
  <1>2. Cardinality(Younger(p)) >= MaxInactive /\ ~(Cardinality(Younger(q)) >= MaxInactive)
    BY Zenon DEF Evicted
  <1>3. IsFiniteSet(S)
    BY <1>1, FS_Subset, Zenon
  <1> HIDE DEF S
  <1> SUFFICES ASSUME <<p, q>> \notin order
               PROVE  FALSE
    OBVIOUS
  <1>4. <<q, p>> \in order
    BY <1>1, Zenon DEF Orders
  <1>5. Younger(p) \subseteq Younger(q)
    <2> SUFFICES ASSUME NEW r \in S, <<p, r>> \in order
                 PROVE  <<q, r>> \in order
      OBVIOUS
    <2>1. r # q /\ r \in ps /\ p \in ps /\ q \in ps
      BY <1>1, Zenon
    <2> QED
      BY <1>4, <2>1, Zenon DEF Orders
  <1>6. IsFiniteSet(Younger(q))
    <2>1. Younger(q) \subseteq S
      OBVIOUS
    <2> QED
      BY <1>3, <2>1, FS_Subset, Zenon
  <1> HIDE DEF Younger
  <1>7. /\ Cardinality(Younger(p)) \in Nat /\ Cardinality(Younger(q)) \in Nat
        /\ Cardinality(Younger(p)) <= Cardinality(Younger(q))
    BY <1>5, <1>6, FS_Subset, FS_CardinalityType, Zenon
  <1> QED
    BY <1>2, <1>7, StoreAssumption

\* A write of one proxy's entry that evicts: when an unacknowledged retry of any Engine goes,
\* a disconnected one that stays is younger, or has just taken the latest number.
LEMMA OldestGo ==
    ASSUME StoreInv, OrderTransitive, NEW e \in Engines, NEW b \in Proxies, NEW ps,
           ps = byEngine[e] \cup {b}, NEW order,
           order = Touch(b, ps) \/ (order = before /\ b \in byEngine[e]),
           proxies[b] # None => proxies[b].engineKey = e,
           NEW ent, ent # None, NEW px, px = [proxies EXCEPT ![b] = ent],
           NEW c, NEW done, NEW gone, gone = done \cup Evicted(px, ps, order),
           \A x \in done : ~proxies[x].retryUnacked,
           Commit(e, px, ps, c, order, gone),
           NEW f \in Engines, NEW p \in byEngine[f], NEW q \in byEngine[f],
           proxies[p].retryUnacked, proxies'[p] = None,
           q \in InactiveRetries(proxies', byEngine'[f])
    PROVE  <<p, q>> \in before \/ \A r \in byEngine'[f] \ {q} : <<r, q>> \in before'
  <1>t. /\ p \in Proxies /\ q \in Proxies /\ proxies[p] # None /\ proxies[p].engineKey = f
        /\ proxies \in [Proxies -> ProxySnapshot \cup {None}]
    BY DEF StoreInv, StoreTypeOK, ProxiesAgree
  <1>1. proxies' = [x \in Proxies |-> IF x \in gone THEN None ELSE px[x]]
    BY Zenon DEF Commit
  <1>2. px[p] # None
    BY <1>t, Zenon
  <1>3. p \in gone
    BY <1>t, <1>1, <1>2, Zenon
  <1>4. p \in Evicted(px, ps, order) /\ p \in ps
    BY <1>3, Zenon DEF Evicted, InactiveRetries
  <1>5. f = e
    <2>1. CASE p = b
      BY <1>t, <2>1, Zenon
    <2>2. CASE p # b
      BY <1>t, <1>4, <2>2 DEF StoreInv, ProxiesAgree
    <2> QED
      BY <2>1, <2>2, Zenon
  <1>6. byEngine'[e] = ps \ gone
    BY Zenon DEF Commit, StoreInv, StoreTypeOK
  <1>7. q \in InactiveRetries(px, ps) \ Evicted(px, ps, order) /\ q \notin gone
    <2>1. q \in ps /\ q \notin gone
      BY <1>5, <1>6, Zenon DEF InactiveRetries
    <2>2. proxies'[q] = px[q]
      BY <1>t, <1>1, <2>1, Zenon
    <2> QED
      BY <2>1, <2>2, Zenon DEF InactiveRetries
  <1>8. <<p, q>> \in order
    <2>1. Orders(order, ps)
      BY NumbersOrder, Zenon
    <2>2. IsFiniteSet(ps)
      <3>1. IsFiniteSet(byEngine[e])
        BY Zenon DEF StoreInv, ProxiesFinite
      <3> QED
        BY <3>1, FS_AddElement, Zenon
    <2> QED
      BY <1>4, <1>7, <2>1, <2>2, EvictionOrder, Zenon
  <1>9. CASE q = b /\ order = Touch(b, ps)
    BY <1>5, <1>6, <1>7, <1>9, Zenon DEF Commit, Touch
  <1>10. CASE q # b \/ order = before
    BY <1>8, <1>10 DEF Touch
  <1> QED
    BY <1>9, <1>10, Zenon

\* When evictInactiveRetriesLocked drops an unacknowledged retry, every disconnected one that
\* survives had a later NACK or disconnect, for any number of proxies and any bound.
THEOREM OldestEvicted == StoreSpec => EvictsOldest
  <1> DEFINE A == \A e \in Engines : meta'[e] = meta[e] =>
                     \A p \in byEngine[e], q \in InactiveRetries(proxies, byEngine[e]) :
                         /\ proxies[p].retryUnacked /\ proxies'[p] = None
                         /\ q \in InactiveRetries(proxies', byEngine'[e])
                         => \/ <<p, q>> \in before
                            \/ \A r \in byEngine'[e] \ {q} : <<r, q>> \in before'
  <1>1. ASSUME StoreInv, OrderTransitive, [StoreNext]_storeVars
        PROVE  A \/ UNCHANGED storeVars
    <2> SUFFICES ASSUME StoreNext, NEW f \in Engines, meta'[f] = meta[f],
                        NEW p \in byEngine[f], NEW q \in byEngine[f],
                        q \in InactiveRetries(proxies, byEngine[f]),
                        proxies[p].retryUnacked, proxies'[p] = None,
                        q \in InactiveRetries(proxies', byEngine'[f])
                 PROVE  \/ <<p, q>> \in before
                        \/ \A r \in byEngine'[f] \ {q} : <<r, q>> \in before'
      BY <1>1, Zenon DEF InactiveRetries
    <2>t. /\ StoreTypeOK /\ p \in Proxies /\ q \in Proxies
          /\ proxies[p] \in ProxySnapshot /\ proxies[p].engineKey = f /\ meta[f] # None
          /\ proxies[p] # None
      BY <1>1, Tracked, StoreAssumption, Zenon DEF StoreInv
    <2>1. CASE \E e \in Engines, u \in UIDs, v \in Versions : Replace(e, u, v)
      <3>1. PICK e \in Engines, u \in UIDs, v \in Versions : Replace(e, u, v)
        BY <2>1, Zenon
      <3> DEFINE idle == {x \in byEngine[e] : proxies[x].active = 0}
                 ent == [proxies[p] EXCEPT !.retryUnacked = FALSE]
      <3>2. ent # None
        BY <2>t, StoreAssumption, Zenon DEF ProxySnapshot
      <3>3. p \in idle
        <4>1. p \notin idle => proxies'[p] \in {proxies[p], ent}
          BY <2>t, <3>1, Zenon DEF Replace, Commit
        <4> HIDE DEF ent, idle
        <4> QED
          BY <2>t, <3>2, <4>1, Zenon
      <3>4. e = f
        <4>1. proxies[p].engineKey = e
          BY <1>1, <3>3, Tracked, Zenon
        <4> QED
          BY <2>t, <4>1, Zenon
      <3>5. q \in idle
        BY <3>4, Zenon DEF InactiveRetries
      <3>6. byEngine'[e] = byEngine[e] \ idle
        BY <2>t, <3>1, Zenon DEF Replace, Commit, StoreTypeOK
      <3> QED
        BY <3>4, <3>5, <3>6, Zenon DEF InactiveRetries
    <2>2. CASE \E e \in Engines : DeleteEngine(e)
      <3>1. PICK e \in Engines : DeleteEngine(e)
        BY <2>2, Zenon
      <3>2. p \in byEngine[e]
        BY <2>t, <3>1, Zenon DEF DeleteEngine, Commit
      <3>3. proxies[p].engineKey = e
        BY <1>1, <3>2 DEF StoreInv, ProxiesAgree
      <3> QED
        BY <2>t, <3>1, <3>3, Zenon DEF DeleteEngine, StoreTypeOK
    <2>3. CASE \E n \in Names, b \in Proxies, v \in Versions \cup {None},
                  a \in 1..MaxAttempt : BumpRejected(n, b, v, a)
      <3>1. PICK n \in Names, b \in Proxies, v \in Versions \cup {None},
                 a \in 1..MaxAttempt : BumpRejected(n, b, v, a)
        BY <2>3, Zenon
      <3> DEFINE e == snapshotForResource(n)
                 ps == byEngine[e] \cup {b}
                 active == IF proxies[b] = None THEN 0 ELSE proxies[b].active
                 ent == [engineKey |-> e, active |-> active, retryUnacked |-> TRUE]
                 px == [proxies EXCEPT ![b] = ent]
                 order == Touch(b, ps)
                 done == {}
                 gone == Evicted(px, ps, order)
      <3>2. e \in Engines /\ (proxies[b] # None => proxies[b].engineKey = e)
        BY <2>t, <3>1, Resolved, Zenon DEF BumpRejected, CanBump
      <3>3. ent # None
        <4>1. active \in Nat
          BY <2>t, Zenon DEF StoreTypeOK, ProxySnapshot
        <4>2. ent \in ProxySnapshot
          BY <3>2, <4>1, Zenon DEF ProxySnapshot
        <4> QED
          BY <4>2, StoreAssumption, Zenon
      <3>4. Commit(e, px, ps, [cache EXCEPT ![b] = Retry(meta[e].version, a)], order, gone)
        BY <3>1, Zenon DEF BumpRejected
      <3>5. /\ ps = byEngine[e] \cup {b} /\ order = Touch(b, ps)
            /\ px = [proxies EXCEPT ![b] = ent]
            /\ gone = done \cup Evicted(px, ps, order)
            /\ \A x \in done : ~proxies[x].retryUnacked
        BY Zenon
      <3> HIDE DEF e, ps, ent, px, order, done, gone
      <3> QED
        BY <1>1, <2>t, <3>2, <3>3, <3>4, <3>5, OldestGo, Zenon
    <2>4. CASE \E n \in Names, b \in Proxies, v \in Versions, a \in 0..MaxAttempt :
                  /\ proxies[b] # None => proxies[b].active < MaxActive
                  /\ BindRejectedRetry(n, b, Retry(v, a))
      <3>1. PICK n \in Names, b \in Proxies, v \in Versions, a \in 0..MaxAttempt :
                  BindRejectedRetry(n, b, Retry(v, a))
        BY <2>4, Zenon
      <3> DEFINE ent == [proxies[p] EXCEPT !.active = proxies[p].active + 1]
      <3>2. ent # None
        <4>1. proxies[p].active + 1 \in Nat
          BY <2>t DEF ProxySnapshot
        <4>2. ent \in ProxySnapshot
          BY <2>t, <4>1, Zenon DEF ProxySnapshot
        <4> QED
          BY <4>2, StoreAssumption, Zenon
      <3>3. proxies'[p] \in {proxies[p], ent}
        BY <2>t, <3>1 DEF BindRejectedRetry, Commit, StoreTypeOK
      <3> HIDE DEF ent
      <3> QED
        BY <2>t, <3>2, <3>3, Zenon
    <2>5. CASE \E b \in Proxies, v \in Versions, a \in 0..MaxAttempt :
                  AckRejected(b, Retry(v, a))
      <3>1. PICK b \in Proxies, v \in Versions, a \in 0..MaxAttempt :
                  AckRejected(b, Retry(v, a))
        BY <2>5, Zenon
      <3> DEFINE ent == [proxies[p] EXCEPT !.retryUnacked = FALSE]
      <3>2. ent # None
        BY <2>t, StoreAssumption, Zenon DEF ProxySnapshot
      <3>3. proxies'[p] \in {proxies[p], ent}
        <4>1. proxies' = [proxies EXCEPT ![b] = [proxies[b] EXCEPT !.retryUnacked = FALSE]]
          BY <3>1, Zenon DEF AckRejected
        <4> QED
          BY <2>t, <4>1, Zenon DEF StoreTypeOK
      <3> HIDE DEF ent
      <3> QED
        BY <2>t, <3>2, <3>3, Zenon
    <2>6. CASE \E b \in Proxies : ReleaseRejectedRetry(b)
      <3>1. PICK b \in Proxies : ReleaseRejectedRetry(b)
        BY <2>6, Zenon
      <3> DEFINE e == proxies[b].engineKey
                 ps == byEngine[e]
                 active == IF proxies[b].active > 0 THEN proxies[b].active - 1 ELSE 0
                 ent == [proxies[b] EXCEPT !.active = active]
                 px == [proxies EXCEPT ![b] = ent]
                 order == IF active = 0 THEN Touch(b, ps) ELSE before
                 done == IF active = 0 /\ ~proxies[b].retryUnacked THEN {b} ELSE {}
                 gone == done \cup Evicted(px, ps, order)
      <3>2. /\ e \in Engines /\ b \in byEngine[e] /\ ps = byEngine[e] \cup {b}
            /\ proxies[b] \in ProxySnapshot
        BY <1>1, <2>t, <3>1 DEF ReleaseRejectedRetry, ReleaseTo, StoreTypeOK, ProxySnapshot,
                                StoreInv, ProxiesAgree
      <3>3. ent # None
        <4>1. active \in Nat
          BY <3>2 DEF ProxySnapshot
        <4> HIDE DEF active
        <4>2. ent \in ProxySnapshot
          BY <3>2, <4>1, Zenon DEF ProxySnapshot
        <4> QED
          BY <4>2, StoreAssumption, Zenon
      <3>4. Commit(e, px, ps, cache, order, gone)
        BY <3>1, Zenon DEF ReleaseRejectedRetry, ReleaseTo
      <3>5. /\ order = Touch(b, ps) \/ (order = before /\ b \in byEngine[e])
            /\ \A x \in done : ~proxies[x].retryUnacked
        BY <3>2, Zenon
      <3>6. /\ px = [proxies EXCEPT ![b] = ent] /\ e = proxies[b].engineKey
            /\ gone = done \cup Evicted(px, ps, order)
        OBVIOUS
      <3> HIDE DEF e, ps, ent, px, order, done, gone
      <3> QED
        BY <1>1, <2>t, <3>2, <3>3, <3>4, <3>5, <3>6, OldestGo, Zenon
    <2> QED
      BY <2>1, <2>2, <2>3, <2>4, <2>5, <2>6, Zenon DEF StoreNext
  <1>2. StoreInit => OrderTransitive
    BY Zenon DEF StoreInit, OrderTransitive
  <1>3. StoreInv /\ OrderTransitive /\ [StoreNext]_storeVars => [A]_storeVars
    BY <1>1, Zenon
  <1>4. StoreSpec => [](StoreInv /\ OrderTransitive)
    BY <1>2, InitInv, NextInv, OrderStep, PTL DEF StoreSpec
  <1> QED
    BY <1>3, <1>4, PTL DEF StoreSpec, EvictsOldest

=============================================================================
