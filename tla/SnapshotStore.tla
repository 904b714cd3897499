---------------------------- MODULE SnapshotStore ----------------------------
(***************************************************************************)
(* The ECDS snapshot store (internal/xds/store.go).  It keeps one shared    *)
(* snapshot per Engine and, for a proxy that rejected a configuration, an   *)
(* isolated retry snapshot under a proxy key.  Every operation is one       *)
(* critical section of SnapshotStore.mu, hence one action.                  *)
(*                                                                         *)
(* A version string is either the accepted hash v or "v.retryN"; it is      *)
(* modelled by what retryBase and retryAttempt read back from it, the       *)
(* record [base |-> v, attempt |-> N], with attempt 0 for an accepted       *)
(* version.  A resource name carries the Engine's UID (render.ResourceName) *)
(* and is the pair <<engine, uid>>.  The eviction sequence numbers are only *)
(* ever compared between proxies of one Engine, so the model keeps their    *)
(* order, not their values.                                                 *)
(***************************************************************************)
EXTENDS Integers, FiniteSets

CONSTANTS
    Engines,      \* Engine keys, "namespace/name"
    UIDs,         \* UIDs an Engine key can have over time
    Proxies,      \* proxy cache keys
    Versions,     \* accepted content hashes
    None,         \* absent map entry, nil pointer, empty string
    MaxInactive,  \* maxInactiveRetryProxies
    MaxAttempt,   \* bound on the retry number
    MaxActive     \* bound on the streams bound to one proxy key

Names == Engines \X UIDs

Version == [base : Versions, attempt : Nat]

Snapshot == [name : Names, version : Versions]

ProxySnapshot == [engineKey : Engines, active : Nat, retryUnacked : BOOLEAN]

ASSUME StoreAssumption ==
    /\ Engines \cap Proxies = {}
    /\ None \notin Engines \cup Version \cup Snapshot \cup ProxySnapshot
    /\ MaxInactive \in Nat \ {0}

VARIABLES
    cache,      \* go-control-plane SnapshotCache: key -> Version or None
    meta,       \* Engine key -> the published Snapshot or None
    resources,  \* resource name -> Engine key or None
    proxies,    \* proxy key -> ProxySnapshot or None
    byEngine,   \* Engine key -> its proxy keys, an index of proxies
    before      \* <<p, q>>: p and q are proxies of one Engine, p.seq < q.seq

storeVars == <<cache, meta, resources, proxies, byEngine, before>>

StoreTypeOK ==
    /\ cache \in [Engines \cup Proxies -> Version \cup {None}]
    /\ meta \in [Engines -> Snapshot \cup {None}]
    /\ resources \in [Names -> Engines \cup {None}]
    /\ proxies \in [Proxies -> ProxySnapshot \cup {None}]
    /\ byEngine \in [Engines -> SUBSET Proxies]
    /\ before \in SUBSET (Proxies \X Proxies)

-----------------------------------------------------------------------------
\* NewSnapshotStore
StoreInit ==
    /\ cache = [k \in Engines \cup Proxies |-> None]
    /\ meta = [e \in Engines |-> None]
    /\ resources = [n \in Names |-> None]
    /\ proxies = [p \in Proxies |-> None]
    /\ byEngine = [e \in Engines |-> {}]
    /\ before = {}

\* An accepted version and, from n = 1 on, its n-th derived retry version.
Retry(v, n) == [base |-> v, attempt |-> n]

\* The Engine key a subscription resolves to, None when there is no snapshot.
snapshotForResource(n) ==
    IF resources[n] # None /\ meta[resources[n]] # None THEN resources[n] ELSE None

\* The version is a retry of the content the Engine publishes now.
IsRetryOf(version, e) ==
    version # None /\ version.attempt > 0 /\ version.base = meta[e].version

\* p takes the next sequence number among the proxies ps of its Engine.
Touch(p, ps) ==
    {r \in before : r[1] # p /\ r[2] # p} \cup {<<q, p>> : q \in ps \ {p}}

\* Fault: connected proxies are candidates for eviction.
UnackedRetries(px, ps) == {p \in ps : px[p].retryUnacked}

\* Of the proxies ps, the disconnected ones with an unacknowledged retry.
InactiveRetries(px, ps) == {p \in ps : px[p].active = 0 /\ px[p].retryUnacked}

\* Fault: one candidate too many is kept.
EvictedLate(px, ps, order) ==
    {p \in InactiveRetries(px, ps) :
        Cardinality({q \in InactiveRetries(px, ps) : <<p, q>> \in order}) > MaxInactive}

\* Fault: the candidates are sorted the other way round.
EvictedYoungest(px, ps, order) ==
    {p \in InactiveRetries(px, ps) :
        Cardinality({q \in InactiveRetries(px, ps) : <<q, p>> \in order}) >= MaxInactive}

\* evictInactiveRetriesLocked drops the oldest candidates beyond MaxInactive:
\* those that at least MaxInactive candidates are younger than.
Evicted(px, ps, order) ==
    {p \in InactiveRetries(px, ps) :
        Cardinality({q \in InactiveRetries(px, ps) : <<p, q>> \in order}) >= MaxInactive}

\* The writes to the proxies of Engine e become px, ps, c and order, except
\* that the proxies in gone are untracked and their snapshots cleared.
Commit(e, px, ps, c, order, gone) ==
    /\ proxies' = [p \in Proxies |-> IF p \in gone THEN None ELSE px[p]]
    /\ cache' = [k \in Engines \cup Proxies |-> IF k \in gone THEN None ELSE c[k]]
    /\ byEngine' = [byEngine EXCEPT ![e] = ps \ gone]
    /\ before' = {r \in order : r[1] \notin gone /\ r[2] \notin gone}

-----------------------------------------------------------------------------
\* Fault: connected proxies keep the snapshot of what was published before.
RepublishedShared(e, busy) == {e}

\* The keys that Replace gives the new snapshot: the Engine's own and those of
\* its proxies with a stream.
Republished(e, busy) == busy \cup {e}

\* Replace publishes version v of Engine e under UID u.
Replace(e, u, v) ==
    LET idle == {p \in byEngine[e] : proxies[p].active = 0}
        busy == byEngine[e] \ idle
        px == [p \in Proxies |-> IF p \in busy
                                 THEN [proxies[p] EXCEPT !.retryUnacked = FALSE]
                                 ELSE proxies[p]]
        c == [k \in Engines \cup Proxies |-> IF k \in Republished(e, busy) THEN Retry(v, 0)
                                             ELSE cache[k]]
        stale == {n \in Names : meta[e] # None /\ meta[e].name = n /\ n # <<e, u>>}
    IN  /\ meta' = [meta EXCEPT ![e] = [name |-> <<e, u>>, version |-> v]]
        /\ resources' = [n \in Names |-> IF n = <<e, u>> THEN e
                                         ELSE IF n \in stale THEN None
                                         ELSE resources[n]]
        /\ Commit(e, px, byEngine[e], c, before, idle)

\* BumpRejected publishes retry n of the current snapshot for one proxy.  base
\* is the version the retry was scheduled for; without one, any is current.
CanBump(name, p, base) ==
    LET e == snapshotForResource(name)
    IN  /\ e # None
        /\ base \in {None, meta[e].version}
        /\ proxies[p] # None => proxies[p].engineKey = e

BumpRejected(name, p, base, n) ==
    LET e == snapshotForResource(name)
        active == IF proxies[p] = None THEN 0 ELSE proxies[p].active
        px == [proxies EXCEPT ![p] =
                   [engineKey |-> e, active |-> active, retryUnacked |-> TRUE]]
        ps == byEngine[e] \cup {p}
        order == Touch(p, ps)
    IN  /\ CanBump(name, p, base)
        /\ Commit(e, px, ps, [cache EXCEPT ![p] = Retry(meta[e].version, n)],
                  order, Evicted(px, ps, order))
        /\ UNCHANGED <<meta, resources>>

\* BindRejectedRetry attaches a stream to the proxy's retry snapshot.  version
\* is the client's version_info.  A cached retry of the current content is used
\* as it is; otherwise rejectedSnapshot builds the attempt of version anew from
\* the current content.
HasRetry(p, e) == proxies[p] # None /\ IsRetryOf(cache[p], e)

CanBind(name, p, version) ==
    LET e == snapshotForResource(name)
    IN  /\ e # None
        /\ proxies[p] # None => proxies[p].engineKey = e
        /\ HasRetry(p, e) \/ IsRetryOf(version, e)

BindRejectedRetry(name, p, version) ==
    LET e == snapshotForResource(name)
        fresh == proxies[p] = None
        bound == IF fresh THEN [engineKey |-> e, active |-> 1, retryUnacked |-> FALSE]
                 ELSE [proxies[p] EXCEPT !.active = proxies[p].active + 1]
        px == [proxies EXCEPT ![p] = bound]
        ps == byEngine[e] \cup {p}
    IN  /\ CanBind(name, p, version)
        /\ Commit(e, px, ps,
                  IF HasRetry(p, e) THEN cache
                  ELSE [cache EXCEPT ![p] = Retry(meta[e].version, version.attempt)],
                  IF fresh THEN Touch(p, ps) ELSE before, {})
        /\ UNCHANGED <<meta, resources>>

\* AckRejected marks a proxy's derived version as accepted.
AckRejected(p, version) ==
    /\ proxies[p] # None /\ version.attempt > 0 /\ cache[p] = version
    /\ proxies' = [proxies EXCEPT ![p].retryUnacked = FALSE]
    /\ UNCHANGED <<cache, meta, resources, byEngine, before>>

\* A stream lets go of a proxy's snapshot, which active streams still use.
ReleaseTo(p, active) ==
    LET e == proxies[p].engineKey
        px == [proxies EXCEPT ![p] = [proxies[p] EXCEPT !.active = active]]
        order == IF active = 0 THEN Touch(p, byEngine[e]) ELSE before
        done == IF active = 0 /\ ~proxies[p].retryUnacked THEN {p} ELSE {}
    IN  /\ proxies[p] # None
        /\ Commit(e, px, byEngine[e], cache, order,
                  done \cup Evicted(px, byEngine[e], order))
        /\ UNCHANGED <<meta, resources>>

\* ReleaseRejectedRetry drops a stream's reference to a proxy's snapshot.
ReleaseRejectedRetry(p) ==
    ReleaseTo(p, IF proxies[p].active > 0 THEN proxies[p].active - 1 ELSE 0)

\* Fault: the resource name of a deleted Engine stays behind.
DeleteKeepsName(e) ==
    /\ meta' = [meta EXCEPT ![e] = None]
    /\ UNCHANGED resources
    /\ Commit(e, proxies, byEngine[e], [cache EXCEPT ![e] = None], before, byEngine[e])

\* DeleteEngine removes an Engine's snapshot and those of its proxies.
DeleteEngine(e) ==
    /\ meta' = [meta EXCEPT ![e] = None]
    /\ resources' = [n \in Names |-> IF meta[e] # None /\ meta[e].name = n THEN None
                                     ELSE resources[n]]
    /\ Commit(e, proxies, byEngine[e], [cache EXCEPT ![e] = None], before, byEngine[e])

\* CurrentVersionFor: the proxy's own retry version, or the accepted one.
CurrentVersionFor(name, p) ==
    LET e == snapshotForResource(name)
    IN  IF e = None THEN None
        ELSE IF HasRetry(p, e) /\ proxies[p].engineKey = e THEN cache[p]
        ELSE cache[e]

-----------------------------------------------------------------------------
StoreNext ==
    \/ \E e \in Engines, u \in UIDs, v \in Versions : Replace(e, u, v)
    \/ \E e \in Engines : DeleteEngine(e)
    \/ \E n \in Names, p \in Proxies, v \in Versions \cup {None}, a \in 1..MaxAttempt :
          BumpRejected(n, p, v, a)
    \/ \E n \in Names, p \in Proxies, v \in Versions, a \in 0..MaxAttempt :
          /\ proxies[p] # None => proxies[p].active < MaxActive
          /\ BindRejectedRetry(n, p, Retry(v, a))
    \/ \E p \in Proxies, v \in Versions, a \in 0..MaxAttempt : AckRejected(p, Retry(v, a))
    \/ \E p \in Proxies : ReleaseRejectedRetry(p)

StoreSpec == StoreInit /\ [][StoreNext]_storeVars

-----------------------------------------------------------------------------
\* Safety: whatever is served, under an Engine's own key or under a proxy key,
\* derives from the version the Engine publishes now.  A retry scheduled before
\* a Replace can never bring older content back (BumpRejected, Replace).
ServedIsCurrent ==
    /\ \A e \in Engines :
          cache[e] = IF meta[e] = None THEN None ELSE Retry(meta[e].version, 0)
    /\ \A p \in Proxies : cache[p] # None =>
          /\ proxies[p] # None
          /\ meta[proxies[p].engineKey] # None
          /\ cache[p].base = meta[proxies[p].engineKey].version

\* Safety: the secondary indexes agree with the maps they index.  No resource
\* name outlives the UID it was published under, no proxy is tracked without a
\* snapshot, and byEngine lists exactly the proxies of each Engine.
IndexesAgree ==
    /\ \A n \in Names, e \in Engines :
          resources[n] = e <=> meta[e] # None /\ meta[e].name = n
    /\ \A p \in Proxies : proxies[p] # None => cache[p] # None
    /\ \A e \in Engines :
          byEngine[e] = {p \in Proxies : proxies[p] # None /\ proxies[p].engineKey = e}

\* Safety: proxies that reject a configuration and never come back leave at
\* most MaxInactive retry snapshots per Engine (evictInactiveRetriesLocked).
InactiveRetriesBounded ==
    \A e \in Engines : Cardinality(InactiveRetries(proxies, byEngine[e])) <= MaxInactive

\* Action property: while the Engine stays published, a proxy's snapshot goes
\* away under a connected stream only when the last one releases a retry that
\* was acknowledged; eviction never takes it.
ConnectedKeepSnapshot ==
    [][\A p \in Proxies :
          /\ proxies[p] # None /\ proxies[p].active > 0
          /\ meta'[proxies[p].engineKey] # None
          /\ proxies'[p] = None
          => proxies[p].active = 1 /\ ~proxies[p].retryUnacked]_storeVars

\* Action property: when an unacknowledged retry is dropped while its Engine's
\* publication stands, every disconnected one that survives it had a later NACK
\* or disconnect, or has one in this very step (evictInactiveRetriesLocked).
EvictsOldest ==
    [][\A e \in Engines : meta'[e] = meta[e] =>
          \A p \in byEngine[e], q \in InactiveRetries(proxies, byEngine[e]) :
              /\ proxies[p].retryUnacked /\ proxies'[p] = None
              /\ q \in InactiveRetries(proxies', byEngine'[e])
              => \/ <<p, q>> \in before
                 \/ \A r \in byEngine'[e] \ {q} : <<r, q>> \in before']_storeVars

=============================================================================
