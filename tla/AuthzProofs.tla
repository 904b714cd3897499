----------------------------- MODULE AuthzProofs -----------------------------
(***************************************************************************)
(* Proofs about the authorization index: the types of AuthzIndex are kept,  *)
(* and no authorized stream outlives its grant unnoticed, for any number of *)
(* Engine incarnations, identities and sessions.                            *)
(***************************************************************************)
EXTENDS AuthzIndex, TLAPS

\* Where a process works with the Engine object it has read.
Looking == {"capture", "enter", "revoke", "expire", "gateway", "pods", "commit",
            "drop", "unknown"}

Formed(x) == x \in Worker /\ (x.pc \in Looking => x.seen \in Engine)

Counts == [change : Nat, fail : Nat]

\* The type invariant, made inductive: a process holds an Engine where it uses one,
\* and the sessions that a pass has still to revalidate are registered.
TypeInv ==
    /\ AuthzTypeOK
    /\ \A w \in Workers : Formed(worker[w])
    /\ \A t \in worker["sweep"].targets : session[t[1]] # None

-----------------------------------------------------------------------------
\* Local states of a process (the variables of Reconcile, refresh and RefreshAll).

\* Idle is a local state, and what Resumes leaves is one as well.
LEMMA IdleFormed == Formed(Idle)
BY Zenon DEF Formed, Idle, Worker, Looking

\* Resumes, where a process is through with an Engine, keeps no targets and
\* notifies exactly what it is told to.
LEMMA ResumesFormed ==
    ASSUME TypeInv, NEW w \in Workers, NEW notify \in SUBSET Names,
           NEW pc \in {"idle", "forget", "next", "unknown"},
           pc = "unknown" => worker[w].seen \in Engine
    PROVE  /\ Formed(Resumes(w, pc, notify))
           /\ Resumes(w, pc, notify).targets = {}
           /\ Resumes(w, pc, notify).notify = notify
<1>1. worker[w] \in Worker
  BY Zenon DEF TypeInv, AuthzTypeOK
<1>2. worker[w].todo \in SUBSET Names /\ worker[w].moved \in SUBSET Names
  BY <1>1, Zenon DEF Worker
<1> DEFINE seen == IF pc = "unknown" THEN worker[w].seen ELSE None
           moved == IF w = "sweep" THEN worker[w].moved ELSE {}
           todo == worker[w].todo
<1>3. seen \in Engine \cup {None} /\ moved \in SUBSET Names /\ todo \in SUBSET Names
  BY <1>2, Zenon
<1>4. pc \in Looking => seen \in Engine
  BY Zenon DEF Looking
<1>5. Resumes(w, pc, notify) = [Idle EXCEPT !.pc = pc, !.notify = notify, !.seen = seen,
                                           !.todo = todo, !.moved = moved]
  BY Zenon DEF Resumes
<1> HIDE DEF seen, moved, todo
<1>6. Idle \in Worker /\ Idle.targets = {}
  BY Zenon DEF Idle, Worker
<1>7. /\ Resumes(w, pc, notify) \in Worker
      /\ Resumes(w, pc, notify).pc = pc
      /\ Resumes(w, pc, notify).seen = seen
      /\ Resumes(w, pc, notify).targets = {}
      /\ Resumes(w, pc, notify).notify = notify
  BY <1>3, <1>5, <1>6, ZenonT(30) DEF Worker
<1> QED
  BY <1>4, <1>7, Zenon DEF Formed

\* Return names a place where a process is through with an Engine.
LEMMA ReturnPlace ==
    ASSUME NEW w \in Workers
    PROVE  Return(w) \in {"idle", "forget", "next"}
BY Zenon DEF Return, Workers

\* A step of one process to a formed local state keeps the invariant, when it leaves
\* the index and the sessions alone or keeps their types.
LEMMA GoesKeeps ==
    ASSUME TypeInv, NEW w \in Workers, NEW to, Formed(to), Goes(w, to),
           to.targets \subseteq worker[w].targets,
           UNCHANGED <<cluster, session>>, queued' \in BOOLEAN, count' \in Counts,
           entries' \in [Names -> Entry \cup {None}], known' \in SUBSET Names
    PROVE  TypeInv'
<1>1. worker' = [worker EXCEPT ![w] = to] /\ worker \in [Workers -> Worker] /\ to \in Worker
  BY Zenon DEF Goes, TypeInv, AuthzTypeOK, Formed
<1>2. worker' \in [Workers -> Worker]
  BY <1>1, Zenon
<1>3. \A v \in Workers : Formed(worker'[v])
  BY <1>1, Zenon DEF TypeInv
<1>4. worker'["sweep"].targets \subseteq worker["sweep"].targets
  BY <1>1, Zenon DEF Workers
<1>5. \A t \in worker'["sweep"].targets : session'[t[1]] # None
  BY <1>4, Zenon DEF TypeInv
<1>6. AuthzTypeOK'
  BY <1>2, Zenon DEF TypeInv, AuthzTypeOK, cluster, Counts
<1> QED
  BY <1>3, <1>5, <1>6, Zenon DEF TypeInv, Formed, Looking

\* Moving on to another place keeps the rest of a local state.
LEMMA MovesFormed ==
    ASSUME NEW x, Formed(x), NEW pc \in {"idle", "enter", "revoke", "expire", "gateway",
                                        "pods", "commit", "forget", "next", "drop"},
           pc \in Looking => x.seen \in Engine
    PROVE  /\ Formed([x EXCEPT !.pc = pc])
           /\ [x EXCEPT !.pc = pc].targets = x.targets
           /\ [x EXCEPT !.pc = pc].notify = x.notify
BY Zenon DEF Formed, Worker

\* GoesRevoking moves the counters of the revoked names for the processes that read
\* them, and nothing else of their local states.
LEMMA RevokingStates ==
    ASSUME TypeInv, NEW w \in Workers, NEW to, Formed(to), NEW ns \in SUBSET Names,
           GoesRevoking(w, to, ns)
    PROVE  /\ worker' \in [Workers -> Worker]
           /\ \A v \in Workers :
                 LET x == IF v = w THEN to ELSE worker[v]
                 IN  /\ Formed(worker'[v])
                     /\ worker'[v].targets = x.targets
                     /\ worker'[v].notify = x.notify
<1> DEFINE x(v) == IF v = w THEN to ELSE worker[v]
           y(v) == IF x(v).pc \in {"idle", "capture", "forget"} THEN x(v)
                   ELSE [x(v) EXCEPT !.moved = @ \cup ns]
<1>1. worker' = [v \in Workers |-> y(v)]
  BY Zenon DEF GoesRevoking
<1>2. ASSUME NEW v \in Workers
      PROVE  Formed(x(v))
  BY Zenon DEF TypeInv
<1> HIDE DEF x
<1>3. ASSUME NEW v \in Workers
      PROVE  Formed(y(v)) /\ y(v).targets = x(v).targets /\ y(v).notify = x(v).notify
  <2>1. Formed(x(v))
    BY <1>2, Zenon
  <2>2. x(v).moved \cup ns \in SUBSET Names
    BY <2>1, Zenon DEF Formed, Worker
  <2> QED
    BY <2>1, <2>2 DEF Formed, Worker
<1>4. \A v \in Workers : worker'[v] = y(v)
  BY <1>1, Zenon
<1> HIDE DEF y
<1>5. worker' \in [Workers -> Worker]
  BY <1>1, <1>3, Zenon DEF Formed
<1> QED
  BY <1>3, <1>4, <1>5, Zenon DEF x

\* A revocation keeps the invariant as Goes does.
LEMMA RevokingKeeps ==
    ASSUME TypeInv, NEW w \in Workers, NEW to, Formed(to), NEW ns \in SUBSET Names,
           GoesRevoking(w, to, ns), to.targets \subseteq worker[w].targets,
           UNCHANGED <<cluster, session, count>>, queued' \in BOOLEAN,
           entries' \in [Names -> Entry \cup {None}], known' \in SUBSET Names
    PROVE  TypeInv'
<1>1. /\ worker' \in [Workers -> Worker]
      /\ \A v \in Workers : Formed(worker'[v])
      /\ \A v \in Workers : worker'[v].targets = IF v = w THEN to.targets ELSE worker[v].targets
  BY RevokingStates
<1>2. worker'["sweep"].targets \subseteq worker["sweep"].targets
  BY <1>1, Zenon DEF Workers
<1>3. \A t \in worker'["sweep"].targets : session'[t[1]] # None
  BY <1>2, Zenon DEF TypeInv
<1>4. AuthzTypeOK'
  BY <1>1, Zenon DEF TypeInv, AuthzTypeOK, cluster
<1> QED
  BY <1>1, <1>3, <1>4, Zenon DEF TypeInv, Formed, Looking

\* Returned, the end of a refresh, keeps the invariant.
LEMMA ReturnedKeeps ==
    ASSUME TypeInv, NEW w \in Workers, NEW notify \in SUBSET Names, Returned(w, notify),
           UNCHANGED <<cluster, session, count>>,
           entries' \in [Names -> Entry \cup {None}], known' \in SUBSET Names
    PROVE  TypeInv'
<1>1. Return(w) \in {"idle", "forget", "next"}
  BY ReturnPlace, Zenon
<1>2. /\ Formed(Resumes(w, Return(w), notify))
      /\ Resumes(w, Return(w), notify).targets = {}
  BY <1>1, ResumesFormed
<1>3. queued' \in BOOLEAN
  BY Zenon DEF Returned, Requeued
<1>4. count' \in Counts
  BY Zenon DEF TypeInv, AuthzTypeOK, Counts
<1>5. Goes(w, Resumes(w, Return(w), notify))
  BY Zenon DEF Returned
<1> QED
  BY <1>2, <1>3, <1>4, <1>5, GoesKeeps, Zenon

\* Revokes, the critical section of RevokeAndNotify, keeps the invariant.
LEMMA RevokesKeeps ==
    ASSUME TypeInv, NEW w \in Workers, NEW n \in Names,
           NEW pc \in {"idle", "forget", "next", "unknown"},
           pc = "unknown" => worker[w].seen \in Engine,
           Revokes(w, n, pc), UNCHANGED <<cluster, session, count>>, queued' \in BOOLEAN
    PROVE  TypeInv'
<1> DEFINE notify == IF entries[n] = None THEN {} ELSE {n}
<1>1. notify \in SUBSET Names /\ {n} \in SUBSET Names
  OBVIOUS
<1>2. entries' \in [Names -> Entry \cup {None}] /\ known' \in SUBSET Names
  BY Zenon DEF Revokes, TypeInv, AuthzTypeOK
<1>3. GoesRevoking(w, Resumes(w, pc, notify), {n})
  BY Zenon DEF Revokes
<1> HIDE DEF notify
<1>4. Formed(Resumes(w, pc, notify)) /\ Resumes(w, pc, notify).targets = {}
  BY <1>1, ResumesFormed
<1> QED
  BY <1>1, <1>2, <1>3, <1>4, RevokingKeeps, Zenon

\* A process at a place where it works with an Engine has one.
LEMMA SeenEngine ==
    ASSUME TypeInv, NEW w \in Workers, worker[w].pc \in Looking
    PROVE  /\ worker[w].seen \in Engine /\ worker[w].seen.uid \in Names
           /\ worker[w].seen.state \in States /\ worker[w].seen.record \in BOOLEAN
BY Zenon DEF TypeInv, Formed, Engine

\* A failed call is counted.
LEMMA FailsCounts ==
    ASSUME TypeInv, Fails
    PROVE  count' \in Counts
<1>1. count \in Counts
  BY Zenon DEF TypeInv, AuthzTypeOK, Counts
<1> QED
  BY <1>1 DEF Fails, Counts

\* A failed read ends in expireIfStale.
LEMMA ReadFailsKeeps ==
    ASSUME TypeInv, NEW w \in Workers, worker[w].pc \in Looking, ReadFails(w)
    PROVE  TypeInv'
<1> DEFINE to == [worker[w] EXCEPT !.pc = "expire", !.failed = TRUE]
<1>1. Formed(to) /\ to.targets = worker[w].targets
  BY SeenEngine, ZenonT(30) DEF TypeInv, Formed, Worker
<1>2. Goes(w, to) /\ UNCHANGED <<cluster, session>> /\ count' \in Counts
  BY FailsCounts, Zenon DEF ReadFails
<1>3. /\ queued' \in BOOLEAN /\ entries' \in [Names -> Entry \cup {None}]
      /\ known' \in SUBSET Names
  BY Zenon DEF ReadFails, index, TypeInv, AuthzTypeOK
<1> HIDE DEF to
<1> QED
  BY <1>1, <1>2, <1>3, GoesKeeps, Zenon

\* What the invariant says of the variables a step leaves alone.
LEMMA Unmoved ==
    ASSUME TypeInv
    PROVE  /\ queued \in BOOLEAN /\ count \in Counts /\ known \in SUBSET Names
           /\ entries \in [Names -> Entry \cup {None}]
           /\ worker \in [Workers -> Worker] /\ session \in [Sessions -> Session \cup {None}]
           /\ \A w \in Workers : Formed(worker[w])
           /\ engine \in Engine /\ gateway \in BOOLEAN /\ accounts \in SUBSET Identities
BY Zenon DEF TypeInv, AuthzTypeOK, Counts

-----------------------------------------------------------------------------
\* Type correctness, one action at a time.

\* The steps of Refresh and refresh up to the write.
LEMMA RefreshTypes ==
    ASSUME TypeInv, NEW w \in Workers,
           Refresh(w) \/ RefreshEnter(w) \/ RefreshGateway(w) \/ RefreshPods(w)
    PROVE  TypeInv'
<1> USE Unmoved
<1>1. CASE Refresh(w)
  <2>1. worker[w].seen \in Engine
    BY <1>1, SeenEngine, Zenon DEF Refresh, At, Looking
  <2>2. /\ Formed([worker[w] EXCEPT !.pc = "enter"])
        /\ [worker[w] EXCEPT !.pc = "enter"].targets = worker[w].targets
    BY <2>1, MovesFormed, Zenon
  <2>3. Goes(w, [worker[w] EXCEPT !.pc = "enter"])
    BY <1>1, Zenon DEF Refresh
  <2> QED
    BY <1>1, <2>2, <2>3, GoesKeeps, Zenon DEF Refresh, index
<1>2. CASE RefreshEnter(w)
  <2> DEFINE n == worker[w].seen.uid
             next == [deleting |-> "revoke", rejected |-> "revoke", stale |-> "expire",
                      current |-> "gateway"]
             pc == next[worker[w].seen.state]
  <2>1. /\ worker[w].seen \in Engine /\ n \in Names /\ worker[w].seen.state \in States
    BY <1>2, SeenEngine, Zenon DEF RefreshEnter, At, Looking
  <2>2. UNCHANGED <<cluster, entries, session, count>>
    BY <1>2, Zenon DEF RefreshEnter
  <2>3. CASE n \in worker[w].moved
    <3>1. Returned(w, {}) /\ UNCHANGED known
      BY <1>2, <2>3, Zenon DEF RefreshEnter
    <3> QED
      BY <2>2, <3>1, ReturnedKeeps, Zenon
  <2>4. CASE n \notin worker[w].moved
    <3>1. known' = known \cup {n} /\ Goes(w, [worker[w] EXCEPT !.pc = pc]) /\ UNCHANGED queued
      BY <1>2, <2>4, Zenon DEF RefreshEnter
    <3>2. pc \in {"revoke", "expire", "gateway"}
      BY <2>1 DEF States
    <3> HIDE DEF pc, n
    <3>3. /\ Formed([worker[w] EXCEPT !.pc = pc])
          /\ [worker[w] EXCEPT !.pc = pc].targets = worker[w].targets
      BY <2>1, <3>2, MovesFormed, ZenonT(30)
    <3>4. known' \in SUBSET Names
      BY <2>1, <3>1, Zenon
    <3> QED
      BY <2>2, <3>1, <3>3, <3>4, GoesKeeps, Zenon
  <2> QED
    BY <2>3, <2>4, Zenon
<1>3. CASE RefreshGateway(w)
  <2>1. worker[w].seen \in Engine /\ worker[w].pc \in Looking
    BY <1>3, SeenEngine, Zenon DEF RefreshGateway, At, Looking
  <2>2. CASE ReadFails(w)
    BY <2>1, <2>2, ReadFailsKeeps, Zenon
  <2> DEFINE pc == IF gateway THEN "pods" ELSE "revoke"
  <2>3. CASE Goes(w, [worker[w] EXCEPT !.pc = pc])
             /\ UNCHANGED <<cluster, queued, index, session, count>>
    <3>1. pc \in {"pods", "revoke"}
      OBVIOUS
    <3> HIDE DEF pc
    <3>2. /\ Formed([worker[w] EXCEPT !.pc = pc])
          /\ [worker[w] EXCEPT !.pc = pc].targets = worker[w].targets
      BY <2>1, <3>1, MovesFormed, ZenonT(30)
    <3> QED
      BY <2>3, <3>2, GoesKeeps, Zenon DEF index
  <2> QED
    BY <1>3, <2>2, <2>3, Zenon DEF RefreshGateway
<1>4. CASE RefreshPods(w)
  <2>1. worker[w].seen \in Engine /\ worker[w].pc \in Looking
    BY <1>4, SeenEngine, Zenon DEF RefreshPods, At, Looking
  <2>2. CASE ReadFails(w)
    BY <2>1, <2>2, ReadFailsKeeps, Zenon
  <2> DEFINE to == [worker[w] EXCEPT !.pc = "commit", !.ids = accounts]
  <2>3. CASE Goes(w, to) /\ UNCHANGED <<cluster, queued, index, session, count>>
    <3>1. worker[w] \in Worker /\ accounts \in SUBSET Identities
      OBVIOUS
    <3>2. /\ to \in Worker /\ to.seen = worker[w].seen
          /\ to.targets = worker[w].targets
      BY <3>1, Zenon DEF Worker
    <3>3. Formed(to)
      BY <2>1, <3>2, Zenon DEF Formed
    <3> HIDE DEF to
    <3> QED
      BY <2>3, <3>2, <3>3, GoesKeeps, Zenon DEF index
  <2> QED
    BY <1>4, <2>2, <2>3, Zenon DEF RefreshPods
<1> QED
  BY <1>1, <1>2, <1>3, <1>4, Zenon

\* The write of a refresh, the revocations and the notification of their streams.
LEMMA CommitTypes ==
    ASSUME TypeInv, NEW w \in Workers,
           \/ RefreshCommit(w) \/ RevokeAndNotify(w) \/ expireIfStale(w)
           \/ NotifyRevoked(w)
    PROVE  TypeInv'
<1> USE Unmoved
<1> DEFINE n == worker[w].seen.uid
<1>1. CASE RefreshCommit(w)
  <2> DEFINE ids == worker[w].ids
             revoked == entries[n] # None /\ identitiesRevoked(entries[n].ids, ids)
  <2>1. n \in Names
    BY <1>1, SeenEngine, Zenon DEF RefreshCommit, At, Looking
  <2>2. UNCHANGED <<cluster, known, session, count>>
    BY <1>1, Zenon DEF RefreshCommit
  <2>3. CASE n \in worker[w].moved
    <3>1. Returned(w, {}) /\ UNCHANGED entries
      BY <1>1, <2>3, Zenon DEF RefreshCommit
    <3> QED
      BY <2>2, <3>1, ReturnedKeeps, Zenon
  <2>4. CASE n \notin worker[w].moved
    <3>1. /\ entries' = [entries EXCEPT ![n] = Refreshed(ids)]
          /\ Returned(w, IF revoked THEN {n} ELSE {})
      BY <1>1, <2>4, Zenon DEF RefreshCommit
    <3>2. Refreshed(ids) \in Entry
      BY Zenon DEF Refreshed, Entry, Formed, Worker
    <3>3. entries' \in [Names -> Entry \cup {None}]
      BY <3>1, <3>2, Zenon
    <3>4. (IF revoked THEN {n} ELSE {}) \in SUBSET Names
      BY <2>1, Zenon
    <3> QED
      BY <2>2, <3>1, <3>3, <3>4, ReturnedKeeps, Zenon
  <2> QED
    BY <2>3, <2>4, Zenon
<1>2. CASE RevokeAndNotify(w)
  <2>1. n \in Names
    BY <1>2, SeenEngine, Zenon DEF RevokeAndNotify, At, Looking
  <2>2. /\ Revokes(w, n, Return(w)) /\ queued' \in BOOLEAN
        /\ UNCHANGED <<cluster, session, count>>
    BY <1>2, Zenon DEF RevokeAndNotify, Requeued
  <2> QED
    BY <2>1, <2>2, ReturnPlace, RevokesKeeps, Zenon
<1>3. CASE expireIfStale(w)
  <2>1. n \in Names /\ UNCHANGED <<cluster, session, count>>
    BY <1>3, SeenEngine, Zenon DEF expireIfStale, At, Looking
  <2>2. CASE Revokes(w, n, Return(w)) /\ Requeued(w)
    <3>1. queued' \in BOOLEAN
      BY <2>2, Zenon DEF Requeued
    <3> QED
      BY <2>1, <2>2, <3>1, ReturnPlace, RevokesKeeps, Zenon
  <2>3. CASE Returned(w, {}) /\ UNCHANGED index
    BY <2>1, <2>3, ReturnedKeeps, Zenon DEF index
  <2> QED
    BY <1>3, <2>2, <2>3, Zenon DEF expireIfStale
<1>4. CASE NotifyRevoked(w)
  <2>1. PICK m \in worker[w].notify :
          /\ Goes(w, [worker[w] EXCEPT !.notify = @ \ {m}])
          /\ session' = [s \in Sessions |->
                IF session[s] # None /\ session[s].name = m
                THEN [session[s] EXCEPT !.live = FALSE] ELSE session[s]]
    BY <1>4, Zenon DEF NotifyRevoked
  <2> DEFINE to == [worker[w] EXCEPT !.notify = @ \ {m}]
  <2>2. to \in Worker /\ Formed(to) /\ to.targets = worker[w].targets
    BY DEF Formed, Worker
  <2>3. UNCHANGED <<cluster, queued, index, count>>
    BY <1>4, Zenon DEF NotifyRevoked
  <2>4. worker' = [worker EXCEPT ![w] = to]
    BY <2>1, Zenon DEF Goes
  <2> HIDE DEF to
  <2>5. worker' \in [Workers -> Worker] /\ \A v \in Workers : Formed(worker'[v])
    BY <2>2, <2>4, Zenon
  <2>6. worker'["sweep"].targets = worker["sweep"].targets
    BY <2>2, <2>4, Zenon DEF Workers
  <2>7. ASSUME NEW s \in Sessions
        PROVE  session'[s] \in Session \cup {None} /\ (session[s] # None => session'[s] # None)
    <3>1. session[s] # None => [session[s] EXCEPT !.live = FALSE] \in Session
      BY Zenon DEF Session
    <3> QED
      BY <2>1, <3>1, AuthzAssumption, Zenon
  <2>8. session' \in [Sessions -> Session \cup {None}]
    BY <2>1, <2>7, Zenon
  <2>9. \A t \in worker'["sweep"].targets : session'[t[1]] # None
    <3>1. \A t \in worker["sweep"].targets : t[1] \in Sessions
      BY Zenon DEF Worker, Workers
    <3> QED
      BY <2>6, <2>7, <3>1, Zenon DEF TypeInv
  <2> QED
    BY <2>3, <2>5, <2>8, <2>9, Zenon DEF TypeInv, AuthzTypeOK, cluster, index, Formed, Looking
<1> QED
  BY <1>1, <1>2, <1>3, <1>4, Zenon

\* The reconciler's own steps.
LEMMA ReconcileTypes ==
    ASSUME TypeInv, Reconcile \/ RevokeEngine
    PROVE  TypeInv'
<1> USE Unmoved
<1> DEFINE w == "reconcile"
<1>0. w \in Workers
  BY Zenon DEF Workers
<1>1. CASE Reconcile
  <2> DEFINE forget == ~engine.exists \/ engine.state = "deleting"
             seen == IF forget THEN None ELSE engine
             pc == IF forget THEN "forget" ELSE "capture"
             to == [worker[w] EXCEPT !.seen = seen, !.pc = pc]
  <2>1. UNCHANGED <<cluster, index, session>>
    BY <1>1, Zenon DEF Reconcile
  <2>2. CASE Goes(w, to) /\ queued' = FALSE /\ UNCHANGED count
    <3>1. seen \in Engine \cup {None} /\ pc \in {"forget", "capture"}
          /\ (pc \in Looking => seen \in Engine)
      BY Zenon DEF Looking
    <3> HIDE DEF seen, pc
    <3>2. worker[w] \in Worker
      BY <1>0, Zenon
    <3>3. /\ to \in Worker /\ to.seen = seen /\ to.pc = pc
          /\ to.targets = worker[w].targets
      BY <3>1, <3>2, Zenon DEF Worker
    <3>4. Formed(to)
      BY <3>1, <3>3, Zenon DEF Formed
    <3> HIDE DEF to, w
    <3> QED
      BY <1>0, <2>1, <2>2, <3>3, <3>4, GoesKeeps, Zenon DEF index
  <2>3. CASE Fails /\ UNCHANGED <<queued, worker>>
    BY <2>1, <2>3, FailsCounts, Zenon DEF TypeInv, AuthzTypeOK, cluster, index, Counts
  <2> QED
    BY <1>1, <2>2, <2>3, Zenon DEF Reconcile
<1>2. CASE RevokeEngine
  <2> DEFINE granted == {n \in Names : entries[n] # None}
  <2>1. /\ GoesRevoking(w, Resumes(w, "idle", granted), granted \cup known)
        /\ UNCHANGED <<cluster, queued, session, count>>
    BY <1>2, Zenon DEF RevokeEngine
  <2>2. entries' \in [Names -> Entry \cup {None}] /\ known' \in SUBSET Names
    BY <1>2, Zenon DEF RevokeEngine
  <2>3. granted \in SUBSET Names /\ granted \cup known \in SUBSET Names
    OBVIOUS
  <2> HIDE DEF granted, w
  <2>4. Formed(Resumes(w, "idle", granted)) /\ Resumes(w, "idle", granted).targets = {}
    BY <1>0, <2>3, ResumesFormed, Zenon
  <2> QED
    BY <1>0, <2>1, <2>2, <2>3, <2>4, RevokingKeeps, Zenon
<1> QED
  BY <1>1, <1>2, Zenon

\* The steps of RefreshAll.
LEMMA RefreshAllTypes ==
    ASSUME TypeInv, RefreshAll \/ SweepNext \/ SweepDrop \/ SweepForget
    PROVE  TypeInv'
<1> USE Unmoved
<1> DEFINE w == "sweep"
<1>0. w \in Workers
  BY Zenon DEF Workers
<1>w. worker[w] \in Worker
  BY <1>0, Zenon
<1>1. CASE RefreshAll
  <2> DEFINE to == [worker[w] EXCEPT !.pc = "next", !.todo = known]
  <2>1. Goes(w, to) /\ UNCHANGED <<cluster, queued, index, session, count>>
    BY <1>1, Zenon DEF RefreshAll
  <2>2. to \in Worker /\ to.pc = "next" /\ to.targets = worker[w].targets
    BY <1>w, Zenon DEF Worker
  <2>3. Formed(to)
    BY <2>2, Zenon DEF Formed, Looking
  <2> HIDE DEF to, w
  <2> QED
    BY <1>0, <2>1, <2>2, <2>3, GoesKeeps, Zenon DEF index
<1>2. CASE SweepNext
  <2> DEFINE rest(n) == [worker[w] EXCEPT !.todo = @ \ {n}, !.seen = [engine EXCEPT !.uid = n]]
  <2>1. UNCHANGED <<cluster, queued, index, session>>
    BY <1>2, Zenon DEF SweepNext
  <2>2. PICK n \in worker[w].todo :
          \/ /\ Goes(w, [rest(n) EXCEPT !.pc = IF sameEngine(n) THEN "enter" ELSE "drop"])
             /\ UNCHANGED count
          \/ Goes(w, rest(n)) /\ Fails
    BY <1>2, Zenon DEF SweepNext
  <2>3. n \in Names /\ worker[w].todo \in SUBSET Names
    BY <1>w, Zenon DEF Worker
  <2>4. [engine EXCEPT !.uid = n] \in Engine
    BY <2>3, Zenon DEF Engine
  <2>5. /\ rest(n) \in Worker /\ rest(n).seen \in Engine
        /\ rest(n).targets = worker[w].targets
    BY <1>w, <2>3, <2>4, Zenon DEF Worker
  <2> HIDE DEF rest
  <2>6. Formed(rest(n))
    BY <2>5, Zenon DEF Formed
  <2> HIDE DEF w
  <2>7. CASE Goes(w, rest(n)) /\ Fails
    <3>1. count' \in Counts
      BY <2>7, FailsCounts, Zenon
    <3> QED
      BY <1>0, <2>1, <2>5, <2>6, <2>7, <3>1, GoesKeeps, Zenon DEF index
  <2>8. CASE Goes(w, [rest(n) EXCEPT !.pc = IF sameEngine(n) THEN "enter" ELSE "drop"])
             /\ UNCHANGED count
    <3> DEFINE pc == IF sameEngine(n) THEN "enter" ELSE "drop"
               to == [rest(n) EXCEPT !.pc = pc]
    <3>1. pc \in {"enter", "drop"} /\ Goes(w, to)
      BY <2>8, Zenon
    <3> HIDE DEF pc
    <3>2. Formed(to) /\ to.targets = rest(n).targets
      BY <2>5, <2>6, <3>1, MovesFormed, ZenonT(30)
    <3> HIDE DEF to
    <3> QED
      BY <1>0, <2>1, <2>5, <2>8, <3>1, <3>2, GoesKeeps, Zenon DEF index
  <2> QED
    BY <2>2, <2>7, <2>8, Zenon
<1>3. CASE SweepDrop
  <2>1. worker[w].seen \in Engine /\ worker[w].seen.uid \in Names
    BY <1>0, <1>3, SeenEngine, Zenon DEF SweepDrop, At, Looking
  <2>2. /\ Revokes(w, worker[w].seen.uid, "unknown")
        /\ UNCHANGED <<cluster, queued, session, count>>
    BY <1>3, Zenon DEF SweepDrop
  <2> HIDE DEF w
  <2> QED
    BY <1>0, <2>1, <2>2, RevokesKeeps, Zenon
<1>4. CASE SweepForget
  <2>1. /\ Goes(w, Resumes(w, "next", {})) /\ known' = known \ {worker[w].seen.uid}
        /\ UNCHANGED <<cluster, queued, entries, session, count>>
    BY <1>4, Zenon DEF SweepForget
  <2> HIDE DEF w
  <2>2. Formed(Resumes(w, "next", {})) /\ Resumes(w, "next", {}).targets = {}
    BY <1>0, ResumesFormed, Zenon
  <2>3. known' \in SUBSET Names
    BY <2>1, Zenon
  <2> QED
    BY <1>0, <2>1, <2>2, <2>3, GoesKeeps, Zenon
<1> QED
  BY <1>1, <1>2, <1>3, <1>4, Zenon

\* revalidateAll: the sessions it lists are registered, and it only cancels.
LEMMA RevalidateTypes ==
    ASSUME TypeInv, RevalidateAll \/ Revalidate
    PROVE  TypeInv'
<1> USE Unmoved
<1> DEFINE w == "sweep"
<1>0. w \in Workers
  BY Zenon DEF Workers
<1>w. worker[w] \in Worker
  BY <1>0, Zenon
<1>1. CASE RevalidateAll
  <2> DEFINE targets == {t \in Sessions \X Names :
                           session[t[1]] # None /\ session[t[1]].name = t[2]}
             to == [Idle EXCEPT !.pc = "revalidate", !.targets = targets]
  <2>1. Goes(w, to) /\ UNCHANGED <<cluster, queued, index, session, count>>
    BY <1>1, Zenon DEF RevalidateAll
  <2>2. targets \in SUBSET (Sessions \X Names) /\ \A t \in targets : session[t[1]] # None
    OBVIOUS
  <2> HIDE DEF targets
  <2>3. Idle \in Worker
    BY IdleFormed, Zenon DEF Formed
  <2>4. to \in Worker /\ to.pc = "revalidate" /\ to.targets = targets
    BY <2>2, <2>3, Zenon DEF Worker
  <2>5. Formed(to)
    BY <2>4, Zenon DEF Formed, Looking
  <2> HIDE DEF to
  <2>6. worker' = [worker EXCEPT ![w] = to]
    BY <2>1, Zenon DEF Goes
  <2>7. worker' \in [Workers -> Worker] /\ \A v \in Workers : Formed(worker'[v])
    BY <2>4, <2>5, <2>6, Zenon
  <2>8. \A t \in worker'["sweep"].targets : session'[t[1]] # None
    BY <1>0, <2>1, <2>2, <2>4, <2>6, Zenon
  <2> QED
    BY <2>1, <2>7, <2>8, Zenon DEF TypeInv, AuthzTypeOK, cluster, index, Formed, Looking
<1>2. CASE Revalidate
  <2>1. UNCHANGED <<cluster, queued, index, count>>
    BY <1>2, Zenon DEF Revalidate
  <2>2. CASE Goes(w, Idle) /\ UNCHANGED session
    <3>1. Idle.targets = {}
      BY Zenon DEF Idle
    <3> HIDE DEF w
    <3> QED
      BY <1>0, <2>1, <2>2, <3>1, IdleFormed, GoesKeeps, Zenon DEF index
  <2>3. ASSUME NEW t \in worker[w].targets,
               Goes(w, [worker[w] EXCEPT !.targets = @ \ {t}]),
               session' = IF Authorized(t[2], session[t[1]].id) THEN session
                          ELSE [session EXCEPT ![t[1]].live = FALSE]
        PROVE  TypeInv'
    <3> DEFINE to == [worker[w] EXCEPT !.targets = @ \ {t}]
    <3>1. to \in Worker /\ to.targets \subseteq worker[w].targets
          /\ to.pc = worker[w].pc /\ to.seen = worker[w].seen
      BY <1>w, Zenon DEF Worker
    <3>2. Formed(to)
      BY <1>0, <3>1, Zenon DEF Formed
    <3>3. worker' = [worker EXCEPT ![w] = to]
      BY <2>3, Zenon DEF Goes
    <3> HIDE DEF to
    <3>4. worker' \in [Workers -> Worker] /\ \A v \in Workers : Formed(worker'[v])
      BY <3>1, <3>2, <3>3, Zenon
    <3>5. t[1] \in Sessions /\ session[t[1]] # None
      BY <1>w, Zenon DEF Worker, TypeInv
    <3>6. [session[t[1]] EXCEPT !.live = FALSE] \in Session
      BY <3>5, Zenon DEF Session
    <3>7. /\ session' \in [Sessions -> Session \cup {None}]
          /\ \A s \in Sessions : session[s] # None => session'[s] # None
      BY <2>3, <3>5, <3>6, AuthzAssumption, Zenon
    <3>8. worker'["sweep"].targets \subseteq worker["sweep"].targets
      BY <1>0, <3>1, <3>3, Zenon
    <3>9. \A x \in worker["sweep"].targets : x[1] \in Sessions
      BY <1>w, Zenon DEF Worker
    <3>10. \A x \in worker'["sweep"].targets : session'[x[1]] # None
      BY <3>7, <3>8, <3>9, Zenon DEF TypeInv
    <3> QED
      BY <2>1, <3>4, <3>7, <3>10, Zenon DEF TypeInv, AuthzTypeOK, cluster, index, Formed, Looking
  <2> QED
    BY <1>2, <2>2, <2>3, Zenon DEF Revalidate
<1> QED
  BY <1>1, <1>2, Zenon

\* Changes of the cluster, and entries that grow old.
LEMMA ClusterTypes ==
    ASSUME TypeInv,
           \/ ChangeEngine \/ ChangeGateway \/ ChangeAccounts
           \/ \E n \in Names : AgeUnattended(n) \/ AgeInOutage(n)
    PROVE  TypeInv'
<1> USE Unmoved
<1>1. ASSUME NEW queues \in BOOLEAN, Change(queues), engine' \in Engine, gateway' \in BOOLEAN,
             accounts' \in SUBSET Identities
      PROVE  TypeInv'
  <2>1. queued' \in BOOLEAN /\ UNCHANGED <<index, worker, session>>
    BY <1>1, Zenon DEF Change
  <2>2. count' \in Counts
    BY <1>1 DEF Change, Counts
  <2> QED
    BY <1>1, <2>1, <2>2, Zenon DEF TypeInv, AuthzTypeOK, index, Counts, Formed, Looking
<1>2. CASE ChangeEngine
  <2>1. Change(TRUE) /\ UNCHANGED <<gateway, accounts>>
    BY <1>2, Zenon DEF ChangeEngine
  <2>2. engine.uid \in Names
    BY Zenon DEF Engine
  <2>3. Gone(engine.uid) \in Engine
    BY <2>2, Zenon DEF Gone, Engine, States
  <2>4. ASSUME NEW st \in States, NEW r \in BOOLEAN
        PROVE  [engine EXCEPT !.state = st, !.record = r] \in Engine
    BY Zenon DEF Engine
  <2>5. ASSUME NEW st \in States, NEW r \in BOOLEAN, engine.uid < MaxUID
        PROVE  [uid |-> engine.uid + 1, exists |-> TRUE, state |-> st, record |-> r] \in Engine
    <3>1. engine.uid + 1 \in Names
      BY <2>2, <2>5, AuthzAssumption DEF Names
    <3> QED
      BY <3>1, Zenon DEF Engine
  <2>6. engine' \in Engine
    BY <1>2, <2>3, <2>4, <2>5, ZenonT(30) DEF ChangeEngine
  <2> QED
    BY <1>1, <2>1, <2>6, Zenon
<1>3. CASE ChangeGateway
  BY <1>1, <1>3, Zenon DEF ChangeGateway
<1>4. CASE ChangeAccounts
  BY <1>1, <1>4, Zenon DEF ChangeAccounts
<1>5. ASSUME NEW n \in Names, AgeUnattended(n) \/ AgeInOutage(n)
      PROVE  TypeInv'
  <2>1. Age(n) /\ count' \in Counts
    BY <1>5, FailsCounts, Zenon DEF AgeUnattended, AgeInOutage
  <2>2. [entries[n] EXCEPT !.fresh = FALSE] \in Entry
    BY <2>1, Zenon DEF Age, Entry
  <2>3. entries' \in [Names -> Entry \cup {None}]
    BY <2>1, <2>2, Zenon DEF Age
  <2> QED
    BY <2>1, <2>3, Zenon DEF Age, TypeInv, AuthzTypeOK, cluster, Counts, Formed, Looking
<1> QED
  BY <1>2, <1>3, <1>4, <1>5, Zenon

\* A session that is unregistered is no longer to be revalidated.
LEMMA UnregisterTypes ==
    ASSUME TypeInv, NEW s \in Sessions, Unregister(s),
           UNCHANGED <<cluster, queued, index, count>>
    PROVE  /\ TypeInv'
           /\ \A w \in Workers : worker'[w].notify = worker[w].notify
<1> USE Unmoved
<1> DEFINE w == "sweep"
           to == [worker[w] EXCEPT !.targets = {t \in @ : t[1] # s}]
<1>1. w \in Workers
  BY Zenon DEF Workers
<1>2. worker[w] \in Worker
  BY <1>1, Zenon
<1>3. /\ to \in Worker /\ to.targets = {t \in worker[w].targets : t[1] # s}
      /\ to.pc = worker[w].pc /\ to.seen = worker[w].seen /\ to.notify = worker[w].notify
  BY <1>2, Zenon DEF Worker
<1>4. Formed(to)
  BY <1>1, <1>3, Zenon DEF Formed
<1>5. worker' = [worker EXCEPT ![w] = to]
  BY <1>1, Zenon DEF Unregister
<1> HIDE DEF to
<1>6. worker' \in [Workers -> Worker] /\ \A v \in Workers : Formed(worker'[v])
  BY <1>3, <1>4, <1>5, Zenon
<1>7. session' = [session EXCEPT ![s] = None]
  BY Zenon DEF Unregister
<1>8. \A t \in worker'["sweep"].targets : session'[t[1]] # None
  <2>1. \A t \in worker["sweep"].targets : t[1] \in Sessions
    BY <1>2, Zenon DEF Worker
  <2> QED
    BY <1>1, <1>3, <1>5, <1>7, <2>1, Zenon DEF TypeInv
<1>9. TypeInv'
  BY <1>6, <1>7, <1>8, Zenon DEF TypeInv, AuthzTypeOK, cluster, index, Formed, Looking
<1> QED
  BY <1>3, <1>5, <1>9, Zenon

\* The steps of a session.
LEMMA SessionTypes ==
    ASSUME TypeInv, NEW s \in Sessions,
           \/ \E n \in Names, id \in Identities : Subscribe(s, n, id)
           \/ Authorize(s) \/ Close(s)
    PROVE  TypeInv'
<1> USE Unmoved
<1>1. ASSUME NEW x \in Session, session' = [session EXCEPT ![s] = x],
             UNCHANGED <<cluster, queued, index, worker, count>>
      PROVE  TypeInv'
  <2>1. /\ session' \in [Sessions -> Session \cup {None}]
        /\ \A r \in Sessions : session[r] # None => session'[r] # None
    BY <1>1, AuthzAssumption, Zenon
  <2>2. \A t \in worker["sweep"].targets : t[1] \in Sessions
    BY Zenon DEF Worker, Workers
  <2>3. \A t \in worker'["sweep"].targets : session'[t[1]] # None
    BY <1>1, <2>1, <2>2, Zenon DEF TypeInv
  <2> QED
    BY <1>1, <2>1, <2>3, Zenon DEF TypeInv, AuthzTypeOK, cluster, index, Formed, Looking
<1>2. ASSUME NEW n \in Names, NEW id \in Identities, Subscribe(s, n, id)
      PROVE  TypeInv'
  <2> DEFINE live == session[s] = None \/ session[s].live
             x == [name |-> n, id |-> id, pc |-> "authorize", live |-> live]
  <2>1. live \in BOOLEAN
    BY Zenon DEF Session
  <2>2. session' = [session EXCEPT ![s] = x] /\ UNCHANGED <<cluster, queued, index, worker, count>>
    BY <1>2, Zenon DEF Subscribe
  <2> HIDE DEF live
  <2>3. x \in Session
    BY <2>1, Zenon DEF Session
  <2> QED
    BY <1>1, <2>2, <2>3, Zenon
<1>3. CASE Authorize(s)
  <2>1. CASE session' = [session EXCEPT ![s].pc = "open"] /\ UNCHANGED worker
    <3>1. [session[s] EXCEPT !.pc = "open"] \in Session
      BY <1>3, Zenon DEF Authorize, Session
    <3> QED
      BY <1>1, <1>3, <2>1, <3>1, Zenon DEF Authorize
  <2>2. CASE Unregister(s)
    BY <1>3, <2>2, UnregisterTypes, Zenon DEF Authorize
  <2> QED
    BY <1>3, <2>1, <2>2, Zenon DEF Authorize
<1>4. CASE Close(s)
  BY <1>4, UnregisterTypes, Zenon DEF Close
<1> QED
  BY <1>2, <1>3, <1>4, Zenon

\* The invariant holds at first.
LEMMA TypeInit ==
    ASSUME Init
    PROVE  TypeInv
<1>1. worker \in [Workers -> Worker] /\ \A w \in Workers : Formed(worker[w])
  BY IdleFormed, Zenon DEF Init, Formed
<1>2. worker["sweep"].targets = {}
  BY Zenon DEF Init, Workers, Idle
<1>3. session \in [Sessions -> Session \cup {None}] /\ entries \in [Names -> Entry \cup {None}]
  BY Zenon DEF Init
<1>4. count \in [change : Nat, fail : Nat]
  BY Zenon DEF Init
<1>5. engine \in Engine /\ gateway \in BOOLEAN /\ accounts \in SUBSET Identities
      /\ queued \in BOOLEAN /\ known \in SUBSET Names
  BY Zenon DEF Init
<1> QED
  BY <1>1, <1>2, <1>3, <1>4, <1>5, Zenon DEF TypeInv, AuthzTypeOK

\* Every step keeps it.
LEMMA TypeStep ==
    ASSUME TypeInv, [Next]_vars
    PROVE  TypeInv'
<1>1. CASE UNCHANGED vars
  BY <1>1, Zenon DEF vars, cluster, index, TypeInv, AuthzTypeOK, Formed, Looking
<1>2. ASSUME NEW w \in Workers, Step(w)
      PROVE  TypeInv'
  BY <1>2, RefreshTypes, CommitTypes, Zenon DEF Step
<1>3. CASE Publication
  BY <1>2, <1>3, ReconcileTypes, Zenon DEF Publication, Workers
<1>4. CASE Sweep
  BY <1>2, <1>4, RefreshAllTypes, RevalidateTypes, Zenon DEF Sweep, Workers
<1> QED
  BY <1>1, <1>3, <1>4, ClusterTypes, SessionTypes, Zenon DEF Next

\* The authorization index, its writers and its readers keep their types: a process
\* never uses an Engine it has not read, nor a session that is not registered.
THEOREM AuthzTypeCorrect == Spec => []AuthzTypeOK
<1>1. Init => TypeInv
  BY TypeInit, Zenon
<1>2. TypeInv /\ [Next]_vars => TypeInv'
  BY TypeStep, Zenon
<1>3. TypeInv => AuthzTypeOK
  BY Zenon DEF TypeInv
<1> QED
  BY <1>1, <1>2, <1>3, PTL DEF Spec

-----------------------------------------------------------------------------
\* Streams and grants.

Granted(n, id) == entries[n] # None /\ id \in entries[n].ids

Noticed(n) == \E w \in Workers : n \in worker[w].notify

\* An open stream after a step.
Opens(s) == session'[s] # None /\ session'[s].pc = "open" /\ session'[s].live

\* A step keeps the property, when no pending notification is forgotten, every
\* withdrawn grant is to be notified, and a stream is opened by a grant only.
LEMMA StreamsKept ==
    ASSUME TypeInv, OpenStreamsGranted,
           \A n \in Names : Noticed(n) => Noticed(n)',
           \A n \in Names, id \in Identities : Granted(n, id) => Granted(n, id)' \/ Noticed(n)',
           \A s \in Sessions : Opens(s) =>
               \/ session'[s] = session[s]
               \/ entries'[session'[s].name] # None
                  /\ session'[s].id \in entries'[session'[s].name].ids
    PROVE  OpenStreamsGranted'
<1> SUFFICES ASSUME NEW s \in Sessions, Opens(s), session'[s] = session[s]
             PROVE  Granted(session[s].name, session[s].id)' \/ Noticed(session[s].name)'
  BY Zenon DEF OpenStreamsGranted, Opens, Granted, Noticed
<1>1. Granted(session[s].name, session[s].id) \/ Noticed(session[s].name)
  BY Zenon DEF OpenStreamsGranted, Opens, Granted, Noticed
<1>2. session[s].name \in Names /\ session[s].id \in Identities
  BY Zenon DEF Opens, TypeInv, AuthzTypeOK, Session
<1> QED
  BY <1>1, <1>2, Zenon

\* In particular when the step leaves the sessions alone.
LEMMA GrantsKept ==
    ASSUME TypeInv, OpenStreamsGranted, UNCHANGED session,
           \A n \in Names : Noticed(n) => Noticed(n)',
           \A n \in Names, id \in Identities : Granted(n, id) => Granted(n, id)' \/ Noticed(n)'
    PROVE  OpenStreamsGranted'
BY StreamsKept, Zenon

\* A process that has nothing left to notify loses no notification by a step.
LEMMA NoticesKept ==
    ASSUME NEW w \in Workers, worker[w].notify = {},
           \A v \in Workers \ {w} : worker'[v].notify = worker[v].notify
    PROVE  \A n : Noticed(n) => Noticed(n)'
BY Zenon DEF Noticed

\* So does one that leaves the index alone.
LEMMA GoesGrants ==
    ASSUME TypeInv, OpenStreamsGranted, NEW w \in Workers, NEW to, Goes(w, to),
           worker[w].notify = {}, UNCHANGED <<entries, session>>
    PROVE  OpenStreamsGranted'
<1>1. \A v \in Workers \ {w} : worker'[v].notify = worker[v].notify
  BY Zenon DEF Goes, TypeInv, AuthzTypeOK
<1>2. \A n : Noticed(n) => Noticed(n)'
  BY <1>1, NoticesKept, Zenon
<1>3. \A n, id : Granted(n, id) => Granted(n, id)'
  BY Zenon DEF Granted
<1> QED
  BY <1>2, <1>3, GrantsKept, Zenon

\* A revocation is noticed: RevokeAndNotify closes the streams of what it withdraws.
LEMMA RevokesGrants ==
    ASSUME TypeInv, OpenStreamsGranted, NEW w \in Workers, NEW n \in Names,
           NEW pc \in {"idle", "forget", "next", "unknown"},
           pc = "unknown" => worker[w].seen \in Engine,
           Revokes(w, n, pc), worker[w].notify = {}, UNCHANGED session
    PROVE  OpenStreamsGranted'
<1> DEFINE notify == IF entries[n] = None THEN {} ELSE {n}
           to == Resumes(w, pc, notify)
<1>1. notify \in SUBSET Names
  OBVIOUS
<1>2. GoesRevoking(w, to, {n}) /\ entries' = [entries EXCEPT ![n] = None]
  BY Zenon DEF Revokes
<1>3. Formed(to) /\ to.notify = notify
  <2> HIDE DEF notify
  <2> QED
    BY <1>1, ResumesFormed
<1> HIDE DEF to
<1>4. \A v \in Workers : worker'[v].notify = IF v = w THEN notify ELSE worker[v].notify
  BY <1>2, <1>3, RevokingStates
<1>5. \A m : Noticed(m) => Noticed(m)'
  BY <1>4, NoticesKept, Zenon
<1>6. ASSUME NEW m \in Names, NEW id \in Identities, Granted(m, id)
      PROVE  Granted(m, id)' \/ Noticed(m)'
  <2>1. CASE m = n
    <3>1. m \in worker'[w].notify
      BY <1>4, <1>6, <2>1, Zenon DEF Granted
    <3> QED
      BY <3>1, Zenon DEF Noticed
  <2>2. CASE m # n
    BY <1>2, <1>6, <2>2, Zenon DEF Granted, TypeInv, AuthzTypeOK
  <2> QED
    BY <2>1, <2>2, Zenon
<1> QED
  BY <1>5, <1>6, GrantsKept, Zenon

\* The write of a refresh notifies a name whose identities it narrows.
LEMMA CommitGrants ==
    ASSUME TypeInv, OpenStreamsGranted, NEW w \in Workers, RefreshCommit(w)
    PROVE  OpenStreamsGranted'
<1> DEFINE n == worker[w].seen.uid
           ids == worker[w].ids
           revoked == entries[n] # None /\ identitiesRevoked(entries[n].ids, ids)
           notify == IF revoked THEN {n} ELSE {}
<1>1. n \in Names /\ worker[w].notify = {} /\ UNCHANGED session
  BY SeenEngine, Zenon DEF RefreshCommit, At, Looking
<1>2. CASE n \in worker[w].moved
  <2>1. Goes(w, Resumes(w, Return(w), {})) /\ UNCHANGED entries
    BY <1>2, Zenon DEF RefreshCommit, Returned
  <2> QED
    BY <1>1, <2>1, GoesGrants, Zenon
<1>3. CASE n \notin worker[w].moved
  <2>1. /\ entries' = [entries EXCEPT ![n] = Refreshed(ids)]
        /\ Goes(w, Resumes(w, Return(w), notify))
    BY <1>3, Zenon DEF RefreshCommit, Returned
  <2>2. notify \in SUBSET Names
    BY <1>1, Zenon
  <2>3. Resumes(w, Return(w), notify).notify = notify
    <3> HIDE DEF notify
    <3> QED
      BY <2>2, ReturnPlace, ResumesFormed
  <2>4. \A v \in Workers : worker'[v].notify = IF v = w THEN notify ELSE worker[v].notify
    BY <2>1, <2>3, Zenon DEF Goes, TypeInv, AuthzTypeOK
  <2>5. \A m : Noticed(m) => Noticed(m)'
    BY <1>1, <2>4, NoticesKept, Zenon
  <2>6. ASSUME NEW m \in Names, NEW id \in Identities, Granted(m, id)
        PROVE  Granted(m, id)' \/ Noticed(m)'
    <3>1. CASE m # n
      BY <2>1, <2>6, <3>1, Zenon DEF Granted, TypeInv, AuthzTypeOK
    <3>2. CASE m = n /\ revoked
      <4>1. n \in worker'[w].notify
        BY <2>4, <3>2, Zenon
      <4> QED
        BY <3>2, <4>1, Zenon DEF Noticed
    <3>3. CASE m = n /\ ~revoked
      <4>1. id \in ids
        BY <2>6, <3>3, Zenon DEF Granted, identitiesRevoked
      <4>2. entries'[n] = Refreshed(ids)
        BY <1>1, <2>1, Zenon DEF TypeInv, AuthzTypeOK
      <4>3. Refreshed(ids) # None /\ id \in Refreshed(ids).ids
        <5>1. ids \in SUBSET Identities
          BY Zenon DEF TypeInv, Formed, Worker
        <5>2. Refreshed(ids) \in Entry
          BY <5>1, Zenon DEF Refreshed, Entry
        <5> QED
          BY <4>1, <5>2, AuthzAssumption, Zenon DEF Refreshed
      <4> QED
        BY <3>3, <4>2, <4>3, Zenon DEF Granted
    <3> QED
      BY <3>1, <3>2, <3>3, Zenon
  <2> QED
    BY <1>1, <2>5, <2>6, GrantsKept, Zenon
<1> QED
  BY <1>2, <1>3, Zenon

\* RevokeResource: a notification is done when the streams of its name are cancelled.
LEMMA NotifyGrants ==
    ASSUME TypeInv, OpenStreamsGranted, NEW w \in Workers, NotifyRevoked(w)
    PROVE  OpenStreamsGranted'
<1>1. PICK m \in worker[w].notify :
        /\ Goes(w, [worker[w] EXCEPT !.notify = @ \ {m}])
        /\ session' = [s \in Sessions |->
              IF session[s] # None /\ session[s].name = m
              THEN [session[s] EXCEPT !.live = FALSE] ELSE session[s]]
  BY Zenon DEF NotifyRevoked
<1>2. UNCHANGED entries
  BY Zenon DEF NotifyRevoked, index
<1>3. worker[w] \in Worker /\ worker \in [Workers -> Worker]
  BY Zenon DEF TypeInv, AuthzTypeOK
<1>4. \A v \in Workers, n \in Names : n # m /\ n \in worker[v].notify => n \in worker'[v].notify
  BY <1>1, <1>3, Zenon DEF Goes, Worker
<1> SUFFICES ASSUME NEW s \in Sessions, session'[s] # None,
                    session'[s].pc = "open", session'[s].live
             PROVE  \/ entries'[session'[s].name] # None
                       /\ session'[s].id \in entries'[session'[s].name].ids
                    \/ \E v \in Workers : session'[s].name \in worker'[v].notify
  BY Zenon DEF OpenStreamsGranted
<1>5. session[s] \in Session \cup {None}
  BY Zenon DEF TypeInv, AuthzTypeOK
<1>6. session[s] # None /\ session[s].name # m /\ session'[s] = session[s]
  BY <1>1, <1>5, Zenon DEF Session
<1>7. session[s].name \in Names
  BY <1>5, <1>6, Zenon DEF Session
<1> QED
  BY <1>2, <1>4, <1>6, <1>7, Zenon DEF OpenStreamsGranted

\* RevokeEngine withdraws every grant, and every one is noticed.
LEMMA RevokeEngineGrants ==
    ASSUME TypeInv, OpenStreamsGranted, RevokeEngine
    PROVE  OpenStreamsGranted'
<1> DEFINE w == "reconcile"
           granted == {n \in Names : entries[n] # None}
           to == Resumes(w, "idle", granted)
<1>1. w \in Workers /\ worker[w].notify = {} /\ UNCHANGED session
  BY Zenon DEF RevokeEngine, At, Workers
<1>2. GoesRevoking(w, to, granted \cup known)
  BY Zenon DEF RevokeEngine
<1>3. granted \in SUBSET Names /\ granted \cup known \in SUBSET Names
  BY Zenon DEF TypeInv, AuthzTypeOK
<1>4. Formed(to) /\ to.notify = granted
  <2> HIDE DEF granted, w
  <2> QED
    BY <1>1, <1>3, ResumesFormed, Zenon
<1> HIDE DEF to, w
<1>5. \A v \in Workers : worker'[v].notify = IF v = w THEN granted ELSE worker[v].notify
  <2> HIDE DEF granted
  <2> QED
    BY <1>1, <1>2, <1>3, <1>4, RevokingStates
<1>6. \A m : Noticed(m) => Noticed(m)'
  BY <1>1, <1>5, NoticesKept, Zenon
<1>7. ASSUME NEW m \in Names, NEW id \in Identities, Granted(m, id)
      PROVE  Noticed(m)'
  BY <1>1, <1>5, <1>7, Zenon DEF Granted, Noticed
<1> QED
  BY <1>1, <1>6, <1>7, GrantsKept, Zenon

\* The steps of a refresh.
LEMMA StepGrants ==
    ASSUME TypeInv, OpenStreamsGranted, NEW w \in Workers, Step(w)
    PROVE  OpenStreamsGranted'
<1>1. CASE Refresh(w)
  BY <1>1, GoesGrants, Zenon DEF Refresh, At, index
<1>2. CASE RefreshEnter(w)
  <2>1. worker[w].notify = {} /\ UNCHANGED <<entries, session>> /\ \E to : Goes(w, to)
    BY <1>2, Zenon DEF RefreshEnter, Returned, At
  <2> QED
    BY <2>1, GoesGrants, Zenon
<1>3. CASE RefreshGateway(w) \/ RefreshPods(w)
  <2>1. worker[w].notify = {} /\ UNCHANGED <<entries, session>> /\ \E to : Goes(w, to)
    BY <1>3, Zenon DEF RefreshGateway, RefreshPods, ReadFails, At, index
  <2> QED
    BY <2>1, GoesGrants, Zenon
<1>4. CASE RefreshCommit(w)
  BY <1>4, CommitGrants, Zenon
<1>5. CASE RevokeAndNotify(w)
  <2>1. worker[w].seen.uid \in Names
    BY <1>5, SeenEngine, Zenon DEF RevokeAndNotify, At, Looking
  <2> QED
    BY <1>5, <2>1, ReturnPlace, RevokesGrants, Zenon DEF RevokeAndNotify, At
<1>6. CASE expireIfStale(w)
  <2>1. worker[w].seen.uid \in Names /\ worker[w].notify = {} /\ UNCHANGED session
    BY <1>6, SeenEngine, Zenon DEF expireIfStale, At, Looking
  <2>2. CASE Revokes(w, worker[w].seen.uid, Return(w))
    BY <2>1, <2>2, ReturnPlace, RevokesGrants, Zenon
  <2>3. CASE Returned(w, {}) /\ UNCHANGED index
    BY <2>1, <2>3, GoesGrants, Zenon DEF Returned, index
  <2> QED
    BY <1>6, <2>2, <2>3, Zenon DEF expireIfStale
<1>7. CASE NotifyRevoked(w)
  BY <1>7, NotifyGrants, Zenon
<1> QED
  BY <1>1, <1>2, <1>3, <1>4, <1>5, <1>6, <1>7, Zenon DEF Step

\* The steps of the reconciler and of RefreshAll between refreshes.
LEMMA WriterGrants ==
    ASSUME TypeInv, OpenStreamsGranted,
           \/ Reconcile \/ RefreshAll \/ SweepNext \/ SweepDrop \/ SweepForget
           \/ RevalidateAll
    PROVE  OpenStreamsGranted'
<1> USE DEF At, index
<1>0. "reconcile" \in Workers /\ "sweep" \in Workers
  BY Zenon DEF Workers
<1>1. CASE Reconcile
  <2>1. worker["reconcile"].notify = {} /\ UNCHANGED <<entries, session>>
    BY <1>1, Zenon DEF Reconcile
  <2>2. CASE \E to : Goes("reconcile", to)
    BY <1>0, <2>1, <2>2, GoesGrants, Zenon
  <2>3. CASE UNCHANGED worker
    BY <2>1, <2>3, Zenon DEF OpenStreamsGranted
  <2> QED
    BY <1>1, <2>2, <2>3, Zenon DEF Reconcile
<1>2. CASE RefreshAll \/ SweepNext \/ SweepForget \/ RevalidateAll
  <2>1. /\ worker["sweep"].notify = {} /\ UNCHANGED <<entries, session>>
        /\ \E to : Goes("sweep", to)
    BY <1>2, Zenon DEF RefreshAll, SweepNext, SweepForget, RevalidateAll
  <2> QED
    BY <1>0, <2>1, GoesGrants, Zenon
<1>3. CASE SweepDrop
  <2>1. worker["sweep"].seen \in Engine /\ worker["sweep"].seen.uid \in Names
    BY <1>0, <1>3, SeenEngine, Zenon DEF SweepDrop, Looking
  <2> QED
    BY <1>0, <1>3, <2>1, RevokesGrants, Zenon DEF SweepDrop
<1> QED
  BY <1>1, <1>2, <1>3, Zenon

\* Revalidation only cancels.
LEMMA RevalidateGrants ==
    ASSUME TypeInv, OpenStreamsGranted, Revalidate
    PROVE  OpenStreamsGranted'
<1> DEFINE w == "sweep"
<1>0. w \in Workers
  BY Zenon DEF Workers
<1>1. worker[w].notify = {} /\ UNCHANGED entries /\ \E to : Goes(w, to)
  BY Zenon DEF Revalidate, At, index
<1>2. \A v \in Workers \ {w} : worker'[v].notify = worker[v].notify
  BY <1>0, <1>1, Zenon DEF Goes, TypeInv, AuthzTypeOK
<1>3. \A n : Noticed(n) => Noticed(n)'
  BY <1>0, <1>1, <1>2, NoticesKept, Zenon
<1>4. ASSUME NEW s \in Sessions, session'[s] # None, session'[s].pc = "open", session'[s].live
      PROVE  session[s] = session'[s]
  <2>1. CASE UNCHANGED session
    BY <2>1, Zenon
  <2>2. ASSUME NEW t \in worker[w].targets, session' = [session EXCEPT ![t[1]].live = FALSE]
        PROVE  session[s] = session'[s]
    <3>1. t[1] \in Sessions /\ session[t[1]] # None
      BY <1>0, Zenon DEF TypeInv, Formed, Worker
    <3>2. session \in [Sessions -> Session \cup {None}]
      BY Zenon DEF TypeInv, AuthzTypeOK
    <3>3. s # t[1]
      BY <1>4, <2>2, <3>1, <3>2, Zenon DEF Session
    <3> QED
      BY <2>2, <3>2, <3>3, Zenon
  <2> QED
    BY <2>1, <2>2, Zenon DEF Revalidate
<1>5. \A n, id : Granted(n, id) => Granted(n, id)'
  BY <1>1, Zenon DEF Granted
<1>6. \A s \in Sessions : Opens(s) => session'[s] = session[s]
  BY <1>4, Zenon DEF Opens
<1> QED
  BY <1>3, <1>5, <1>6, StreamsKept, Zenon

\* The steps of a session: it opens when the index grants its name.
LEMMA SessionGrants ==
    ASSUME TypeInv, OpenStreamsGranted, NEW s \in Sessions,
           \/ \E n \in Names, id \in Identities : Subscribe(s, n, id)
           \/ Authorize(s) \/ Close(s)
    PROVE  OpenStreamsGranted'
<1>1. UNCHANGED entries
  BY Zenon DEF Subscribe, Authorize, Close, index
<1>2. \A w \in Workers : worker'[w].notify = worker[w].notify
  <2>1. CASE UNCHANGED worker
    BY <2>1, Zenon
  <2>2. CASE Unregister(s) /\ UNCHANGED <<cluster, queued, index, count>>
    BY <2>2, UnregisterTypes, Zenon
  <2> QED
    BY <2>1, <2>2, Zenon DEF Subscribe, Authorize, Close
<1>3. \A n : Noticed(n) => Noticed(n)'
  BY <1>2, Zenon DEF Noticed
<1>4. \A n, id : Granted(n, id) => Granted(n, id)'
  BY <1>1, Zenon DEF Granted
<1>5. session \in [Sessions -> Session \cup {None}]
  BY Zenon DEF TypeInv, AuthzTypeOK
<1>6. ASSUME NEW r \in Sessions, Opens(r)
      PROVE  \/ session'[r] = session[r]
             \/ entries'[session'[r].name] # None
                /\ session'[r].id \in entries'[session'[r].name].ids
  <2>1. ASSUME NEW n \in Names, NEW id \in Identities, Subscribe(s, n, id)
        PROVE  session'[r] = session[r]
    BY <1>5, <1>6, <2>1, Zenon DEF Subscribe, Opens
  <2>2. CASE Unregister(s)
    BY <1>5, <1>6, <2>2, Zenon DEF Unregister, Opens
  <2>3. CASE Authorize(s) /\ ~Unregister(s)
    <3>1. /\ session' = [session EXCEPT ![s].pc = "open"] /\ session[s] # None
          /\ Authorized(session[s].name, session[s].id)
      BY <2>3, Zenon DEF Authorize
    <3>2. session'[s].name = session[s].name /\ session'[s].id = session[s].id
      BY <1>5, <3>1, Zenon DEF Session
    <3> QED
      BY <1>1, <1>5, <3>1, <3>2, Zenon DEF Authorized
  <2> QED
    BY <2>1, <2>2, <2>3, Zenon DEF Close
<1> QED
  BY <1>3, <1>4, <1>6, StreamsKept, Zenon

\* The cluster changes and entries grow old; neither takes a grant away.
LEMMA ClusterGrants ==
    ASSUME TypeInv, OpenStreamsGranted,
           \/ ChangeEngine \/ ChangeGateway \/ ChangeAccounts
           \/ \E n \in Names : AgeUnattended(n) \/ AgeInOutage(n)
    PROVE  OpenStreamsGranted'
<1>1. CASE ChangeEngine \/ ChangeGateway \/ ChangeAccounts
  <2>1. UNCHANGED <<index, worker, session>>
    BY <1>1, Zenon DEF ChangeEngine, ChangeGateway, ChangeAccounts, Change
  <2> QED
    BY <2>1, Zenon DEF OpenStreamsGranted, index
<1>2. ASSUME NEW n \in Names, AgeUnattended(n) \/ AgeInOutage(n)
      PROVE  OpenStreamsGranted'
  <2>1. Age(n)
    BY <1>2, Zenon DEF AgeUnattended, AgeInOutage
  <2>2. UNCHANGED <<worker, session>> /\ entries' = [entries EXCEPT ![n].fresh = FALSE]
        /\ entries[n] # None
    BY <2>1, Zenon DEF Age
  <2>3. entries \in [Names -> Entry \cup {None}]
    BY Zenon DEF TypeInv, AuthzTypeOK
  <2>4. entries'[n] \in Entry /\ entries'[n].ids = entries[n].ids
    BY <2>2, <2>3, Zenon DEF Entry
  <2>5. \A m \in Names, id \in Identities : Granted(m, id) => Granted(m, id)'
    BY <2>2, <2>3, <2>4, AuthzAssumption, Zenon DEF Granted
  <2>6. \A m : Noticed(m) => Noticed(m)'
    BY <2>2, Zenon DEF Noticed
  <2> QED
    BY <2>2, <2>5, <2>6, GrantsKept, Zenon
<1> QED
  BY <1>1, <1>2, Zenon

\* A stream that was authorized is open only while the index grants its name to its
\* identity, or the process that withdrew the grant is about to close it, for every
\* interleaving of the reconciler, the revalidation pass and the sessions.
THEOREM OpenStreamsAreGranted == Spec => []OpenStreamsGranted
<1>1. Init => TypeInv /\ OpenStreamsGranted
  BY TypeInit, Zenon DEF Init, OpenStreamsGranted
<1>2. TypeInv /\ OpenStreamsGranted /\ [Next]_vars => TypeInv' /\ OpenStreamsGranted'
  <2> SUFFICES ASSUME TypeInv, OpenStreamsGranted, [Next]_vars
               PROVE  OpenStreamsGranted'
    BY TypeStep, Zenon
  <2>1. CASE UNCHANGED vars
    BY <2>1, Zenon DEF vars, index, OpenStreamsGranted
  <2>2. CASE Publication
    BY <2>2, StepGrants, WriterGrants, RevokeEngineGrants, Zenon DEF Publication, Workers
  <2>3. CASE Sweep
    BY <2>3, StepGrants, WriterGrants, RevalidateGrants, Zenon DEF Sweep, Workers
  <2> QED
    BY <2>1, <2>2, <2>3, ClusterGrants, SessionGrants, Zenon DEF Next
<1> QED
  BY <1>1, <1>2, PTL DEF Spec

=============================================================================
