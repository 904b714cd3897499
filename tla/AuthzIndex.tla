------------------------------ MODULE AuthzIndex ------------------------------
(***************************************************************************)
(* The authorization index of a replica (internal/xds/authorize.go), with   *)
(* the two processes that write it, the publication reconciler and the      *)
(* periodic revalidation pass of the stream registry (auth.go), and the     *)
(* sessions that read it.  A step is one critical section or one read from  *)
(* the API server or its cache.                                             *)
(*                                                                         *)
(* The model has one Engine key.  Its resource names differ by the UID of   *)
(* the Engine, which grows when the Engine is recreated, so a name is a     *)
(* UID.  An identity is a ServiceAccount key together with its UID.  The    *)
(* age of an entry is abstracted to fresh, not older than the staleness     *)
(* bound.  Listing the pods and reading their ServiceAccounts is one read.  *)
(*                                                                         *)
(* The counters of AuthzIndex.revocations only serve to tell whether a name *)
(* was revoked since a process read its counter, so the model keeps that:   *)
(* a revocation adds the name to moved of each process in a refresh.        *)
(***************************************************************************)
EXTENDS Integers, FiniteSets

CONSTANTS
    MaxUID,       \* number of incarnations of the Engine
    Identities,   \* ServiceAccounts of Gateway pods
    Sessions,     \* stream sessions
    None,         \* absent map entry or session
    MaxChanges,   \* bounds on environment steps
    MaxFailures

Names == 1..MaxUID
Workers == {"reconcile", "sweep"}

\* deleting: has a deletion timestamp; rejected: not accepted, a rejected target
\* or none; stale: accepted for an older generation; current: accepted.
States == {"deleting", "rejected", "stale", "current"}

Engine == [uid : Names, exists : BOOLEAN, state : States, record : BOOLEAN]
Entry == [ids : SUBSET Identities, fresh : BOOLEAN]
Session == [name : Names, id : Identities, pc : {"authorize", "open"}, live : BOOLEAN]
Worker == [pc : {"idle", "capture", "enter", "revoke", "expire", "gateway", "pods",
                 "commit", "forget", "next", "drop", "unknown", "revalidate"},
           seen : Engine \cup {None},         \* the Engine object it works with
           moved : SUBSET Names,              \* revoked since it read their counter
           ids : SUBSET Identities,           \* identities it found
           failed : BOOLEAN,                  \* the refresh ended in an error
           todo : SUBSET Names,               \* RefreshAll: names to visit
           targets : SUBSET (Sessions \X Names),  \* sessions to revalidate
           notify : SUBSET Names]             \* revoked, streams not yet closed

ASSUME AuthzAssumption ==
    /\ MaxUID \in Nat \ {0}
    /\ None \notin Engine \cup Entry \cup Session

VARIABLES
    engine,       \* the Engine in the API server
    gateway,      \* its target Gateway exists
    accounts,     \* identities of the Gateway's pods
    queued,       \* the Engine is in the publication work queue
    entries,      \* AuthzIndex.entries
    known,        \* AuthzIndex.known
    worker,       \* local state of the two processes
    session,      \* StreamRegistry.streams
    count         \* environment steps taken

cluster == <<engine, gateway, accounts>>
index == <<entries, known>>
vars == <<cluster, queued, index, worker, session, count>>

AuthzTypeOK ==
    /\ engine \in Engine /\ gateway \in BOOLEAN /\ accounts \in SUBSET Identities
    /\ queued \in BOOLEAN
    /\ entries \in [Names -> Entry \cup {None}]
    /\ known \in SUBSET Names
    /\ worker \in [Workers -> Worker]
    /\ session \in [Sessions -> Session \cup {None}]
    /\ count \in [change : Nat, fail : Nat]

Gone(n) == [uid |-> n, exists |-> FALSE, state |-> "rejected", record |-> FALSE]

Idle == [pc |-> "idle", seen |-> None, moved |-> {}, ids |-> {}, failed |-> FALSE,
         todo |-> {}, targets |-> {}, notify |-> {}]

Init ==
    /\ engine \in {e \in Engine : e.uid = 1 /\ (e.exists \/ e = Gone(1))}
    /\ gateway \in BOOLEAN /\ accounts \in SUBSET Identities
    /\ queued = TRUE
    /\ entries = [n \in Names |-> None] /\ known = {}
    /\ worker = [w \in Workers |-> Idle]
    /\ session = [s \in Sessions |-> None]
    /\ count = [change |-> 0, fail |-> 0]

-----------------------------------------------------------------------------
\* The cluster.  Engine, Gateway and Pod events queue the Engine; there is no
\* watch on ServiceAccounts.

Change(queues) ==
    /\ count.change < MaxChanges
    /\ count' = [count EXCEPT !.change = @ + 1]
    /\ queued' = (queued \/ queues)
    /\ UNCHANGED <<index, worker, session>>

ChangeEngine ==
    \/ /\ engine.exists
       /\ \E st \in States, r \in BOOLEAN :
             /\ engine.state = "deleting" => st = "deleting"
             /\ engine' = [engine EXCEPT !.state = st, !.record = r]
       /\ Change(TRUE) /\ UNCHANGED <<gateway, accounts>>
    \/ /\ engine.exists
       /\ engine' = Gone(engine.uid)
       /\ Change(TRUE) /\ UNCHANGED <<gateway, accounts>>
    \/ /\ engine.uid < MaxUID
       /\ \E st \in States \ {"deleting"}, r \in BOOLEAN :
             engine' = [uid |-> engine.uid + 1, exists |-> TRUE, state |-> st, record |-> r]
       /\ Change(TRUE) /\ UNCHANGED <<gateway, accounts>>

ChangeGateway ==
    /\ gateway' = ~gateway
    /\ Change(TRUE) /\ UNCHANGED <<engine, accounts>>

ChangeAccounts ==
    \E queues \in BOOLEAN, ids \in SUBSET Identities :
        /\ ids # accounts /\ accounts' = ids
        /\ Change(queues) /\ UNCHANGED <<engine, gateway>>

\* An entry is not rewritten within the staleness bound.
Age(n) ==
    /\ entries[n] # None /\ entries[n].fresh
    /\ entries' = [entries EXCEPT ![n].fresh = FALSE]
    /\ UNCHANGED <<cluster, queued, known, worker, session>>

AgeUnattended(n) == n \notin known /\ Age(n) /\ UNCHANGED count

Fails == count.fail < MaxFailures /\ count' = [count EXCEPT !.fail = @ + 1]

AgeInOutage(n) == n \in known /\ Age(n) /\ Fails

-----------------------------------------------------------------------------
\* Steps of a process: it is at pc and has closed the streams it revoked.
At(w, pc) == worker[w].pc = pc /\ worker[w].notify = {}

Goes(w, to) == worker' = [worker EXCEPT ![w] = to]

\* It is through with an Engine and goes on at pc.
Resumes(w, pc, notify) ==
    [Idle EXCEPT !.pc = pc, !.notify = notify,
                 !.seen = IF pc = "unknown" THEN worker[w].seen ELSE None,
                 !.todo = worker[w].todo,
                 !.moved = IF w = "sweep" THEN worker[w].moved ELSE {}]

\* It revokes the names ns: their counters move for every process that read them.
GoesRevoking(w, to, ns) ==
    worker' = [v \in Workers |->
        LET x == IF v = w THEN to ELSE worker[v]
        IN  IF x.pc \in {"idle", "capture", "forget"} THEN x ELSE [x EXCEPT !.moved = @ \cup ns]]

\* Where a finished refresh returns to.  The reconciler withdraws an Engine
\* without an accepted record and otherwise retries a failed refresh.
Return(w) == IF w = "sweep" THEN "next"
             ELSE IF worker[w].seen.record THEN "idle" ELSE "forget"

Requeued(w) == queued' = (queued \/ (Return(w) = "idle" /\ worker[w].failed))

Returned(w, notify) == Goes(w, Resumes(w, Return(w), notify)) /\ Requeued(w)

\* A read from the API server fails; the refresh falls back to the last mapping.
ReadFails(w) ==
    /\ Goes(w, [worker[w] EXCEPT !.pc = "expire", !.failed = TRUE])
    /\ Fails
    /\ UNCHANGED <<cluster, queued, index, session>>

\* RevokeAndNotify, in its critical section; the process goes on at pc.
Revokes(w, n, pc) ==
    /\ entries' = [entries EXCEPT ![n] = None]
    /\ GoesRevoking(w, Resumes(w, pc, IF entries[n] = None THEN {} ELSE {n}), {n})
    /\ UNCHANGED known

\* RevokeResource cancels the sessions of one revoked name.
NotifyRevoked(w) ==
    \E n \in worker[w].notify :
        /\ Goes(w, [worker[w] EXCEPT !.notify = @ \ {n}])
        /\ session' = [s \in Sessions |->
              IF session[s] # None /\ session[s].name = n
              THEN [session[s] EXCEPT !.live = FALSE] ELSE session[s]]
        /\ UNCHANGED <<cluster, queued, index, count>>

-----------------------------------------------------------------------------
\* Refresh reads the generation of the name of the Engine it was given.
Refresh(w) ==
    /\ At(w, "capture")
    /\ Goes(w, [worker[w] EXCEPT !.pc = "enter"])
    /\ UNCHANGED <<cluster, queued, index, session, count>>

\* refresh: it gives way to a revocation and otherwise looks at the Engine.
RefreshEnter(w) ==
    LET n == worker[w].seen.uid
        next == [deleting |-> "revoke", rejected |-> "revoke", stale |-> "expire",
                 current |-> "gateway"]
    IN  /\ At(w, "enter")
        /\ IF n \in worker[w].moved
           THEN Returned(w, {}) /\ UNCHANGED known
           ELSE /\ known' = known \cup {n}
                /\ Goes(w, [worker[w] EXCEPT !.pc = next[worker[w].seen.state]])
                /\ UNCHANGED queued
        /\ UNCHANGED <<cluster, entries, session, count>>

RefreshGateway(w) ==
    /\ At(w, "gateway")
    /\ \/ /\ Goes(w, [worker[w] EXCEPT !.pc = IF gateway THEN "pods" ELSE "revoke"])
          /\ UNCHANGED <<cluster, queued, index, session, count>>
       \/ ReadFails(w)

RefreshPods(w) ==
    /\ At(w, "pods")
    /\ \/ /\ Goes(w, [worker[w] EXCEPT !.pc = "commit", !.ids = accounts])
          /\ UNCHANGED <<cluster, queued, index, session, count>>
       \/ ReadFails(w)

\* Fault: an empty new set is not seen as a revocation.
identitiesRotated(previous, next) == next # {} /\ ~(previous \subseteq next)

identitiesRevoked(previous, next) == ~(previous \subseteq next)

\* Fault: an entry carries no refresh time.
Untimed(ids) == [ids |-> ids]

Refreshed(ids) == [ids |-> ids, fresh |-> TRUE]

\* The write, unless the name was revoked in the meantime.
RefreshCommit(w) ==
    LET n == worker[w].seen.uid
        ids == worker[w].ids
        revoked == entries[n] # None /\ identitiesRevoked(entries[n].ids, ids)
    IN  /\ At(w, "commit")
        /\ IF n \in worker[w].moved
           THEN Returned(w, {}) /\ UNCHANGED entries
           ELSE /\ entries' = [entries EXCEPT ![n] = Refreshed(ids)]
                /\ Returned(w, IF revoked THEN {n} ELSE {})
        /\ UNCHANGED <<cluster, known, session, count>>

RevokeAndNotify(w) ==
    /\ At(w, "revoke")
    /\ Revokes(w, worker[w].seen.uid, Return(w)) /\ Requeued(w)
    /\ UNCHANGED <<cluster, session, count>>

expireIfStale(w) ==
    LET n == worker[w].seen.uid
        stale == entries[n] # None /\ ~entries[n].fresh
    IN  /\ At(w, "expire")
        /\ IF stale THEN Revokes(w, n, Return(w)) /\ Requeued(w)
                    ELSE Returned(w, {}) /\ UNCHANGED index
        /\ UNCHANGED <<cluster, session, count>>

-----------------------------------------------------------------------------
\* The publication reconciler.  Reconcile reads the Engine; one that is gone or
\* going is forgotten.
Reconcile ==
    LET w == "reconcile"
        forget == ~engine.exists \/ engine.state = "deleting"
    IN  /\ At(w, "idle") /\ queued
        /\ \/ /\ Goes(w, [worker[w] EXCEPT
                     !.seen = IF forget THEN None ELSE engine,
                     !.pc = IF forget THEN "forget" ELSE "capture"])
              /\ queued' = FALSE
              /\ UNCHANGED count
           \/ Fails /\ UNCHANGED <<queued, worker>>
        /\ UNCHANGED <<cluster, index, session>>

\* forgetEngine, RevokeEngine: every name of the Engine, known or authorized.
RevokeEngine ==
    LET w == "reconcile"
        granted == {n \in Names : entries[n] # None}
    IN  /\ At(w, "forget")
        /\ entries' = [n \in Names |-> None]
        /\ known' = {}
        /\ GoesRevoking(w, Resumes(w, "idle", granted), granted \cup known)
        /\ UNCHANGED <<cluster, queued, session, count>>

\* Fault: a pass is made only when a stream has been cancelled.
RefreshAllStreams ==
    LET w == "sweep"
    IN  /\ At(w, "idle") /\ \E s \in Sessions : session[s] # None /\ ~session[s].live
        /\ Goes(w, [worker[w] EXCEPT !.pc = "next", !.todo = known])
        /\ UNCHANGED <<cluster, queued, index, session, count>>

\* The revalidation pass.  RefreshAll snapshots the names and generations.
RefreshAll ==
    LET w == "sweep"
    IN  /\ At(w, "idle")
        /\ Goes(w, [worker[w] EXCEPT !.pc = "next", !.todo = known])
        /\ UNCHANGED <<cluster, queued, index, session, count>>

\* The Engine a name was published for still exists.
sameEngine(n) == engine.exists /\ engine.uid = n

\* It reads the Engine of a name: gone, another UID, or to be refreshed.
SweepNext ==
    LET w == "sweep"
        rest(n) == [worker[w] EXCEPT !.todo = @ \ {n}, !.seen = [engine EXCEPT !.uid = n]]
    IN  /\ At(w, "next")
        /\ \E n \in worker[w].todo :
              \/ /\ Goes(w, [rest(n) EXCEPT !.pc = IF sameEngine(n) THEN "enter" ELSE "drop"])
                 /\ UNCHANGED count
              \/ Goes(w, rest(n)) /\ Fails
        /\ UNCHANGED <<cluster, queued, index, session>>

SweepDrop ==
    LET w == "sweep"
    IN  /\ At(w, "drop")
        /\ Revokes(w, worker[w].seen.uid, "unknown")
        /\ UNCHANGED <<cluster, queued, session, count>>

SweepForget ==
    LET w == "sweep"
    IN  /\ At(w, "unknown")
        /\ known' = known \ {worker[w].seen.uid}
        /\ Goes(w, Resumes(w, "next", {}))
        /\ UNCHANGED <<cluster, queued, entries, session, count>>

\* revalidateAll then checks every session against the refreshed index.
RevalidateAll ==
    LET w == "sweep"
    IN  /\ At(w, "next") /\ worker[w].todo = {}
        /\ Goes(w, [Idle EXCEPT !.pc = "revalidate",
                                !.targets = {t \in Sessions \X Names :
                                    session[t[1]] # None /\ session[t[1]].name = t[2]}])
        /\ UNCHANGED <<cluster, queued, index, session, count>>

Authorized(n, id) == entries[n] # None /\ entries[n].fresh /\ id \in entries[n].ids

Revalidate ==
    LET w == "sweep"
    IN  /\ At(w, "revalidate")
        /\ \/ /\ worker[w].targets = {}
              /\ Goes(w, Idle)
              /\ UNCHANGED session
           \/ \E t \in worker[w].targets :
                 /\ Goes(w, [worker[w] EXCEPT !.targets = @ \ {t}])
                 /\ session' = IF Authorized(t[2], session[t[1]].id) THEN session
                               ELSE [session EXCEPT ![t[1]].live = FALSE]
        /\ UNCHANGED <<cluster, queued, index, count>>

-----------------------------------------------------------------------------
\* A session: the subscription is recorded (SetResource), then authorized.
Subscribe(s, n, id) ==
    /\ session[s] # None => session[s].pc = "open" /\ session[s].id = id /\ session[s].name # n
    /\ session' = [session EXCEPT ![s] =
          [name |-> n, id |-> id, pc |-> "authorize",
           live |-> session[s] = None \/ session[s].live]]
    /\ UNCHANGED <<cluster, queued, index, worker, count>>

\* The stream ends and its session is unregistered.
Unregister(s) ==
    /\ session' = [session EXCEPT ![s] = None]
    /\ worker' = [worker EXCEPT !["sweep"].targets = {t \in @ : t[1] # s}]

Authorize(s) ==
    /\ session[s] # None /\ session[s].pc = "authorize"
    /\ IF Authorized(session[s].name, session[s].id)
       THEN session' = [session EXCEPT ![s].pc = "open"] /\ UNCHANGED worker
       ELSE Unregister(s)
    /\ UNCHANGED <<cluster, queued, index, count>>

Close(s) ==
    /\ session[s] # None /\ ~session[s].live
    /\ Unregister(s)
    /\ UNCHANGED <<cluster, queued, index, count>>

-----------------------------------------------------------------------------
Step(w) ==
    \/ Refresh(w) \/ RefreshEnter(w) \/ RefreshGateway(w) \/ RefreshPods(w)
    \/ RefreshCommit(w) \/ RevokeAndNotify(w) \/ expireIfStale(w) \/ NotifyRevoked(w)

Publication == Step("reconcile") \/ Reconcile \/ RevokeEngine

Sweep ==
    \/ Step("sweep") \/ RefreshAll \/ SweepNext \/ SweepDrop \/ SweepForget
    \/ RevalidateAll \/ Revalidate

Next ==
    \/ Publication \/ Sweep
    \/ ChangeEngine \/ ChangeGateway \/ ChangeAccounts
    \/ \E n \in Names : AgeUnattended(n) \/ AgeInOutage(n)
    \/ \E s \in Sessions, n \in Names, id \in Identities : Subscribe(s, n, id)
    \/ \E s \in Sessions : Authorize(s) \/ Close(s)

Spec == Init /\ [][Next]_vars

\* Both processes run, a cancelled stream ends, and an entry nobody rewrites
\* grows older than the staleness bound.
FairSpec ==
    /\ Spec
    /\ WF_vars(Publication) /\ WF_vars(Sweep)
    /\ \A n \in Names : WF_vars(AgeUnattended(n))
    /\ \A s \in Sessions : WF_vars(Authorize(s)) /\ WF_vars(Close(s))

-----------------------------------------------------------------------------
\* Safety: a stream that was authorized is open only while the index grants its
\* name to its identity, or the process that withdrew the grant is about to
\* close it.  Every path that shrinks an entry, and every moment of a stream's
\* setup, is covered (refresh, RevokeAndNotify, RevokeEngine, expireIfStale).
OpenStreamsGranted ==
    \A s \in Sessions :
        session[s] # None /\ session[s].pc = "open" /\ session[s].live
        => LET n == session[s].name
           IN  \/ entries[n] # None /\ session[s].id \in entries[n].ids
               \/ \E w \in Workers : n \in worker[w].notify

\* What the cluster grants under a name.
Expected(n) ==
    IF engine.exists /\ engine.uid = n /\ engine.state = "current" /\ engine.record /\ gateway
    THEN accounts ELSE {}

\* The Accepted condition of the Engine does not lag its generation for ever.
Definite == <>[](engine.exists => engine.state # "stale")

\* Liveness: once the cluster stops changing, every grant it does not call for
\* is gone for good, whatever the two writers did to each other's work and
\* under whatever UID it was made (RefreshAll, RevokeEngine, Authorize).
GrantsWithdrawn ==
    Definite => <>[](\A n \in Names, id \in Identities :
                        Authorized(n, id) => id \in Expected(n))

\* Liveness: and every grant it calls for is made, since a refresh that gave way
\* to a revocation is repeated (refresh, "the next event re-refreshes").
GrantsRestored ==
    Definite => []<>(\A n \in Names, id \in Identities :
                        id \in Expected(n) => Authorized(n, id))

=============================================================================
