----------------------------- MODULE EcdsStreams -----------------------------
(***************************************************************************)
(* ECDS streams on top of the snapshot store (internal/xds/server.go, the   *)
(* StreamRegistry of auth.go and the way publication_controller.go forgets  *)
(* an Engine).  The steps of one stream's goroutine are its lock sections;  *)
(* they interleave with the retry timers, with revocation and revalidation, *)
(* with publication, and with the proxies.                                  *)
(*                                                                         *)
(* External parts, modelled from how the code uses them:                    *)
(*  - go-control-plane: a request opens a watch on a cache key; SetSnapshot *)
(*    answers the open watches whose version differs, ClearSnapshot drops   *)
(*    them unanswered;                                                      *)
(*  - Envoy: a proxy answers each response with an ACK or a NACK, reports   *)
(*    its last accepted version, remembers the last typed configuration it  *)
(*    was sent and skips an identical one without applying it.              *)
(* A response and its receipt are one step, so a request never carries an   *)
(* outdated nonce.  All proxies share one authorized identity and differ by *)
(* node id, so an AuthzIndex entry is membership of its name in granted.    *)
(***************************************************************************)
EXTENDS SnapshotStore

CONSTANTS
    Nodes,           \* proxies, by node id
    Streams,         \* stream slots
    Environments     \* bounds: the Engines and versions of a behaviour, whether
                     \* grants are withdrawn, and the number of each step

Pending == [name : Names, proxyKey : Proxies, base : Versions \cup {None}, attempt : Nat]

Budget == [engines : SUBSET Engines, versions : SUBSET Versions, withdraws : BOOLEAN,
           publish : Nat, withdraw : Nat, lose : Nat, reject : Nat]

ASSUME StreamsAssumption ==
    /\ Proxies = Engines \X Nodes
    /\ None \notin Nodes \cup Names \cup Proxies \cup Pending
    /\ \A b \in Environments : b \in Budget /\ (~b.withdraws => b.withdraw = 0)

VARIABLES
    granted,     \* resource names with an AuthzIndex entry
    forgetting,  \* Engines whose snapshot is deleted and entries are not yet
    revoking,    \* names without entry whose streams are not yet cancelled
    conn,        \* stream slot -> serverStream, session and open watch
    proxy,       \* node -> what its Envoy holds
    budget       \* the environment steps that are left

streamVars == <<granted, forgetting, revoking, conn, proxy, budget>>
vars == <<storeVars, streamVars>>

Conn == [pc : {"closed", "recv", "authorize", "engineKey", "bind", "nack", "watch",
               "closing", "release"},
         node : Nodes \cup {None},
         attached : BOOLEAN,    \* the client end is connected
         live : BOOLEAN,        \* the lifecycle context is not cancelled
         session : BOOLEAN,     \* authenticated and registered
         resourceName : Names \cup {None},
         engineKey : Engines \cup {None},
         proxyBound : BOOLEAN,
         retry : Pending \cup {None},            \* retryPending and its timer
         resetting : BOOLEAN,                    \* bumped, ResetStream not called
         rejected : Names \cup {None},           \* the NACK being handled
         nodeId : Engines \cup Proxies \cup {None},  \* req.Node.Id
         info : Version \cup {None},             \* req.VersionInfo
         watch : Engines \cup Proxies \cup {None},   \* open watch
         resp : Version \cup {None},             \* response not yet sent
         lastVersion : Version \cup {None},      \* sent last
         answer : BOOLEAN]                       \* the proxy has not answered it

Proxy == [info : Version \cup {None},      \* last accepted, its version_info
          seen : Version \cup {None},      \* last typed configuration received
          applied : Version \cup {None}]   \* the configuration it runs

Closed(n) ==
    [pc |-> "closed", node |-> n, attached |-> FALSE, live |-> FALSE, session |-> FALSE,
     resourceName |-> None, engineKey |-> None, proxyBound |-> FALSE, retry |-> None,
     resetting |-> FALSE, rejected |-> None, nodeId |-> None, info |-> None,
     watch |-> None, resp |-> None, lastVersion |-> None, answer |-> FALSE]

StreamsTypeOK ==
    /\ StoreTypeOK
    /\ granted \subseteq Names /\ revoking \subseteq Names
    /\ forgetting \subseteq Engines
    /\ conn \in [Streams -> Conn]
    /\ proxy \in [Nodes -> Proxy]
    /\ budget \in Budget

Init ==
    /\ StoreInit
    /\ granted = {} /\ revoking = {} /\ forgetting = {}
    /\ conn = [s \in Streams |-> Closed(None)]
    /\ proxy = [n \in Nodes |-> [info |-> None, seen |-> None, applied |-> None]]
    /\ budget \in Environments

-----------------------------------------------------------------------------
proxyCacheKey(e, n) == <<e, n>>

\* The key of the entry's retry snapshot, once the entry has an Engine key.
proxyKey(s) == proxyCacheKey(conn[s].engineKey, conn[s].node)

\* Fault: a request is pinned to a proxy key the stream is not bound to.
pinnedProxy(s) == proxyKey(s)

\* pinRequestNode: the cache key a request watches unless the handler changes it.
pinned(s) == IF conn[s].proxyBound THEN proxyKey(s) ELSE conn[s].engineKey

\* go-control-plane after a write to the cache: watches of cleared keys are
\* dropped, watches of keys with another version are answered.
Notify(c, cleared) ==
    conn' = [s \in Streams |->
                LET k == c[s].watch
                IN  IF k = None THEN c[s]
                    ELSE IF k \in cleared THEN [c[s] EXCEPT !.watch = None]
                    ELSE IF cache'[k] \in {None, c[s].info} THEN c[s]
                    ELSE [c[s] EXCEPT !.watch = None, !.resp = cache'[k]]]

Cleared == {k \in DOMAIN cache : cache[k] # None /\ cache'[k] = None}

\* A store operation together with the new stream states c.
Store(operation, c) == operation /\ Notify(c, Cleared)

Keep(c) == UNCHANGED storeVars /\ conn' = c

Spend(k) == budget[k] > 0 /\ budget' = [budget EXCEPT ![k] = @ - 1]

\* The names this behaviour is about.
Used == {n \in Names : n[1] \in budget.engines}

-----------------------------------------------------------------------------
\* Publication and authorization.

\* One Reconcile of a published Engine at a time; it refreshes the authorization
\* mapping and then replaces the snapshot.
Settled(e) == e \notin forgetting /\ \A n \in revoking : n[1] # e

Grant(n) ==
    /\ Settled(n[1]) /\ n \notin granted
    /\ granted' = granted \cup {n}
    /\ UNCHANGED <<storeVars, forgetting, revoking, conn, proxy, budget>>

Publish(e, u, v) ==
    /\ Settled(e)
    /\ meta[e] # [name |-> <<e, u>>, version |-> v]
    /\ Spend("publish")
    /\ Store(Replace(e, u, v), conn)
    /\ UNCHANGED <<granted, forgetting, revoking, proxy>>

\* forgetEngine, first half: the snapshot and the open watches go.
ForgetSnapshot(e) ==
    /\ Settled(e) /\ meta[e] # None
    /\ Spend("withdraw")
    /\ DeleteEngine(e)
    /\ Notify(conn, {e} \cup byEngine[e])
    /\ forgetting' = forgetting \cup {e}
    /\ UNCHANGED <<granted, revoking, proxy>>

\* Second half, RevokeEngine: entries first, then the streams of each.
RevokeEngine(e) ==
    /\ e \in forgetting
    /\ forgetting' = forgetting \ {e}
    /\ granted' = {n \in granted : n[1] # e}
    /\ revoking' = revoking \cup (granted \ granted')
    /\ UNCHANGED <<storeVars, conn, proxy, budget>>

\* RevokeAndNotify and expireIfStale remove a single entry.
RevokeName(n) ==
    /\ n \in granted /\ Settled(n[1])
    /\ Spend("withdraw")
    /\ granted' = granted \ {n}
    /\ revoking' = revoking \cup {n}
    /\ UNCHANGED <<storeVars, forgetting, conn, proxy>>

\* Fault: a stream is found by its subscription only once it is authorized.
RevokeLateRecord(n) ==
    /\ n \in revoking
    /\ revoking' = revoking \ {n}
    /\ Keep([s \in Streams |-> IF conn[s].session /\ conn[s].resourceName = n
                                  /\ conn[s].pc \notin {"authorize", "engineKey"}
                               THEN [conn[s] EXCEPT !.live = FALSE] ELSE conn[s]])
    /\ UNCHANGED <<granted, forgetting, proxy, budget>>

RevokeResource(n) ==
    /\ n \in revoking
    /\ revoking' = revoking \ {n}
    /\ Keep([s \in Streams |-> IF conn[s].session /\ conn[s].resourceName = n
                               THEN [conn[s] EXCEPT !.live = FALSE] ELSE conn[s]])
    /\ UNCHANGED <<granted, forgetting, proxy, budget>>

\* revalidateAll ends a stream whose recorded resource is not authorized.
Revalidate(s) ==
    /\ conn[s].session /\ conn[s].live /\ conn[s].resourceName \notin granted
    /\ Keep([conn EXCEPT ![s].live = FALSE])
    /\ UNCHANGED <<granted, forgetting, revoking, proxy, budget>>

-----------------------------------------------------------------------------
\* The proxies' side of a stream.

environment == <<granted, forgetting, revoking>>

\* onStreamOpen
Open(s, n) ==
    /\ conn[s].pc = "closed"
    /\ \A t \in Streams : conn[t].node = n => ~conn[t].attached
    /\ Keep([conn EXCEPT ![s] = [Closed(n) EXCEPT !.pc = "recv", !.attached = TRUE,
                                                  !.live = TRUE]])
    /\ UNCHANGED <<environment, proxy, budget>>

\* The connection breaks; the server notices later (HangUp).
Lose(s) ==
    /\ conn[s].attached
    /\ Spend("lose")
    /\ Keep([conn EXCEPT ![s].attached = FALSE])
    /\ UNCHANGED <<environment, proxy>>

HangUp(s) ==
    /\ conn[s].pc # "closed" /\ conn[s].live /\ ~conn[s].attached
    /\ Keep([conn EXCEPT ![s].live = FALSE])
    /\ UNCHANGED <<environment, proxy, budget>>

\* A stream that sends nothing until the authentication deadline is cancelled.
AuthDeadline(s) ==
    /\ conn[s].pc = "recv" /\ conn[s].live /\ ~conn[s].session
    /\ Spend("lose")
    /\ Keep([conn EXCEPT ![s].live = FALSE])
    /\ UNCHANGED <<environment, proxy>>

\* The goroutine takes the next request of its client.
Receives(s) == conn[s].pc = "recv" /\ conn[s].attached

-----------------------------------------------------------------------------
\* onStreamRequest, by kind of request.  The first request authenticates.

\* Authentication, the stream limits or an invalid subscription refuse it.
Refuse(s) ==
    /\ Receives(s)
    /\ Spend("lose")
    /\ Keep([conn EXCEPT ![s].pc = "closing"])
    /\ UNCHANGED <<environment, proxy>>

\* A new subscription is recorded before it is authorized.
Subscribe(s, n) ==
    /\ Receives(s) /\ ~conn[s].answer /\ n # conn[s].resourceName
    /\ Keep([conn EXCEPT ![s] = [@ EXCEPT !.session = TRUE, !.resourceName = n,
                                          !.info = proxy[conn[s].node].info,
                                          !.pc = "authorize"]])
    /\ UNCHANGED <<environment, proxy, budget>>

Authorize(s) ==
    /\ conn[s].pc = "authorize"
    /\ Keep([conn EXCEPT ![s].pc = IF conn[s].resourceName \in granted THEN "engineKey"
                                   ELSE "closing"])
    /\ UNCHANGED <<environment, proxy, budget>>

EngineKey(s) ==
    /\ conn[s].pc = "engineKey"
    /\ Keep([conn EXCEPT ![s].pc = IF conn[s].resourceName \in granted THEN "bind"
                                   ELSE "closing"])
    /\ UNCHANGED <<environment, proxy, budget>>

\* Fault: the reference to the other Engine's retry snapshot is not released.
SwitchKeepsReference(s) ==
    /\ conn[s].pc = "bind" /\ conn[s].proxyBound
    /\ conn[s].engineKey # conn[s].resourceName[1]
    /\ Keep([conn EXCEPT ![s].proxyBound = FALSE])
    /\ UNCHANGED <<environment, proxy, budget>>

\* watchNode releases the retry snapshot of another Engine, then binds its own.
SwitchEngine(s) ==
    /\ conn[s].pc = "bind" /\ conn[s].proxyBound
    /\ conn[s].engineKey # conn[s].resourceName[1]
    /\ LET c == [conn EXCEPT ![s].proxyBound = FALSE]
       IN  IF proxies[proxyKey(s)] = None THEN Keep(c)
           ELSE Store(ReleaseRejectedRetry(proxyKey(s)), c)
    /\ UNCHANGED <<environment, proxy, budget>>

WatchNode(s) ==
    LET e == conn[s].resourceName[1]
        p == proxyCacheKey(e, conn[s].node)
        name == conn[s].resourceName
        bound == conn[s].proxyBound \/ CanBind(name, p, conn[s].info)
        c == [conn EXCEPT ![s] = [@ EXCEPT !.engineKey = e, !.proxyBound = bound,
                                           !.nodeId = IF bound THEN p ELSE e, !.pc = "watch"]]
    IN  /\ conn[s].pc = "bind"
        /\ conn[s].proxyBound => conn[s].engineKey = e
        /\ IF bound /\ ~conn[s].proxyBound
           THEN Store(BindRejectedRetry(name, p, conn[s].info), c)
           ELSE Keep(c)
        /\ UNCHANGED <<environment, proxy, budget>>

\* go-control-plane replaces the stream's watch after the callback.
CreateWatch(s) ==
    LET k == conn[s].nodeId
        hit == k # None /\ cache[k] \notin {None, conn[s].info}
    IN  /\ conn[s].pc = "watch"
        /\ Keep([conn EXCEPT ![s] = [@ EXCEPT !.pc = "recv",
                                              !.watch = IF hit THEN None ELSE k,
                                              !.resp = IF hit THEN cache[k] ELSE None]])
        /\ UNCHANGED <<environment, proxy, budget>>

\* Fault: an ACK cancels the pending retry.
AckedCancels(s, v) ==
    Keep([conn EXCEPT ![s] = [@ EXCEPT !.info = v, !.answer = FALSE, !.retry = None,
                                       !.pc = "bind"]])

\* An ACK reports v, the response just applied or the last one accepted before.
\* A pending retry is kept.
Acked(s, v) ==
    LET p == proxyKey(s)
        c == [conn EXCEPT ![s] = [@ EXCEPT !.info = v, !.answer = FALSE, !.pc = "bind"]]
    IN  IF conn[s].proxyBound /\ v # None /\ v.attempt > 0
              /\ proxies[p] # None /\ cache[p] = v
        THEN Store(AckRejected(p, v), c)
        ELSE Keep(c)

Ack(s) ==
    LET v == conn[s].lastVersion
        old == proxy[conn[s].node]
    IN  /\ Receives(s) /\ conn[s].answer /\ conn[s].resourceName # None
        /\ proxy' = [proxy EXCEPT ![conn[s].node] =
                        [info |-> v, seen |-> v,
                         applied |-> IF v = old.seen THEN old.applied ELSE v]]
        /\ Acked(s, v)
        /\ UNCHANGED <<environment, budget>>

\* Envoy repeats the last accepted version after a NACK.
AckAgain(s) ==
    /\ Receives(s) /\ ~conn[s].answer /\ conn[s].resourceName # None
    /\ conn[s].lastVersion # None /\ conn[s].retry # None
    /\ Acked(s, proxy[conn[s].node].info)
    /\ UNCHANGED <<environment, proxy, budget>>

BareAckOn(s, key) ==
    /\ Receives(s) /\ ~conn[s].answer /\ conn[s].lastVersion # None
    /\ Keep([conn EXCEPT ![s] = [@ EXCEPT !.info = proxy[conn[s].node].info,
                                          !.nodeId = key, !.pc = "watch"]])
    /\ UNCHANGED <<environment, proxy, budget>>

\* Fault: the request is not pinned to the proxy's retry snapshot.
BareAckShared(s) == BareAckOn(s, conn[s].engineKey)

\* Fault: the request keeps a node id under which nothing is published.
BareAckUnpinned(s) == BareAckOn(s, None)

\* A request without resource names watches the pinned node.
BareAck(s) == BareAckOn(s, pinned(s))

\* A NACK, of the last response or replayed as the first message of a stream.
Nacked(s, n) ==
    [conn EXCEPT ![s] = [@ EXCEPT !.session = TRUE, !.rejected = n, !.answer = FALSE,
                                  !.info = proxy[conn[s].node].info, !.nodeId = pinned(s),
                                  !.pc = IF n \in granted THEN "nack" ELSE "closing"]]

Nack(s) ==
    LET v == conn[s].lastVersion
    IN  /\ Receives(s) /\ conn[s].answer /\ conn[s].resourceName # None
        /\ v # proxy[conn[s].node].seen
        /\ Spend("reject")
        /\ proxy' = [proxy EXCEPT ![conn[s].node].seen = v]
        /\ Keep(Nacked(s, conn[s].resourceName))
        /\ UNCHANGED environment

NackFirst(s, n) ==
    /\ Receives(s) /\ ~conn[s].session
    /\ proxy[conn[s].node].seen # None
    /\ Spend("reject")
    /\ Keep(Nacked(s, n))
    /\ UNCHANGED <<environment, proxy>>

\* rejectedVersion and resubscribeRejected: the retry continues the version the
\* proxy is served now, and one at most is pending per stream.
Reschedule(s) ==
    LET n == conn[s].rejected
        known == conn[s].engineKey # None \/ n \in granted
        e == IF conn[s].engineKey # None THEN conn[s].engineKey ELSE n[1]
        p == proxyCacheKey(e, conn[s].node)
        current == CurrentVersionFor(n, p)
        version == IF current # None THEN current ELSE conn[s].lastVersion
        retry == [name |-> n, proxyKey |-> p,
                  base |-> IF version = None THEN None ELSE version.base,
                  attempt |-> IF version = None THEN 1 ELSE version.attempt + 1]
        pending == IF conn[s].retry = None THEN retry ELSE conn[s].retry
    IN  /\ conn[s].pc = "nack"
        /\ Keep([conn EXCEPT ![s] =
                   IF known
                   THEN [@ EXCEPT !.pc = "watch", !.engineKey = e, !.rejected = None,
                                  !.retry = pending]
                   ELSE [@ EXCEPT !.pc = "watch", !.rejected = None]])
        /\ UNCHANGED <<environment, proxy, budget>>

\* runRejectedRetry: the timer publishes the retry while the entry is not closed.
RunRejectedRetry(s) ==
    LET r == conn[s].retry
        done == [conn EXCEPT ![s].retry = None]
    IN  /\ r # None
        /\ IF CanBump(r.name, r.proxyKey, r.base)
           THEN Store(BumpRejected(r.name, r.proxyKey, r.base, r.attempt),
                      [done EXCEPT ![s].resetting = TRUE])
           ELSE Keep(done)
        /\ UNCHANGED <<environment, proxy, budget>>

ResetStream(s) ==
    /\ conn[s].resetting
    /\ Keep([conn EXCEPT ![s].resetting = FALSE, ![s].live = FALSE])
    /\ UNCHANGED <<environment, proxy, budget>>

\* A response is sent, or the send fails because the stream is cancelled.
Send(s) ==
    /\ conn[s].pc = "recv" /\ conn[s].resp # None /\ ~conn[s].answer
    /\ Keep([conn EXCEPT ![s] =
               IF conn[s].live
               THEN [@ EXCEPT !.resp = None, !.lastVersion = conn[s].resp, !.answer = TRUE]
               ELSE [@ EXCEPT !.pc = "closing"]])
    /\ UNCHANGED <<environment, proxy, budget>>

\* onStreamClosed: the entry is closed and its retry cancelled under entry.mu,
\* the retry snapshot is released after.
Close(s) ==
    /\ \/ conn[s].pc = "closing"
       \/ conn[s].pc = "recv" /\ ~conn[s].live
    /\ Keep([conn EXCEPT ![s] = [@ EXCEPT !.pc = "release", !.retry = None, !.live = FALSE,
                                          !.watch = None, !.resp = None, !.answer = FALSE]])
    /\ UNCHANGED <<environment, proxy, budget>>

Release(s) ==
    LET c == [conn EXCEPT ![s] = Closed(None)]
    IN  /\ conn[s].pc = "release"
        /\ IF conn[s].proxyBound /\ proxies[proxyKey(s)] # None
           THEN Store(ReleaseRejectedRetry(proxyKey(s)), c)
           ELSE Keep(c)
        /\ UNCHANGED <<environment, proxy, budget>>

-----------------------------------------------------------------------------
\* The goroutine of one stream.
Serve(s) ==
    \/ Authorize(s) \/ EngineKey(s) \/ SwitchEngine(s) \/ WatchNode(s) \/ Reschedule(s)
    \/ CreateWatch(s) \/ Send(s) \/ Close(s) \/ Release(s)

Next ==
    \/ \E n \in Used : Grant(n) \/ RevokeName(n) \/ RevokeResource(n)
    \/ \E e \in budget.engines, u \in UIDs, v \in budget.versions : Publish(e, u, v)
    \/ \E e \in Engines : ForgetSnapshot(e) \/ RevokeEngine(e)
    \/ \E s \in Streams : Serve(s) \/ RunRejectedRetry(s) \/ ResetStream(s)
    \/ \E s \in Streams : Revalidate(s) \/ HangUp(s) \/ AuthDeadline(s) \/ Lose(s) \/ Refuse(s)
    \/ \E s \in Streams : Ack(s) \/ Nack(s) \/ AckAgain(s) \/ BareAck(s)
    \/ \E s \in Streams, n \in Used : Subscribe(s, n) \/ NackFirst(s, n)
    \/ \E s \in Streams, n \in Nodes : Open(s, n)

Spec == Init /\ [][Next]_vars

\* The goroutines, timers and tickers of the server run, and select does not
\* prefer requests to responses and cancellation for ever; a proxy reconnects,
\* subscribes to an authorized name and answers what it is sent.
Fairness ==
    /\ \A s \in Streams :
          /\ WF_vars(Serve(s)) /\ SF_vars(Send(s) \/ Close(s))
          /\ WF_vars(RunRejectedRetry(s)) /\ WF_vars(ResetStream(s))
          /\ WF_vars(Revalidate(s)) /\ WF_vars(HangUp(s))
          /\ WF_vars(Ack(s) \/ Nack(s))
          /\ WF_vars(conn[s].resourceName = None /\ \E n \in granted : Subscribe(s, n))
    /\ \A n \in Nodes : WF_vars(\E s \in Streams : Open(s, n))
    /\ \A e \in Engines : WF_vars(RevokeEngine(e))
    /\ \A n \in Names : WF_vars(RevokeResource(n))

FairSpec == Spec /\ Fairness

-----------------------------------------------------------------------------
\* Safety: once a revocation has run to its end, no stream that was authorized
\* for the name is left open, whatever point of its setup it was at when the
\* entry went away (onStreamRequest records the subscription, then authorizes).
RevokedStreamsEnd ==
    \A s \in Streams :
        /\ conn[s].pc \in {"engineKey", "bind", "watch", "recv"}
        /\ conn[s].resourceName # None /\ conn[s].resourceName \notin granted \cup revoking
        => ~conn[s].live

References(p) ==
    {s \in Streams : conn[s].proxyBound /\ conn[s].pc # "closed" /\ proxyKey(s) = p}

\* Safety: unless an Engine is withdrawn, a proxy's retry snapshot counts exactly
\* the streams bound to it, so it is neither dropped under a stream nor kept for
\* none (BindRejectedRetry, ReleaseRejectedRetry and the switch of Engines).
RetriesCounted ==
    ~budget.withdraws => \A p \in Proxies :
        Cardinality(References(p)) = IF proxies[p] = None THEN 0 ELSE proxies[p].active

\* Safety: a subscribed, authorized stream with nothing in flight has its watch
\* open where the next snapshot for it will be set, and is up to date with it.
WatchKept ==
    \A s \in Streams :
        /\ conn[s].pc = "recv" /\ conn[s].live /\ conn[s].resp = None /\ ~conn[s].answer
        /\ conn[s].resourceName \in granted /\ Settled(conn[s].resourceName[1])
        => /\ conn[s].watch = pinned(s)
           /\ cache[conn[s].watch] \in {None, conn[s].info}

\* Safety: and it holds unless an Engine is withdrawn, through every switch of a
\* stream between Engines, retry and release (onStreamRequest, CreateWatch).
StandingWatchKept == ~budget.withdraws => WatchKept

\* Liveness: while its Engine stays published and authorized, a proxy keeps
\* receiving the current content.
Available(n) == n \in granted /\ snapshotForResource(n) # None

CurrentReceived ==
    \A n \in Names, d \in Nodes :
        <>[]Available(n) =>
            []<>(Available(n) => /\ proxy[d].seen # None
                                 /\ proxy[d].seen.base = meta[n[1]].version)

\* Liveness: and a proxy that rejects a version eventually runs it, because the
\* rejected version is retried until it is accepted.
RejectedApplied ==
    \A n \in Names, d \in Nodes :
        <>[]Available(n) =>
            []<>(Available(n) => /\ proxy[d].applied # None
                                 /\ proxy[d].applied.base = meta[n[1]].version)

\* No NACK arrives while a retry is pending on its stream or has just been
\* published on it, and no stream is lost or ends before its retry.
RetriesUndisturbed ==
    \A s \in Streams :
        /\ conn[s].retry # None => conn[s].live /\ conn[s].attached /\ conn[s].pc # "closing"
        /\ conn[s].pc = "nack" => conn[s].retry = None /\ ~conn[s].resetting

\* Liveness: the retry ladder of resubscribeRejected and runRejectedRetry leads
\* through repeated NACKs and reconnects to the content being applied, as long
\* as each retry is left to run.
RetryLadder == []RetriesUndisturbed => RejectedApplied

=============================================================================
