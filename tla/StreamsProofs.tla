---------------------------- MODULE StreamsProofs ----------------------------
(***************************************************************************)
(* Invariance proofs for EcdsStreams, for any number of Engines, proxies,   *)
(* stream slots and versions and any bounds on the environment.             *)
(***************************************************************************)
EXTENDS EcdsStreams, StoreProofs

\* The constants' part of the assumptions, one fact at a time.
LEMMA Constants ==
    /\ Proxies = Engines \X Nodes
    /\ None \notin Nodes /\ None \notin Names /\ None \notin Proxies /\ None \notin Pending
    /\ None \notin Engines /\ None \notin Version /\ None \notin ProxySnapshot
    /\ Engines \cap Proxies = {}
  BY StreamsAssumption, StoreAssumption

\* What the fields of one stream's entry say of each other.  A subscription is
\* recorded with its session, a request in progress has the name it is about,
\* and a stream that subscribed has an Engine key once its request is answered.
Linked(c) ==
    /\ c.pc # "closed" => c.node # None
    /\ c.pc = "closed" => ~c.proxyBound
    /\ c.proxyBound => c.engineKey # None
    /\ c.resourceName # None => c.session
    /\ c.pc \in {"authorize", "engineKey", "bind"} => c.resourceName # None
    /\ c.pc = "nack" => c.rejected # None
    /\ c.pc \in {"nack", "watch", "recv"} /\ c.resourceName # None => c.engineKey # None

\* The key of the retry snapshot an entry refers to.
Bound(c) == IF c.proxyBound THEN proxyCacheKey(c.engineKey, c.node) ELSE None

\* The streams that refer to a proxy's retry snapshot, as the store counts them.
Active(p) == IF proxies[p] = None THEN 0 ELSE proxies[p].active

\* A stream past its authorization for a name that is revoked is cancelled,
\* also while it handles a NACK.
Ended(c, names) ==
    /\ c.pc \in {"engineKey", "bind", "nack", "watch", "recv"}
    /\ c.resourceName # None /\ c.resourceName \notin names
    => ~c.live

\* The cache key the next request of an entry is pinned to.
Pin(c) == IF c.proxyBound THEN proxyCacheKey(c.engineKey, c.node) ELSE c.engineKey

\* A stream that subscribed is about to watch the key it is pinned to, or has
\* its watch there, up to date, or has a response in flight.
Watching(c, ch) ==
    c.resourceName # None =>
        /\ c.pc \in {"nack", "watch"} => c.nodeId = Pin(c)
        /\ c.pc = "recv" /\ c.resp = None /\ ~c.answer =>
              c.watch = Pin(c) /\ ch[c.watch] \in {None, c.info}

\* The inductive invariant behind every theorem: the types, the store's own
\* invariant and the links within each entry.
Base == StreamsTypeOK /\ StoreInv /\ \A s \in Streams : Linked(conn[s])

-----------------------------------------------------------------------------
\* The state of stream s becomes r, and the open watches are answered when the
\* store was written.
Lands(c) == (UNCHANGED cache /\ conn' = c) \/ Notify(c, Cleared)

\* The references of stream s and the store's count change together.
Counts(old, new) ==
    \/ Bound(new) = Bound(old) /\ \A p \in Proxies : Active(p)' = Active(p)
    \/ /\ Bound(old) = None /\ Bound(new) \in Proxies
       /\ \A p \in Proxies : Active(p)' = IF p = Bound(new) THEN Active(p) + 1 ELSE Active(p)
    \/ /\ Bound(old) \in Proxies /\ Bound(new) = None
       /\ Active(Bound(old)) > 0 =>
             \A p \in Proxies : Active(p)' = IF p = Bound(old) THEN Active(p) - 1 ELSE Active(p)

\* No Engine loses its publication.
Stands == \A e \in Engines : meta[e] # None => meta'[e] # None

\* The steps of a stream's goroutine.
Steps == {"closed", "recv", "authorize", "engineKey", "bind", "nack", "watch", "closing",
          "release"}

\* Writing a value of its type to a field of an entry leaves an entry.
LEMMA Setters ==
    /\ \A x \in Conn, v \in Steps : [x EXCEPT !.pc = v] \in Conn
    /\ \A x \in Conn, v \in Nodes \cup {None} : [x EXCEPT !.node = v] \in Conn
    /\ \A x \in Conn, v \in BOOLEAN : [x EXCEPT !.attached = v] \in Conn
    /\ \A x \in Conn, v \in BOOLEAN : [x EXCEPT !.live = v] \in Conn
    /\ \A x \in Conn, v \in BOOLEAN : [x EXCEPT !.session = v] \in Conn
    /\ \A x \in Conn, v \in Names \cup {None} : [x EXCEPT !.resourceName = v] \in Conn
    /\ \A x \in Conn, v \in Engines \cup {None} : [x EXCEPT !.engineKey = v] \in Conn
    /\ \A x \in Conn, v \in BOOLEAN : [x EXCEPT !.proxyBound = v] \in Conn
    /\ \A x \in Conn, v \in Pending \cup {None} : [x EXCEPT !.retry = v] \in Conn
    /\ \A x \in Conn, v \in BOOLEAN : [x EXCEPT !.resetting = v] \in Conn
    /\ \A x \in Conn, v \in Names \cup {None} : [x EXCEPT !.rejected = v] \in Conn
    /\ \A x \in Conn, v \in Engines \cup Proxies \cup {None} : [x EXCEPT !.nodeId = v] \in Conn
    /\ \A x \in Conn, v \in Version \cup {None} : [x EXCEPT !.info = v] \in Conn
    /\ \A x \in Conn, v \in Engines \cup Proxies \cup {None} : [x EXCEPT !.watch = v] \in Conn
    /\ \A x \in Conn, v \in Version \cup {None} : [x EXCEPT !.resp = v] \in Conn
    /\ \A x \in Conn, v \in Version \cup {None} : [x EXCEPT !.lastVersion = v] \in Conn
    /\ \A x \in Conn, v \in BOOLEAN : [x EXCEPT !.answer = v] \in Conn
  <1>1. \A x \in Conn, v \in Steps : [x EXCEPT !.pc = v] \in Conn
    BY DEF Conn, Steps
  <1>2. \A x \in Conn, v \in Nodes \cup {None} : [x EXCEPT !.node = v] \in Conn
    BY DEF Conn
  <1>3. \A x \in Conn, v \in BOOLEAN : [x EXCEPT !.attached = v] \in Conn
    BY DEF Conn
  <1>4. \A x \in Conn, v \in BOOLEAN : [x EXCEPT !.live = v] \in Conn
    BY DEF Conn
  <1>5. \A x \in Conn, v \in BOOLEAN : [x EXCEPT !.session = v] \in Conn
    BY DEF Conn
  <1>6. \A x \in Conn, v \in Names \cup {None} : [x EXCEPT !.resourceName = v] \in Conn
    BY DEF Conn
  <1>7. \A x \in Conn, v \in Engines \cup {None} : [x EXCEPT !.engineKey = v] \in Conn
    BY DEF Conn
  <1>8. \A x \in Conn, v \in BOOLEAN : [x EXCEPT !.proxyBound = v] \in Conn
    BY DEF Conn
  <1>9. \A x \in Conn, v \in Pending \cup {None} : [x EXCEPT !.retry = v] \in Conn
    BY DEF Conn
  <1>10. \A x \in Conn, v \in BOOLEAN : [x EXCEPT !.resetting = v] \in Conn
    BY DEF Conn
  <1>11. \A x \in Conn, v \in Names \cup {None} : [x EXCEPT !.rejected = v] \in Conn
    BY DEF Conn
  <1>12. \A x \in Conn, v \in Engines \cup Proxies \cup {None} : [x EXCEPT !.nodeId = v] \in Conn
    BY DEF Conn
  <1>13. \A x \in Conn, v \in Version \cup {None} : [x EXCEPT !.info = v] \in Conn
    BY DEF Conn
  <1>14. \A x \in Conn, v \in Engines \cup Proxies \cup {None} : [x EXCEPT !.watch = v] \in Conn
    BY DEF Conn
  <1>15. \A x \in Conn, v \in Version \cup {None} : [x EXCEPT !.resp = v] \in Conn
    BY DEF Conn
  <1>16. \A x \in Conn, v \in Version \cup {None} : [x EXCEPT !.lastVersion = v] \in Conn
    BY DEF Conn
  <1>17. \A x \in Conn, v \in BOOLEAN : [x EXCEPT !.answer = v] \in Conn
    BY DEF Conn
  <1> QED
    BY <1>1, <1>2, <1>3, <1>4, <1>5, <1>6, <1>7, <1>8, <1>9,
       <1>10, <1>11, <1>12, <1>13, <1>14, <1>15, <1>16, <1>17, Zenon

\* What a step of one stream leaves alone.
Aside ==
    /\ UNCHANGED <<granted, forgetting, revoking>>
    /\ budget' \in Budget /\ budget'.withdraws = budget.withdraws
    /\ budget'.withdraw = budget.withdraw
    /\ proxy' \in [Nodes -> Proxy]

\* What every step of stream s, whose entry becomes r, does.
Moves(s, r) ==
    /\ r \in Conn /\ Linked(r)
    /\ Lands([conn EXCEPT ![s] = r])
    /\ Aside /\ StoreInv' /\ Stands
    /\ Ended(conn[s], granted \cup revoking) => Ended(r, granted \cup revoking)
    /\ Counts(conn[s], r)
    /\ Watching(conn[s], cache) => Watching(r, cache)

\* The types of the invariant, one fact at a time.
LEMMA Parts ==
    ASSUME Base
    PROVE  /\ StoreInv /\ StoreTypeOK
           /\ granted \subseteq Names /\ revoking \subseteq Names /\ forgetting \subseteq Engines
           /\ conn \in [Streams -> Conn] /\ proxy \in [Nodes -> Proxy] /\ budget \in Budget
           /\ \A k \in Engines \cup Proxies : cache[k] \in Version \cup {None}
  BY Zenon DEF Base, StreamsTypeOK, StoreTypeOK

\* A budget is spent one step at a time, and other kinds are left alone.
LEMMA Spending ==
    ASSUME budget \in Budget, NEW k \in {"publish", "withdraw", "lose", "reject"}, Spend(k)
    PROVE  /\ budget' \in Budget /\ budget'.withdraws = budget.withdraws
           /\ k # "withdraw" => budget'.withdraw = budget.withdraw
           /\ k = "withdraw" => budget.withdraw # 0
  BY DEF Spend, Budget

\* A step that leaves the store alone.
LEMMA Kept ==
    ASSUME StoreInv, UNCHANGED storeVars
    PROVE  /\ StoreInv' /\ Stands
           /\ \A p \in Proxies : Active(p)' = Active(p)
  <1>1. StoreInv'
    BY NextInv, Zenon
  <1> QED
    BY <1>1, Zenon DEF storeVars, Active, Stands

\* A step that changes the entry of one stream and not the store.
LEMMA KeptMoves ==
    ASSUME Base, NEW s \in Streams, NEW r \in Conn, Linked(r), Bound(r) = Bound(conn[s]),
           Ended(conn[s], granted \cup revoking) => Ended(r, granted \cup revoking),
           Watching(conn[s], cache) => Watching(r, cache),
           Keep([conn EXCEPT ![s] = r]), Aside
    PROVE  Moves(s, r)
  BY Kept, Zenon DEF Base, Moves, Counts, Lands, Keep, storeVars

\* The types of an entry's fields, for a stream that is not closed.
LEMMA Entry ==
    ASSUME Base, NEW s \in Streams
    PROVE  /\ conn[s] \in Conn /\ Linked(conn[s])
           /\ conn[s].pc # "closed" => /\ conn[s].node \in Nodes
                                       /\ proxy[conn[s].node] \in Proxy
  <1>1. conn[s] \in Conn /\ Linked(conn[s])
    BY Zenon DEF Base, StreamsTypeOK
  <1>2. conn[s].pc # "closed" => conn[s].node \in Nodes
    BY <1>1, Zenon DEF Linked, Conn
  <1> QED
    BY <1>1, <1>2, Zenon DEF Base, StreamsTypeOK

\* An entry that keeps what its stream does, and at most loses its context.
LEMMA Quiet ==
    ASSUME NEW x \in Conn, Linked(x), NEW r \in Conn, NEW names, NEW ch,
           r.pc = x.pc, r.node = x.node, r.session = x.session,
           r.resourceName = x.resourceName, r.engineKey = x.engineKey,
           r.proxyBound = x.proxyBound, r.rejected = x.rejected, r.nodeId = x.nodeId,
           r.info = x.info, r.watch = x.watch, r.resp = x.resp, r.answer = x.answer,
           r.live => x.live
    PROVE  /\ Linked(r) /\ Bound(r) = Bound(x)
           /\ Ended(x, names) => Ended(r, names)
           /\ Watching(x, ch) => Watching(r, ch)
  BY Zenon DEF Linked, Bound, Ended, Watching, Pin

\* An entry whose goroutine gives up or closes.
LEMMA Leaves ==
    ASSUME NEW x \in Conn, Linked(x), NEW r \in Conn, NEW names, NEW ch,
           r.pc = "closing" \/ r.pc = "release", x.pc # "closed", r.node = x.node,
           r.resourceName = x.resourceName, r.engineKey = x.engineKey,
           r.proxyBound = x.proxyBound, r.resourceName # None => r.session
    PROVE  /\ Linked(r) /\ Bound(r) = Bound(x)
           /\ Ended(r, names) /\ Watching(r, ch)
  <1>1. r.pc \notin {"closed", "authorize", "engineKey", "bind", "nack", "watch", "recv"}
    OBVIOUS
  <1> QED
    BY <1>1, Zenon DEF Linked, Bound, Ended, Watching

-----------------------------------------------------------------------------
\* The connection breaks, or the stream is cancelled.
LEMMA CancelMoves ==
    ASSUME Base, NEW s \in Streams,
           \/ Revalidate(s) \/ HangUp(s) \/ AuthDeadline(s) \/ Lose(s) \/ ResetStream(s)
    PROVE  \E r : Moves(s, r)
  <1> DEFINE x == conn[s]
  <1>1. x \in Conn /\ Linked(x)
    BY Entry, Zenon
  <1>2. Aside
    BY Parts, Spending, Zenon DEF Aside, Revalidate, HangUp, AuthDeadline, Lose, ResetStream,
                                  environment
  <1>3. PICK r \in {[x EXCEPT !.live = FALSE], [x EXCEPT !.attached = FALSE],
                    [x EXCEPT !.resetting = FALSE, !.live = FALSE]} :
             Keep([conn EXCEPT ![s] = r])
    <2>1. CASE Lose(s)
      BY <2>1, Zenon DEF Lose, Keep
    <2>2. CASE ResetStream(s)
      BY <2>2, Zenon DEF ResetStream, Keep
    <2>3. CASE Revalidate(s) \/ HangUp(s) \/ AuthDeadline(s)
      BY <2>3 DEF Revalidate, HangUp, AuthDeadline, Keep
    <2> QED
      BY <2>1, <2>2, <2>3, Zenon
  <1> HIDE DEF x
  <1>4. r \in Conn
    BY <1>1, <1>3, Setters, Zenon
  <1>5. /\ r.pc = x.pc /\ r.node = x.node /\ r.session = x.session
        /\ r.resourceName = x.resourceName /\ r.engineKey = x.engineKey
        /\ r.proxyBound = x.proxyBound /\ r.rejected = x.rejected /\ r.nodeId = x.nodeId
        /\ r.info = x.info /\ r.watch = x.watch /\ r.resp = x.resp /\ r.answer = x.answer
        /\ r.live => x.live
    BY <1>1, <1>3, Zenon DEF Conn
  <1>6. /\ Linked(r) /\ Bound(r) = Bound(x)
        /\ Ended(x, granted \cup revoking) => Ended(r, granted \cup revoking)
        /\ Watching(x, cache) => Watching(r, cache)
    BY <1>1, <1>4, <1>5, Quiet, Zenon
  <1> QED
    BY <1>2, <1>3, <1>4, <1>6, KeptMoves, Zenon DEF x

\* onStreamRequest records a new subscription.
LEMMA SubscribeMoves ==
    ASSUME Base, NEW s \in Streams, NEW n \in Names, Subscribe(s, n)
    PROVE  \E r : Moves(s, r)
  <1> DEFINE x == conn[s]
             i == proxy[x.node].info
             r == [x EXCEPT !.session = TRUE, !.resourceName = n, !.info = i,
                            !.pc = "authorize"]
  <1>1. x \in Conn /\ Linked(x) /\ x.pc = "recv"
    BY Entry, Zenon DEF Subscribe, Receives
  <1>2. i \in Version \cup {None}
    BY <1>1, Entry, Zenon DEF Proxy
  <1>3. Keep([conn EXCEPT ![s] = r]) /\ Aside
    BY Parts, Zenon DEF Subscribe, Aside, environment
  <1> HIDE DEF x, i
  <1>4. r \in Conn
    BY <1>1, <1>2, Setters, Zenon DEF Steps
  <1>5. /\ r.session = TRUE /\ r.resourceName = n /\ r.pc = "authorize" /\ r.node = x.node
        /\ r.proxyBound = x.proxyBound /\ r.engineKey = x.engineKey
    BY <1>1, Zenon DEF Conn
  <1> HIDE DEF r
  <1>6. /\ Linked(r) /\ Bound(r) = Bound(x)
        /\ Ended(r, granted \cup revoking) /\ Watching(r, cache)
    BY <1>1, <1>5, Constants DEF Linked, Bound, Ended, Watching
  <1> QED
    BY <1>3, <1>4, <1>6, KeptMoves, Zenon DEF x

\* A request is refused, before or after it was authorized.
LEMMA RefuseMoves ==
    ASSUME Base, NEW s \in Streams,
           \/ Refuse(s)
           \/ Authorize(s) /\ conn[s].resourceName \notin granted
           \/ EngineKey(s) /\ conn[s].resourceName \notin granted
           \/ Send(s) /\ ~conn[s].live
    PROVE  \E r : Moves(s, r)
  <1> DEFINE x == conn[s]
             r == [x EXCEPT !.pc = "closing"]
  <1>1. x \in Conn /\ Linked(x) /\ x.pc # "closed"
    BY Entry DEF Refuse, Receives, Authorize, EngineKey, Send
  <1>2. Keep([conn EXCEPT ![s] = r])
    BY DEF Refuse, Authorize, EngineKey, Send, Keep
  <1>3. Aside
    BY Parts, Spending, Zenon DEF Refuse, Authorize, EngineKey, Send, Aside, environment
  <1> HIDE DEF x
  <1>4. r \in Conn
    BY <1>1, Setters, Zenon DEF Steps
  <1>5. /\ r.pc = "closing" /\ r.node = x.node /\ r.session = x.session
        /\ r.resourceName = x.resourceName /\ r.engineKey = x.engineKey
        /\ r.proxyBound = x.proxyBound
    BY <1>1, Zenon DEF Conn
  <1> HIDE DEF r
  <1>6. /\ Linked(r) /\ Bound(r) = Bound(x)
        /\ Ended(r, granted \cup revoking) /\ Watching(r, cache)
    <2>1. r.resourceName # None => r.session
      BY <1>1, <1>5 DEF Linked
    <2> QED
      BY <1>1, <1>4, <1>5, <2>1, Leaves, Zenon
  <1> QED
    BY <1>2, <1>3, <1>4, <1>6, KeptMoves, Zenon DEF x

\* An authorized request goes on; the entry it was checked against is there.
LEMMA AuthorizeMoves ==
    ASSUME Base, NEW s \in Streams, conn[s].resourceName \in granted,
           Authorize(s) \/ EngineKey(s)
    PROVE  \E r : Moves(s, r)
  <1> DEFINE x == conn[s]
             p == IF x.pc = "authorize" THEN "engineKey" ELSE "bind"
             r == [x EXCEPT !.pc = p]
  <1>1. /\ x \in Conn /\ Linked(x) /\ x.pc \in {"authorize", "engineKey"}
        /\ p \in {"engineKey", "bind"}
    BY Entry, Zenon DEF Authorize, EngineKey
  <1>2. Keep([conn EXCEPT ![s] = r]) /\ Aside
    BY Parts DEF Authorize, EngineKey, Keep, Aside, environment
  <1> HIDE DEF x, p
  <1>3. p \in Steps
    BY <1>1 DEF Steps
  <1>r. r \in Conn
    BY <1>1, <1>3, Setters, Zenon
  <1>4. /\ r.pc \in {"engineKey", "bind"} /\ r.node = x.node /\ r.session = x.session
        /\ r.resourceName = x.resourceName /\ r.engineKey = x.engineKey
        /\ r.proxyBound = x.proxyBound
    BY <1>1, Zenon DEF Conn
  <1> HIDE DEF r
  <1>5. /\ Linked(r) /\ Bound(r) = Bound(x)
        /\ Ended(r, granted \cup revoking) /\ Watching(r, cache)
    BY <1>1, <1>4 DEF Linked, Bound, Ended, Watching, x
  <1> QED
    BY <1>2, <1>r, <1>5, KeptMoves, Zenon DEF x

\* A response is sent to a stream that is not cancelled.
LEMMA SendMoves ==
    ASSUME Base, NEW s \in Streams, Send(s), conn[s].live
    PROVE  \E r : Moves(s, r)
  <1> DEFINE x == conn[s]
             r == [x EXCEPT !.resp = None, !.lastVersion = x.resp, !.answer = TRUE]
  <1>1. x \in Conn /\ Linked(x) /\ x.pc = "recv" /\ x.resp \in Version \cup {None}
    BY Entry, Zenon DEF Send, Conn
  <1>2. Keep([conn EXCEPT ![s] = r]) /\ Aside
    BY Parts DEF Send, Keep, Aside, environment
  <1> HIDE DEF x
  <1>3. r \in Conn
    BY <1>1, Setters, Zenon
  <1>4. /\ r.pc = "recv" /\ r.node = x.node /\ r.session = x.session
        /\ r.resourceName = x.resourceName /\ r.engineKey = x.engineKey
        /\ r.proxyBound = x.proxyBound /\ r.answer = TRUE /\ r.live = x.live
    BY <1>1, Zenon DEF Conn
  <1> HIDE DEF r
  <1>5. /\ Linked(r) /\ Bound(r) = Bound(x) /\ Watching(r, cache)
        /\ Ended(x, granted \cup revoking) => Ended(r, granted \cup revoking)
    BY <1>1, <1>4 DEF Linked, Bound, Ended, Watching
  <1> QED
    BY <1>2, <1>3, <1>5, KeptMoves, Zenon DEF x

\* onStreamClosed closes the entry; its reference is released in a later step.
LEMMA CloseMoves ==
    ASSUME Base, NEW s \in Streams, Close(s)
    PROVE  \E r : Moves(s, r)
  <1> DEFINE x == conn[s]
             y == [x EXCEPT !.pc = "release", !.retry = None, !.live = FALSE]
             z == [y EXCEPT !.watch = None, !.resp = None, !.answer = FALSE]
             r == [x EXCEPT !.pc = "release", !.retry = None, !.live = FALSE,
                            !.watch = None, !.resp = None, !.answer = FALSE]
  <1>1. x \in Conn /\ Linked(x) /\ x.pc # "closed"
    BY Entry DEF Close
  <1>2. Keep([conn EXCEPT ![s] = r]) /\ Aside
    BY Parts, Zenon DEF Close, Aside, environment
  <1> HIDE DEF x
  <1>3. r \in Conn
    <2>1. y \in Conn
      BY <1>1, Setters, Zenon DEF Steps
    <2>2. r = z
      BY Zenon
    <2> HIDE DEF y
    <2> QED
      BY <2>1, <2>2, Setters, Zenon
  <1>4. /\ r.pc = "release" /\ r.node = x.node /\ r.session = x.session
        /\ r.resourceName = x.resourceName /\ r.engineKey = x.engineKey
        /\ r.proxyBound = x.proxyBound
    BY <1>1, Zenon DEF Conn
  <1> HIDE DEF r
  <1>5. /\ Linked(r) /\ Bound(r) = Bound(x)
        /\ Ended(r, granted \cup revoking) /\ Watching(r, cache)
    <2>1. r.resourceName # None => r.session
      BY <1>1, <1>4 DEF Linked
    <2> QED
      BY <1>1, <1>3, <1>4, <2>1, Leaves, Zenon
  <1> QED
    BY <1>2, <1>3, <1>5, KeptMoves, Zenon DEF x

\* go-control-plane answers the request or opens the watch it asks for.
LEMMA CreateWatchMoves ==
    ASSUME Base, NEW s \in Streams, CreateWatch(s)
    PROVE  \E r : Moves(s, r)
  <1> DEFINE x == conn[s]
             k == x.nodeId
             hit == k # None /\ cache[k] \notin {None, x.info}
             w == IF hit THEN None ELSE k
             v == IF hit THEN cache[k] ELSE None
             r == [x EXCEPT !.pc = "recv", !.watch = w, !.resp = v]
  <1>1. x \in Conn /\ Linked(x) /\ x.pc = "watch"
    BY Entry, Zenon DEF CreateWatch
  <1>2. Keep([conn EXCEPT ![s] = r]) /\ Aside
    BY Parts, Zenon DEF CreateWatch, Aside, environment
  <1>3. k \in Engines \cup Proxies \cup {None} /\ w \in Engines \cup Proxies \cup {None}
    BY <1>1 DEF Conn
  <1>4. v \in Version \cup {None} /\ (hit => v # None)
    BY <1>3, Parts, Zenon
  <1> HIDE DEF x, k, w, v
  <1>5. r \in Conn
    BY <1>1, <1>3, <1>4, Setters, Zenon DEF Steps
  <1>6. /\ r.pc = "recv" /\ r.node = x.node /\ r.session = x.session /\ r.live = x.live
        /\ r.resourceName = x.resourceName /\ r.engineKey = x.engineKey
        /\ r.proxyBound = x.proxyBound /\ r.watch = w /\ r.resp = v /\ r.info = x.info
    BY <1>1, Zenon DEF Conn
  <1> HIDE DEF r
  <1>7. /\ Linked(r) /\ Bound(r) = Bound(x) /\ Pin(r) = Pin(x)
        /\ Ended(x, granted \cup revoking) => Ended(r, granted \cup revoking)
    BY <1>1, <1>6 DEF Linked, Bound, Ended, Pin
  <1>8. Watching(x, cache) => Watching(r, cache)
    <2> SUFFICES ASSUME x.resourceName # None => k = Pin(x),
                        r.resourceName # None, r.resp = None
                 PROVE  w = Pin(r) /\ cache[w] \in {None, r.info}
      BY <1>1, <1>6, <1>7 DEF Watching, k
    <2>1. ~hit /\ w = k
      BY <1>4, <1>6, Zenon DEF w
    <2>2. Pin(x) # None
      <3>1. x.engineKey \in Engines /\ x.node \in Nodes
        BY <1>1, <1>6, Zenon DEF Linked, Conn
      <3> QED
        BY <3>1, Constants DEF Pin, proxyCacheKey
    <2> QED
      BY <1>6, <1>7, <2>1, <2>2, Zenon
  <1> QED
    BY <1>2, <1>5, <1>7, <1>8, KeptMoves, Zenon DEF x

-----------------------------------------------------------------------------
\* What the store's operations do to the counts.

\* A proxy that is evicted has no stream.
LEMMA EvictedIdle ==
    ASSUME NEW px, NEW ps, NEW order, NEW p \in Evicted(px, ps, order)
    PROVE  px[p].active = 0
  BY Zenon DEF Evicted, InactiveRetries

\* Replace drops the proxies without a stream and keeps the count of the others.
LEMMA ReplaceCounts ==
    ASSUME StoreInv, NEW e \in Engines, NEW u \in UIDs, NEW v \in Versions, Replace(e, u, v)
    PROVE  Stands /\ \A p \in Proxies : Active(p)' = Active(p)
  <1> DEFINE new == [name |-> <<e, u>>, version |-> v]
             idle == {p \in byEngine[e] : proxies[p].active = 0}
             busy == byEngine[e] \ idle
  <1>1. Stands
    <2>1. new \in Snapshot
      BY DEF Snapshot, Names
    <2>2. new # None
      BY <2>1, StoreAssumption, Zenon
    <2>3. meta' = [meta EXCEPT ![e] = new] /\ meta \in [Engines -> Snapshot \cup {None}]
      BY Zenon DEF Replace, StoreInv, StoreTypeOK
    <2> HIDE DEF new
    <2> QED
      BY <2>2, <2>3, Zenon DEF Stands
  <1>2. ASSUME NEW p \in Proxies
        PROVE  Active(p)' = Active(p)
    <2>1. proxies'[p] = IF p \in idle THEN None
                        ELSE IF p \in busy THEN [proxies[p] EXCEPT !.retryUnacked = FALSE]
                        ELSE proxies[p]
      BY DEF Replace, Commit
    <2>2. CASE p \in idle
      BY <2>1, <2>2 DEF Active
    <2>3. CASE p \in busy
      <3> DEFINE ent == [proxies[p] EXCEPT !.retryUnacked = FALSE]
      <3>1. proxies[p] \in ProxySnapshot
        BY <2>3, Tracked, Zenon
      <3>2. ent \in ProxySnapshot /\ ent.active = proxies[p].active
        BY <3>1, Zenon DEF ProxySnapshot
      <3>3. ent # None /\ proxies[p] # None
        BY <3>1, <3>2, Constants, Zenon
      <3>4. proxies'[p] = ent
        BY <2>1, <2>3, Zenon
      <3> HIDE DEF ent
      <3> QED
        BY <3>2, <3>3, <3>4, Zenon DEF Active
    <2>4. CASE p \notin idle /\ p \notin busy
      BY <2>1, <2>4, Zenon DEF Active
    <2> QED
      BY <2>2, <2>3, <2>4, Zenon
  <1> QED
    BY <1>1, <1>2, Zenon

\* BumpRejected keeps the count of its proxy, and evicts proxies without one.
LEMMA BumpCounts ==
    ASSUME StoreInv, NEW name \in Names, NEW p \in Proxies, NEW base, NEW n \in Nat,
           BumpRejected(name, p, base, n)
    PROVE  Stands /\ \A q \in Proxies : Active(q)' = Active(q)
  <1> DEFINE e == snapshotForResource(name)
             ps == byEngine[e] \cup {p}
             ent == [engineKey |-> e, active |-> Active(p), retryUnacked |-> TRUE]
             px == [proxies EXCEPT ![p] = ent]
             gone == Evicted(px, ps, Touch(p, ps))
  <1>t. StoreTypeOK
    BY DEF StoreInv
  <1>1. e \in Engines
    BY <1>t, Resolved, Zenon DEF BumpRejected, CanBump
  <1>2. \A q \in Proxies : proxies'[q] = IF q \in gone THEN None ELSE px[q]
    BY DEF BumpRejected, Commit, Active
  <1>3. Active(p) \in Nat
    BY <1>t DEF StoreTypeOK, Active, ProxySnapshot
  <1>4. ent \in ProxySnapshot /\ ent.active = Active(p)
    BY <1>1, <1>3 DEF ProxySnapshot
  <1>5. ent # None
    BY <1>4, Constants, Zenon
  <1>6. px[p] = ent /\ \A q \in Proxies \ {p} : px[q] = proxies[q]
    BY <1>t, Zenon DEF StoreTypeOK
  <1>7. \A q \in gone : px[q].active = 0
    BY EvictedIdle, Zenon
  <1>8. Stands
    BY Zenon DEF BumpRejected, Stands
  <1> HIDE DEF ent, px, gone
  <1>9. ASSUME NEW q \in Proxies
        PROVE  Active(q)' = Active(q)
    <2>1. CASE q \in gone
      <3>1. proxies'[q] = None /\ px[q].active = 0
        BY <1>2, <1>7, <2>1, Zenon
      <3>2. Active(q) = 0
        BY <1>4, <1>6, <3>1, Zenon DEF Active
      <3> QED
        BY <3>1, <3>2, Zenon DEF Active
    <2>2. CASE q \notin gone
      BY <1>2, <1>4, <1>5, <1>6, <2>2, Zenon DEF Active
    <2> QED
      BY <2>1, <2>2, Zenon
  <1> QED
    BY <1>8, <1>9, Zenon

\* BindRejectedRetry counts one stream more on its proxy.
LEMMA BindCounts ==
    ASSUME StoreInv, NEW name \in Names, NEW p \in Proxies, NEW version,
           BindRejectedRetry(name, p, version)
    PROVE  /\ Stands
           /\ \A q \in Proxies : Active(q)' = IF q = p THEN Active(q) + 1 ELSE Active(q)
  <1> DEFINE e == snapshotForResource(name)
             old == proxies[p]
             ent == IF old = None THEN [engineKey |-> e, active |-> 1, retryUnacked |-> FALSE]
                    ELSE [old EXCEPT !.active = old.active + 1]
             px == [proxies EXCEPT ![p] = ent]
  <1>t. StoreTypeOK
    BY DEF StoreInv
  <1>1. e \in Engines
    BY <1>t, Resolved, Zenon DEF BindRejectedRetry, CanBind
  <1>2. \A q \in Proxies : proxies'[q] = px[q]
    BY DEF BindRejectedRetry, Commit
  <1>3. old \in ProxySnapshot \cup {None}
    BY <1>t, Zenon DEF StoreTypeOK
  <1>4. ent \in ProxySnapshot /\ ent.active = Active(p) + 1
    <2>1. CASE old = None
      BY <1>1, <2>1 DEF ProxySnapshot, Active
    <2>2. CASE old # None
      BY <1>3, <2>2 DEF ProxySnapshot, Active
    <2> QED
      BY <2>1, <2>2, Zenon
  <1>5. ent # None
    BY <1>4, Constants, Zenon
  <1>6. px[p] = ent /\ \A q \in Proxies \ {p} : px[q] = proxies[q]
    BY <1>t, Zenon DEF StoreTypeOK
  <1>7. Stands
    BY Zenon DEF BindRejectedRetry, Stands
  <1> HIDE DEF ent, px
  <1> QED
    BY <1>2, <1>4, <1>5, <1>6, <1>7, Zenon DEF Active

\* AckRejected keeps the counts.
LEMMA AckCounts ==
    ASSUME StoreInv, NEW p \in Proxies, NEW version, AckRejected(p, version)
    PROVE  Stands /\ \A q \in Proxies : Active(q)' = Active(q)
  <1> DEFINE ent == [proxies[p] EXCEPT !.retryUnacked = FALSE]
  <1>t. proxies \in [Proxies -> ProxySnapshot \cup {None}]
    BY Zenon DEF StoreInv, StoreTypeOK
  <1>1. proxies[p] # None /\ proxies[p] \in ProxySnapshot
    BY <1>t, Zenon DEF AckRejected
  <1>2. ent \in ProxySnapshot /\ ent.active = proxies[p].active
    BY <1>1, Zenon DEF ProxySnapshot
  <1>3. ent # None
    BY <1>2, Constants, Zenon
  <1>4. proxies' = [proxies EXCEPT ![p] = ent] /\ Stands
    BY DEF AckRejected, Stands
  <1> HIDE DEF ent
  <1> QED
    BY <1>t, <1>1, <1>2, <1>3, <1>4, Zenon DEF Active

\* ReleaseRejectedRetry counts one stream less on its proxy.
LEMMA ReleaseCounts ==
    ASSUME StoreInv, NEW p \in Proxies, ReleaseRejectedRetry(p)
    PROVE  /\ Stands
           /\ Active(p) > 0 =>
                \A q \in Proxies : Active(q)' = IF q = p THEN Active(q) - 1 ELSE Active(q)
  <1> DEFINE e == proxies[p].engineKey
             left == IF proxies[p].active > 0 THEN proxies[p].active - 1 ELSE 0
             ent == [proxies[p] EXCEPT !.active = left]
             px == [proxies EXCEPT ![p] = ent]
             order == IF left = 0 THEN Touch(p, byEngine[e]) ELSE before
             done == IF left = 0 /\ ~proxies[p].retryUnacked THEN {p} ELSE {}
             gone == done \cup Evicted(px, byEngine[e], order)
  <1>t. proxies \in [Proxies -> ProxySnapshot \cup {None}]
    BY Zenon DEF StoreInv, StoreTypeOK
  <1>1. proxies[p] # None /\ proxies[p] \in ProxySnapshot /\ left \in Nat
    BY <1>t DEF ReleaseRejectedRetry, ReleaseTo, ProxySnapshot
  <1>2. ent \in ProxySnapshot /\ ent.active = left
    BY <1>1, Zenon DEF ProxySnapshot
  <1>3. ent # None
    BY <1>2, Constants, Zenon
  <1>4. \A q \in Proxies : proxies'[q] = IF q \in gone THEN None ELSE px[q]
    BY DEF ReleaseRejectedRetry, ReleaseTo, Commit
  <1>5. px[p] = ent /\ \A q \in Proxies \ {p} : px[q] = proxies[q]
    BY <1>t, Zenon
  <1>6. \A q \in gone : px[q].active = 0
    <2> TAKE q \in gone
    <2>1. CASE q \in done
      BY <1>2, <1>5, <2>1, Zenon
    <2> HIDE DEF px, order
    <2>2. CASE q \in Evicted(px, byEngine[e], order)
      BY <2>2, EvictedIdle, Zenon
    <2> QED
      BY <2>1, <2>2, Zenon
  <1>7. Stands
    BY Zenon DEF ReleaseRejectedRetry, ReleaseTo, Stands
  <1>8. Active(p) > 0 => left = Active(p) - 1
    BY <1>1 DEF Active
  <1> HIDE DEF ent, px, gone, left
  <1>9. ASSUME Active(p) > 0, NEW q \in Proxies
        PROVE  Active(q)' = IF q = p THEN Active(q) - 1 ELSE Active(q)
    <2>1. Active(q)' = IF q = p THEN left ELSE Active(q)
      <3>1. CASE q \in gone
        BY <1>1, <1>2, <1>4, <1>5, <1>6, <3>1, Zenon DEF Active
      <3>2. CASE q \notin gone
        BY <1>2, <1>3, <1>4, <1>5, <3>2, Zenon DEF Active
      <3> QED
        BY <3>1, <3>2, Zenon
    <2> QED
      BY <1>8, <1>9, <2>1
  <1> QED
    BY <1>7, <1>9, Zenon

-----------------------------------------------------------------------------
\* The other steps of a stream.

\* A step that changes the entry of one stream and writes the store.
LEMMA StoredMoves ==
    ASSUME Base, NEW s \in Streams, NEW r \in Conn, Linked(r),
           Ended(conn[s], granted \cup revoking) => Ended(r, granted \cup revoking),
           Watching(conn[s], cache) => Watching(r, cache),
           Notify([conn EXCEPT ![s] = r], Cleared), Aside, StoreInv', Stands,
           Counts(conn[s], r)
    PROVE  Moves(s, r)
  BY Zenon DEF Moves, Lands

\* The keys of an entry that is not closed.
LEMMA Keys ==
    ASSUME NEW x \in Conn, Linked(x), x.pc # "closed"
    PROVE  /\ x.proxyBound => Pin(x) \in Proxies /\ Bound(x) = Pin(x)
           /\ Pin(x) \in Engines \cup Proxies \cup {None}
           /\ x.engineKey # None => Pin(x) \in Engines \cup Proxies /\ Pin(x) # None
  <1>1. x.node \in Nodes /\ x.engineKey \in Engines \cup {None}
        /\ (x.proxyBound => x.engineKey \in Engines)
    BY Zenon DEF Linked, Conn
  <1> QED
    BY <1>1, Constants DEF Pin, Bound, proxyCacheKey

\* A request without resource names watches the key its stream is pinned to.
LEMMA BareAckMoves ==
    ASSUME Base, NEW s \in Streams, BareAck(s)
    PROVE  \E r : Moves(s, r)
  <1> DEFINE x == conn[s]
             i == proxy[x.node].info
             k == Pin(x)
             r == [x EXCEPT !.info = i, !.nodeId = k, !.pc = "watch"]
  <1>1. x \in Conn /\ Linked(x) /\ x.pc = "recv"
    BY Entry, Zenon DEF BareAck, BareAckOn, Receives
  <1>2. i \in Version \cup {None} /\ k \in Engines \cup Proxies \cup {None}
    BY <1>1, Entry, Keys, Zenon DEF Proxy
  <1>3. Keep([conn EXCEPT ![s] = r]) /\ Aside
    BY Parts, Zenon DEF BareAck, BareAckOn, Aside, environment, pinned, proxyKey, Pin
  <1> HIDE DEF x, i, k
  <1>4. r \in Conn
    BY <1>1, <1>2, Setters, Zenon DEF Steps
  <1>5. /\ r.pc = "watch" /\ r.node = x.node /\ r.session = x.session /\ r.live = x.live
        /\ r.resourceName = x.resourceName /\ r.engineKey = x.engineKey
        /\ r.proxyBound = x.proxyBound /\ r.nodeId = k
    BY <1>1, Zenon DEF Conn
  <1> HIDE DEF r
  <1>6. /\ Linked(r) /\ Bound(r) = Bound(x) /\ Pin(r) = Pin(x)
        /\ Ended(x, granted \cup revoking) => Ended(r, granted \cup revoking)
    BY <1>1, <1>5 DEF Linked, Bound, Ended, Pin
  <1>7. Watching(r, cache)
    BY <1>5, <1>6 DEF Watching, k
  <1> QED
    BY <1>3, <1>4, <1>6, <1>7, KeptMoves, Zenon DEF x

\* A NACK is authorized again before it is handled.
LEMMA NackedMoves ==
    ASSUME Base, NEW s \in Streams, NEW n \in Names, Receives(s), Keep(Nacked(s, n)), Aside
    PROVE  \E r : Moves(s, r)
  <1> DEFINE x == conn[s]
             i == proxy[x.node].info
             k == Pin(x)
             p == IF n \in granted THEN "nack" ELSE "closing"
             y == [x EXCEPT !.session = TRUE, !.rejected = n, !.answer = FALSE]
             z == [y EXCEPT !.info = i, !.nodeId = k, !.pc = p]
             r == [x EXCEPT !.session = TRUE, !.rejected = n, !.answer = FALSE, !.info = i,
                            !.nodeId = k, !.pc = p]
  <1>1. x \in Conn /\ Linked(x) /\ x.pc = "recv"
    BY Entry, Zenon DEF Receives
  <1>2. /\ i \in Version \cup {None} /\ k \in Engines \cup Proxies \cup {None}
        /\ p = "nack" \/ p = "closing"
    BY <1>1, Entry, Keys, Zenon DEF Proxy
  <1>3. Keep([conn EXCEPT ![s] = r])
    BY Zenon DEF Nacked, pinned, proxyKey, Pin
  <1> HIDE DEF x, i, k, p
  <1>4. r \in Conn
    <2>1. y \in Conn
      BY <1>1, Setters, Zenon
    <2>2. p \in Steps
      BY <1>2 DEF Steps
    <2>3. r = z
      BY Zenon
    <2> HIDE DEF y
    <2> QED
      BY <1>2, <2>1, <2>2, <2>3, Setters, Zenon
  <1>5. /\ r.pc = p /\ r.node = x.node /\ r.session = TRUE /\ r.live = x.live
        /\ r.resourceName = x.resourceName /\ r.engineKey = x.engineKey
        /\ r.proxyBound = x.proxyBound /\ r.nodeId = k /\ r.rejected = n
    BY <1>1, Zenon DEF Conn
  <1> HIDE DEF r
  <1>6. /\ Linked(r) /\ Bound(r) = Bound(x) /\ Pin(r) = Pin(x)
        /\ Ended(x, granted \cup revoking) => Ended(r, granted \cup revoking)
    BY <1>1, <1>2, <1>5, Constants DEF Linked, Bound, Ended, Pin
  <1>7. Watching(r, cache)
    BY <1>2, <1>5, <1>6 DEF Watching, k
  <1> QED
    BY <1>3, <1>4, <1>6, <1>7, KeptMoves, Zenon DEF x

\* A NACK of the last response, or one replayed on a new stream.
LEMMA NackMoves ==
    ASSUME Base, NEW s \in Streams, Nack(s) \/ \E n \in Names : NackFirst(s, n)
    PROVE  \E r : Moves(s, r)
  <1>1. conn[s] \in Conn /\ conn[s].node \in Nodes /\ proxy \in [Nodes -> Proxy]
    BY Entry, Parts DEF Nack, NackFirst, Receives
  <1>2. CASE Nack(s)
    <2> DEFINE n == conn[s].resourceName
               v == conn[s].lastVersion
               q == [proxy[conn[s].node] EXCEPT !.seen = v]
    <2>1. n \in Names /\ v \in Version \cup {None}
      BY <1>1, <1>2, Zenon DEF Conn, Nack
    <2>2. q \in Proxy
      BY <1>1, <2>1 DEF Proxy
    <2>3. proxy' = [proxy EXCEPT ![conn[s].node] = q]
      BY <1>2, Zenon DEF Nack
    <2>4. proxy' \in [Nodes -> Proxy]
      BY <1>1, <2>2, <2>3, Zenon
    <2>5. Aside
      BY <1>2, <2>4, Parts, Spending, Zenon DEF Nack, Aside, environment
    <2> QED
      BY <1>2, <2>1, <2>5, NackedMoves, Zenon DEF Nack
  <1>3. ASSUME NEW n \in Names, NackFirst(s, n)
        PROVE  \E r : Moves(s, r)
    <2>1. Aside
      BY <1>3, Parts, Spending, Zenon DEF NackFirst, Aside, environment
    <2> QED
      BY <1>3, <2>1, NackedMoves, Zenon DEF NackFirst
  <1> QED
    BY <1>2, <1>3, Zenon

\* onStreamOpen takes a slot whose entry is gone.
LEMMA OpenMoves ==
    ASSUME Base, NEW s \in Streams, NEW n \in Nodes, Open(s, n)
    PROVE  \E r : Moves(s, r)
  <1> DEFINE x == conn[s]
             r == [Closed(n) EXCEPT !.pc = "recv", !.attached = TRUE, !.live = TRUE]
  <1>1. x \in Conn /\ Linked(x) /\ x.pc = "closed"
    BY Entry, Zenon DEF Open
  <1>2. Keep([conn EXCEPT ![s] = r]) /\ Aside
    BY Parts, Zenon DEF Open, Aside, environment
  <1>3. Closed(n) \in Conn /\ Closed(n).resourceName = None /\ Closed(n).proxyBound = FALSE
        /\ Closed(n).node = n
    BY DEF Closed, Conn
  <1>4. r \in Conn
    BY <1>3, Setters, Zenon DEF Steps
  <1>5. /\ r.pc = "recv" /\ r.node = n /\ r.resourceName = None /\ r.proxyBound = FALSE
    BY <1>3, Zenon DEF Conn
  <1> HIDE DEF r
  <1>6. /\ Linked(r) /\ Bound(r) = Bound(x)
        /\ Ended(r, granted \cup revoking) /\ Watching(r, cache)
    BY <1>1, <1>5, Constants DEF Linked, Bound, Ended, Watching
  <1> QED
    BY <1>2, <1>4, <1>6, KeptMoves, Zenon

\* resubscribeRejected schedules a retry, unless one is pending.
LEMMA RescheduleMoves ==
    ASSUME Base, NEW s \in Streams, Reschedule(s)
    PROVE  \E r : Moves(s, r)
  <1> DEFINE x == conn[s]
             n == x.rejected
             known == x.engineKey # None \/ n \in granted
             e == IF x.engineKey # None THEN x.engineKey ELSE n[1]
             p == proxyCacheKey(e, x.node)
             current == CurrentVersionFor(n, p)
             version == IF current # None THEN current ELSE x.lastVersion
             base == IF version = None THEN None ELSE version.base
             attempt == IF version = None THEN 1 ELSE version.attempt + 1
             new == [name |-> n, proxyKey |-> p, base |-> base, attempt |-> attempt]
             retry == IF x.retry = None THEN new ELSE x.retry
             r == IF known THEN [x EXCEPT !.pc = "watch", !.engineKey = e, !.rejected = None,
                                          !.retry = retry]
                  ELSE [x EXCEPT !.pc = "watch", !.rejected = None]
  <1>1. x \in Conn /\ Linked(x) /\ x.pc = "nack" /\ n \in Names /\ x.node \in Nodes
    <2>1. x \in Conn /\ Linked(x) /\ x.pc = "nack"
      BY Entry, Zenon DEF Reschedule
    <2> QED
      BY <2>1, Zenon DEF Conn, Linked
  <1>2. e \in Engines /\ p \in Proxies
    <2>1. n[1] \in Engines
      BY <1>1 DEF Names
    <2>2. e \in Engines
      BY <1>1, <2>1, Zenon DEF Conn
    <2> QED
      BY <1>1, <2>2, Constants DEF proxyCacheKey
  <1>3. Keep([conn EXCEPT ![s] = r])
    BY Zenon DEF Reschedule
  <1>a. Aside
    BY Parts, Zenon DEF Reschedule, Aside, environment
  <1>4. version \in Version \cup {None}
    <2>1. current \in Version \cup {None}
      BY <1>1, <1>2, Parts, Resolved, Zenon DEF CurrentVersionFor
    <2> QED
      BY <1>1, <2>1, Zenon DEF Conn
  <1>5. base \in Versions \cup {None} /\ attempt \in Nat
    BY <1>4 DEF Version
  <1> HIDE DEF version, base, attempt
  <1>6. retry \in Pending \cup {None}
    <2>1. new \in Pending
      BY <1>1, <1>2, <1>5, Zenon DEF Pending
    <2> QED
      BY <1>1, <2>1, Zenon DEF Conn
  <1> HIDE DEF x, n, e, retry
  <1>7. r \in Conn
    BY <1>1, <1>2, <1>6, Setters, Zenon DEF Steps
  <1>8. /\ r.pc = "watch" /\ r.node = x.node /\ r.session = x.session /\ r.live = x.live
        /\ r.resourceName = x.resourceName /\ r.proxyBound = x.proxyBound
        /\ r.nodeId = x.nodeId
        /\ r.engineKey = IF known THEN e ELSE x.engineKey
    BY <1>1, Zenon DEF Conn
  <1> HIDE DEF r, known
  <1>9. /\ x.proxyBound \/ x.resourceName # None => r.engineKey = x.engineKey
        /\ r.resourceName # None => r.engineKey # None
    BY <1>1, <1>8 DEF Linked, known, e
  <1>10. /\ Linked(r) /\ Bound(r) = Bound(x)
         /\ x.resourceName # None => Pin(r) = Pin(x)
         /\ Ended(x, granted \cup revoking) => Ended(r, granted \cup revoking)
    BY <1>1, <1>8, <1>9 DEF Linked, Bound, Ended, Pin
  <1>11. Watching(x, cache) => Watching(r, cache)
    BY <1>1, <1>8, <1>10 DEF Watching
  <1> QED
    BY <1>3, <1>a, <1>7, <1>10, <1>11, KeptMoves, Zenon DEF x

\* An ACK goes on to the binding of its stream, with a pending retry kept.
LEMMA AckedMoves ==
    ASSUME Base, NEW s \in Streams, NEW v \in Version \cup {None}, Receives(s),
           conn[s].resourceName # None, Acked(s, v), Aside
    PROVE  \E r : Moves(s, r)
  <1> DEFINE x == conn[s]
             p == proxyKey(s)
             r == [x EXCEPT !.info = v, !.answer = FALSE, !.pc = "bind"]
  <1>1. x \in Conn /\ Linked(x) /\ x.pc = "recv"
    BY Entry, Zenon DEF Receives
  <1>2. \/ Keep([conn EXCEPT ![s] = r])
        \/ x.proxyBound /\ AckRejected(p, v) /\ Notify([conn EXCEPT ![s] = r], Cleared)
    BY Zenon DEF Acked, Store
  <1>3. x.proxyBound => p \in Proxies
    BY <1>1, Keys, Zenon DEF Pin, proxyKey
  <1> HIDE DEF x, p
  <1>4. r \in Conn
    BY <1>1, Setters, Zenon DEF Steps
  <1>5. /\ r.pc = "bind" /\ r.node = x.node /\ r.session = x.session /\ r.live = x.live
        /\ r.resourceName = x.resourceName /\ r.engineKey = x.engineKey
        /\ r.proxyBound = x.proxyBound
    BY <1>1, Zenon DEF Conn
  <1> HIDE DEF r
  <1>6. /\ Linked(r) /\ Bound(r) = Bound(x) /\ Watching(r, cache)
        /\ Ended(x, granted \cup revoking) => Ended(r, granted \cup revoking)
    BY <1>1, <1>5 DEF Linked, Bound, Ended, Watching, x
  <1>7. CASE Keep([conn EXCEPT ![s] = r])
    BY <1>4, <1>6, <1>7, KeptMoves, Zenon DEF x
  <1>8. CASE x.proxyBound /\ AckRejected(p, v) /\ Notify([conn EXCEPT ![s] = r], Cleared)
    <2>1. StoreInv' /\ Stands /\ \A q \in Proxies : Active(q)' = Active(q)
      BY <1>3, <1>8, Parts, AckInv, AckCounts, Zenon
    <2>2. Counts(x, r)
      BY <1>6, <2>1, Zenon DEF Counts
    <2> QED
      BY <1>4, <1>6, <1>8, <2>1, <2>2, StoredMoves, Zenon DEF x
  <1> QED
    BY <1>2, <1>7, <1>8, Zenon

\* A proxy accepts what it was sent, or repeats what it accepted before.
LEMMA AckMoves ==
    ASSUME Base, NEW s \in Streams, Ack(s) \/ AckAgain(s)
    PROVE  \E r : Moves(s, r)
  <1>1. /\ conn[s] \in Conn /\ conn[s].node \in Nodes /\ proxy \in [Nodes -> Proxy]
        /\ proxy[conn[s].node] \in Proxy
    BY Entry, Parts DEF Ack, AckAgain, Receives
  <1>2. CASE Ack(s)
    <2> DEFINE v == conn[s].lastVersion
               old == proxy[conn[s].node]
               q == [info |-> v, seen |-> v,
                     applied |-> IF v = old.seen THEN old.applied ELSE v]
    <2>1. v \in Version \cup {None}
      BY <1>1, Zenon DEF Conn
    <2>2. q \in Proxy
      BY <1>1, <2>1 DEF Proxy
    <2>3. proxy' = [proxy EXCEPT ![conn[s].node] = q]
      BY <1>2, Zenon DEF Ack
    <2>4. proxy' \in [Nodes -> Proxy]
      BY <1>1, <2>2, <2>3, Zenon
    <2>5. Aside
      BY <1>2, <2>4, Parts, Zenon DEF Ack, Aside, environment
    <2> QED
      BY <1>2, <2>1, <2>5, AckedMoves, Zenon DEF Ack
  <1>3. CASE AckAgain(s)
    <2>1. Aside
      BY <1>3, Parts, Zenon DEF AckAgain, Aside, environment
    <2>2. proxy[conn[s].node].info \in Version \cup {None}
      BY <1>1, Zenon DEF Proxy
    <2> QED
      BY <1>3, <2>1, <2>2, AckedMoves, Zenon DEF AckAgain
  <1> QED
    BY <1>2, <1>3, Zenon

\* A stream lets go of its reference, and the store counts one stream less.
LEMMA LetGo ==
    ASSUME Base, NEW s \in Streams, NEW r \in Conn, Bound(r) = None,
           conn[s].pc # "closed", conn[s].proxyBound,
           \/ Keep([conn EXCEPT ![s] = r]) /\ proxies[proxyKey(s)] = None
           \/ Store(ReleaseRejectedRetry(proxyKey(s)), [conn EXCEPT ![s] = r])
    PROVE  /\ StoreInv' /\ Stands /\ Lands([conn EXCEPT ![s] = r]) /\ Counts(conn[s], r)
  <1> DEFINE p == proxyKey(s)
  <1>1. p \in Proxies /\ p = Bound(conn[s])
    BY Entry, Keys, Zenon DEF Pin, proxyKey
  <1>2. CASE Keep([conn EXCEPT ![s] = r]) /\ proxies[p] = None
    <2>1. ~(Active(p) > 0)
      BY <1>2 DEF Active
    <2> HIDE DEF p
    <2> QED
      BY <1>1, <1>2, <2>1, Parts, Kept, Zenon DEF Keep, Lands, Counts, storeVars
  <1>3. CASE Store(ReleaseRejectedRetry(p), [conn EXCEPT ![s] = r])
    <2>1. ReleaseRejectedRetry(p) /\ Lands([conn EXCEPT ![s] = r])
      BY <1>3, Zenon DEF Store, Lands
    <2> HIDE DEF p
    <2> QED
      BY <1>1, <2>1, Parts, ReleaseInv, ReleaseCounts, Zenon DEF Counts
  <1> QED
    BY <1>2, <1>3, Zenon

\* watchNode releases the retry snapshot of the Engine a stream leaves.
LEMMA SwitchMoves ==
    ASSUME Base, NEW s \in Streams, SwitchEngine(s)
    PROVE  \E r : Moves(s, r)
  <1> DEFINE x == conn[s]
             r == [x EXCEPT !.proxyBound = FALSE]
  <1>1. x \in Conn /\ Linked(x) /\ x.pc = "bind" /\ x.proxyBound
    BY Entry, Zenon DEF SwitchEngine
  <1>2. Aside
    BY Parts, Zenon DEF SwitchEngine, Aside, environment
  <1>3. \/ Keep([conn EXCEPT ![s] = r]) /\ proxies[proxyKey(s)] = None
        \/ Store(ReleaseRejectedRetry(proxyKey(s)), [conn EXCEPT ![s] = r])
    BY Zenon DEF SwitchEngine, Store
  <1>4. r \in Conn
    BY <1>1, Setters, Zenon
  <1>5. /\ r.pc = "bind" /\ r.node = x.node /\ r.session = x.session /\ r.live = x.live
        /\ r.resourceName = x.resourceName /\ r.engineKey = x.engineKey
        /\ r.proxyBound = FALSE
    BY <1>1, Zenon DEF Conn
  <1> HIDE DEF r
  <1>6. /\ Linked(r) /\ Bound(r) = None /\ Watching(r, cache)
        /\ Ended(x, granted \cup revoking) => Ended(r, granted \cup revoking)
    BY <1>1, <1>5 DEF Linked, Bound, Ended, Watching
  <1>7. /\ StoreInv' /\ Stands /\ Lands([conn EXCEPT ![s] = r]) /\ Counts(conn[s], r)
    <2>1. x.pc # "closed"
      BY <1>1
    <2> QED
      BY <1>1, <1>3, <1>4, <1>6, <2>1, LetGo, Zenon
  <1> QED
    BY <1>2, <1>4, <1>6, <1>7, Zenon DEF Moves

\* onStreamClosed releases the reference of a stream that is closed.
LEMMA ReleaseMoves ==
    ASSUME Base, NEW s \in Streams, Release(s)
    PROVE  \E r : Moves(s, r)
  <1> DEFINE x == conn[s]
             r == Closed(None)
  <1>1. x \in Conn /\ Linked(x) /\ x.pc = "release"
    BY Entry, Zenon DEF Release
  <1>2. Aside
    BY Parts, Zenon DEF Release, Aside, environment
  <1>3. \/ Keep([conn EXCEPT ![s] = r]) /\ (x.proxyBound => proxies[proxyKey(s)] = None)
        \/ x.proxyBound /\ Store(ReleaseRejectedRetry(proxyKey(s)), [conn EXCEPT ![s] = r])
    BY Zenon DEF Release, Store
  <1>4. r \in Conn /\ r.pc = "closed" /\ r.proxyBound = FALSE /\ r.resourceName = None
    BY DEF Closed, Conn
  <1> HIDE DEF r
  <1>5. Linked(r) /\ Bound(r) = None /\ Watching(r, cache) /\ Ended(r, granted \cup revoking)
    BY <1>4 DEF Linked, Bound, Ended, Watching
  <1>6. CASE x.proxyBound
    <2>1. x.pc # "closed"
      BY <1>1
    <2>2. /\ StoreInv' /\ Stands /\ Lands([conn EXCEPT ![s] = r]) /\ Counts(conn[s], r)
      BY <1>3, <1>4, <1>5, <1>6, <2>1, LetGo, Zenon
    <2> QED
      BY <1>2, <1>4, <1>5, <2>2, Zenon DEF Moves
  <1>7. CASE ~x.proxyBound
    <2>1. Bound(x) = None
      BY <1>7, Zenon DEF Bound
    <2> QED
      BY <1>2, <1>3, <1>4, <1>5, <1>7, <2>1, KeptMoves, Zenon
  <1> QED
    BY <1>6, <1>7, Zenon

\* A client without a version binds to the retry that is cached.
LEMMA BindAny ==
    ASSUME StoreInv, NEW name \in Names, NEW p \in Proxies, NEW version \in Version \cup {None},
           BindRejectedRetry(name, p, version)
    PROVE  StoreInv'
  <1>1. CASE version \in Version
    BY <1>1, BindInv, Zenon
  <1>2. CASE version = None
    <2> DEFINE e == snapshotForResource(name)
    <2>1. HasRetry(p, e) /\ CanBind(name, p, cache[p])
      BY <1>2, Zenon DEF BindRejectedRetry, CanBind, IsRetryOf
    <2>2. cache[p] \in Version
      BY <2>1, Zenon DEF HasRetry, IsRetryOf, StoreInv, StoreTypeOK
    <2>3. BindRejectedRetry(name, p, cache[p])
      BY <2>1, Zenon DEF BindRejectedRetry
    <2> QED
      BY <2>2, <2>3, BindInv, Zenon
  <1> QED
    BY <1>1, <1>2, Zenon

\* watchNode pins the request to the retry snapshot of its proxy, when there is
\* one to bind to, and to the shared snapshot of its Engine otherwise.
LEMMA WatchNodeMoves ==
    ASSUME Base, NEW s \in Streams, WatchNode(s)
    PROVE  \E r : Moves(s, r)
  <1> DEFINE x == conn[s]
             name == x.resourceName
             e == name[1]
             p == proxyCacheKey(e, x.node)
             bound == x.proxyBound \/ CanBind(name, p, x.info)
             k == IF bound THEN p ELSE e
             r == [x EXCEPT !.engineKey = e, !.proxyBound = bound, !.nodeId = k,
                            !.pc = "watch"]
  <1>1. x \in Conn /\ Linked(x) /\ x.pc = "bind" /\ (x.proxyBound => x.engineKey = e)
    BY Entry, Zenon DEF WatchNode
  <1>2. name \in Names /\ name # None /\ x.node \in Nodes /\ x.info \in Version \cup {None}
    BY <1>1, Zenon DEF Conn, Linked
  <1>3. e \in Engines /\ p \in Proxies /\ p # None /\ e # None
    BY <1>2, Constants DEF Names, proxyCacheKey
  <1>4. Aside
    BY Parts, Zenon DEF WatchNode, Aside, environment
  <1>5. \/ /\ bound /\ ~x.proxyBound /\ BindRejectedRetry(name, p, x.info)
           /\ Notify([conn EXCEPT ![s] = r], Cleared)
        \/ (bound => x.proxyBound) /\ Keep([conn EXCEPT ![s] = r])
    BY Zenon DEF WatchNode, Store
  <1>6. bound \in BOOLEAN /\ k \in Engines \cup Proxies \cup {None}
    BY <1>1, <1>3 DEF CanBind, Conn
  <1>7. k = IF bound THEN p ELSE e
    OBVIOUS
  <1>8. x.proxyBound => bound
    OBVIOUS
  <1> HIDE DEF bound, k
  <1>9. r \in Conn
    BY <1>1, <1>3, <1>6, Setters, Zenon DEF Steps
  <1>10. /\ r.pc = "watch" /\ r.node = x.node /\ r.session = x.session /\ r.live = x.live
         /\ r.resourceName = name /\ r.engineKey = e /\ r.proxyBound = bound /\ r.nodeId = k
    BY <1>1, Zenon DEF Conn
  <1> HIDE DEF r
  <1>11. /\ Linked(r) /\ Watching(r, cache)
         /\ Ended(x, granted \cup revoking) => Ended(r, granted \cup revoking)
    BY <1>1, <1>2, <1>3, <1>7, <1>10 DEF Linked, Ended, Watching, Pin
  <1>12. Bound(r) = IF bound THEN p ELSE None
    BY <1>10, Zenon DEF Bound
  <1>13. CASE (bound => x.proxyBound) /\ Keep([conn EXCEPT ![s] = r])
    <2>1. Bound(r) = Bound(x)
      BY <1>1, <1>8, <1>12, <1>13, Zenon DEF Bound
    <2> QED
      BY <1>4, <1>9, <1>11, <1>13, <2>1, KeptMoves, Zenon
  <1>14. CASE /\ bound /\ ~x.proxyBound /\ BindRejectedRetry(name, p, x.info)
              /\ Notify([conn EXCEPT ![s] = r], Cleared)
    <2>1. Bound(x) = None /\ Bound(r) = p
      BY <1>12, <1>14, Zenon DEF Bound
    <2>2. StoreInv'
      BY <1>2, <1>3, <1>14, Parts, BindAny, Zenon
    <2>3. /\ Stands
          /\ \A q \in Proxies : Active(q)' = IF q = p THEN Active(q) + 1 ELSE Active(q)
      BY <1>2, <1>3, <1>14, Parts, BindCounts, Zenon
    <2> HIDE DEF p
    <2>4. Counts(x, r)
      BY <1>3, <2>1, <2>3, Zenon DEF Counts
    <2> QED
      BY <1>4, <1>9, <1>11, <1>14, <2>2, <2>3, <2>4, StoredMoves, Zenon
  <1> QED
    BY <1>5, <1>13, <1>14, Zenon

\* runRejectedRetry publishes the retry that is pending, if it is still current.
LEMMA RunRetryMoves ==
    ASSUME Base, NEW s \in Streams, RunRejectedRetry(s)
    PROVE  \E r : Moves(s, r)
  <1> DEFINE x == conn[s]
             t == x.retry
             y == [x EXCEPT !.retry = None]
             z == [x EXCEPT !.retry = None, !.resetting = TRUE]
  <1>1. x \in Conn /\ Linked(x) /\ t \in Pending
    <2>1. x \in Conn /\ Linked(x) /\ t # None
      BY Entry, Zenon DEF RunRejectedRetry
    <2> QED
      BY <2>1, Zenon DEF Conn
  <1>2. t.name \in Names /\ t.proxyKey \in Proxies /\ t.attempt \in Nat
    BY <1>1, Zenon DEF Pending
  <1>3. Aside
    BY Parts, Zenon DEF RunRejectedRetry, Aside, environment
  <1>4. \/ Keep([conn EXCEPT ![s] = y])
        \/ /\ BumpRejected(t.name, t.proxyKey, t.base, t.attempt)
           /\ Notify([conn EXCEPT ![s] = z], Cleared)
    <2>1. [conn EXCEPT ![s].retry = None] = [conn EXCEPT ![s] = y]
      BY Zenon
    <2>2. [[conn EXCEPT ![s].retry = None] EXCEPT ![s].resetting = TRUE]
             = [conn EXCEPT ![s] = z]
      BY Parts, Zenon
    <2> QED
      BY <2>1, <2>2, Zenon DEF RunRejectedRetry, Store
  <1> HIDE DEF x, t
  <1>5. y \in Conn /\ z \in Conn
    BY <1>1, Setters, Zenon
  <1>6. ASSUME NEW r \in {y, z}
        PROVE  /\ Linked(r) /\ Bound(r) = Bound(x)
               /\ Ended(x, granted \cup revoking) => Ended(r, granted \cup revoking)
               /\ Watching(x, cache) => Watching(r, cache)
    <2>1. /\ r.pc = x.pc /\ r.node = x.node /\ r.session = x.session
          /\ r.resourceName = x.resourceName /\ r.engineKey = x.engineKey
          /\ r.proxyBound = x.proxyBound /\ r.rejected = x.rejected /\ r.nodeId = x.nodeId
          /\ r.info = x.info /\ r.watch = x.watch /\ r.resp = x.resp /\ r.answer = x.answer
          /\ r.live => x.live
      BY <1>1, Zenon DEF Conn
    <2>2. r \in Conn
      BY <1>5, Zenon
    <2> QED
      BY <1>1, <2>1, <2>2, Quiet, Zenon
  <1> HIDE DEF y, z
  <1>7. CASE Keep([conn EXCEPT ![s] = y])
    BY <1>3, <1>5, <1>6, <1>7, KeptMoves, Zenon DEF x
  <1>8. CASE /\ BumpRejected(t.name, t.proxyKey, t.base, t.attempt)
             /\ Notify([conn EXCEPT ![s] = z], Cleared)
    <2>1. StoreInv' /\ Stands /\ \A q \in Proxies : Active(q)' = Active(q)
      BY <1>2, <1>8, Parts, BumpInv, BumpCounts, Zenon
    <2>2. Counts(x, z)
      BY <1>6, <2>1, Zenon DEF Counts
    <2> QED
      BY <1>3, <1>5, <1>6, <1>8, <2>1, <2>2, StoredMoves, Zenon DEF x
  <1> QED
    BY <1>4, <1>7, <1>8, Zenon

-----------------------------------------------------------------------------
\* The steps of a stream and those of the rest of the system.

\* Every step of a stream's goroutine, of its timers and of its client.
StreamStep(s) ==
    \/ Serve(s) \/ RunRejectedRetry(s) \/ ResetStream(s)
    \/ Revalidate(s) \/ HangUp(s) \/ AuthDeadline(s) \/ Lose(s) \/ Refuse(s)
    \/ Ack(s) \/ Nack(s) \/ AckAgain(s) \/ BareAck(s)
    \/ \E n \in Names : Subscribe(s, n) \/ NackFirst(s, n)
    \/ \E n \in Nodes : Open(s, n)

\* Every step of a stream moves its entry as Moves says.
LEMMA StreamMoves ==
    ASSUME Base, NEW s \in Streams, StreamStep(s)
    PROVE  \E r : Moves(s, r)
  <1>1. CASE Authorize(s) \/ EngineKey(s) \/ Refuse(s)
    BY <1>1, RefuseMoves, AuthorizeMoves, Zenon
  <1>2. CASE Send(s)
    BY <1>2, RefuseMoves, SendMoves, Zenon
  <1>3. CASE SwitchEngine(s) \/ WatchNode(s) \/ Reschedule(s) \/ CreateWatch(s)
    BY <1>3, SwitchMoves, WatchNodeMoves, RescheduleMoves, CreateWatchMoves, Zenon
  <1>4. CASE Close(s) \/ Release(s) \/ RunRejectedRetry(s)
    BY <1>4, CloseMoves, ReleaseMoves, RunRetryMoves, Zenon
  <1>5. CASE \/ ResetStream(s) \/ Revalidate(s) \/ HangUp(s) \/ AuthDeadline(s) \/ Lose(s)
    BY <1>5, CancelMoves, Zenon
  <1>6. CASE Ack(s) \/ AckAgain(s) \/ BareAck(s)
    BY <1>6, AckMoves, BareAckMoves, Zenon
  <1>7. CASE Nack(s) \/ \E n \in Names : NackFirst(s, n)
    BY <1>7, NackMoves, Zenon
  <1>8. ASSUME NEW n \in Names, Subscribe(s, n)
        PROVE  \E r : Moves(s, r)
    BY <1>8, SubscribeMoves, Zenon
  <1>9. ASSUME NEW n \in Nodes, Open(s, n)
        PROVE  \E r : Moves(s, r)
    BY <1>9, OpenMoves, Zenon
  <1> QED
    BY <1>1, <1>2, <1>3, <1>4, <1>5, <1>6, <1>7, <1>8, <1>9, Zenon DEF StreamStep, Serve

\* A step is one of a stream, or grants or withdraws, or publishes.
LEMMA NextSteps ==
    ASSUME Base, Next
    PROVE  \/ \E s \in Streams : StreamStep(s)
           \/ \E n \in Names : Grant(n) \/ RevokeName(n) \/ RevokeResource(n)
           \/ \E e \in Engines : ForgetSnapshot(e) \/ RevokeEngine(e)
           \/ \E e \in Engines, u \in UIDs, v \in Versions : Publish(e, u, v)
  <1>1. budget.engines \subseteq Engines /\ budget.versions \subseteq Versions
    BY Parts DEF Budget
  <1>2. Used \subseteq Names
    BY DEF Used
  <1> QED
    BY <1>1, <1>2, Zenon DEF Next, StreamStep

\* Notify changes nothing of an entry but its watch and its response.
LEMMA Notified ==
    ASSUME NEW c \in [Streams -> Conn], NEW cleared, Notify(c, cleared),
           \A k \in Engines \cup Proxies : cache'[k] \in Version \cup {None},
           NEW t \in Streams
    PROVE  /\ conn'[t] \in Conn
           /\ \/ conn'[t] = c[t]
              \/ c[t].watch \in cleared /\ conn'[t] = [c[t] EXCEPT !.watch = None]
              \/ /\ cache'[c[t].watch] \notin {None, c[t].info}
                 /\ conn'[t] = [c[t] EXCEPT !.watch = None, !.resp = cache'[c[t].watch]]
  <1> DEFINE k == c[t].watch
  <1>1. c[t] \in Conn /\ k \in Engines \cup Proxies \cup {None}
    BY Zenon DEF Conn
  <1>2. conn'[t] = IF k = None THEN c[t]
                   ELSE IF k \in cleared THEN [c[t] EXCEPT !.watch = None]
                   ELSE IF cache'[k] \in {None, c[t].info} THEN c[t]
                   ELSE [c[t] EXCEPT !.watch = None, !.resp = cache'[k]]
    BY Zenon DEF Notify
  <1>3. CASE conn'[t] = c[t]
    BY <1>1, <1>3, Zenon
  <1>4. CASE conn'[t] # c[t] /\ k \in cleared
    <2>1. conn'[t] = [c[t] EXCEPT !.watch = None]
      BY <1>2, <1>4, Zenon
    <2>2. [c[t] EXCEPT !.watch = None] \in Conn
      BY <1>1, Setters, Zenon
    <2> QED
      BY <1>4, <2>1, <2>2, Zenon
  <1>5. CASE conn'[t] # c[t] /\ k \notin cleared
    <2>1. /\ k # None /\ cache'[k] \notin {None, c[t].info}
          /\ conn'[t] = [c[t] EXCEPT !.watch = None, !.resp = cache'[k]]
      BY <1>2, <1>5, Zenon
    <2>2. cache'[k] \in Version \cup {None}
      BY <1>1, <2>1, Zenon
    <2>3. [c[t] EXCEPT !.watch = None, !.resp = cache'[k]] \in Conn
      BY <1>1, <2>2, Setters, Zenon
    <2> QED
      BY <2>1, <2>3, Zenon
  <1> QED
    BY <1>3, <1>4, <1>5, Zenon

\* The fields of an entry that a write to the cache leaves alone.
Agree(d, c) ==
    /\ d.pc = c.pc /\ d.node = c.node /\ d.live = c.live /\ d.session = c.session
    /\ d.resourceName = c.resourceName /\ d.engineKey = c.engineKey
    /\ d.proxyBound = c.proxyBound /\ d.rejected = c.rejected /\ d.nodeId = c.nodeId
    /\ d.info = c.info /\ d.answer = c.answer

\* The entries after a step are those it wrote, up to watches and responses.
LEMMA Agreement ==
    ASSUME NEW c \in [Streams -> Conn], NEW cleared, conn' = c \/ Notify(c, cleared), StoreInv'
    PROVE  conn' \in [Streams -> Conn] /\ \A t \in Streams : Agree(conn'[t], c[t])
  <1>1. CASE conn' = c
    BY <1>1, Zenon DEF Agree
  <1>2. CASE Notify(c, cleared)
    <2>1. \A k \in Engines \cup Proxies : cache'[k] \in Version \cup {None}
      BY Zenon DEF StoreInv, StoreTypeOK
    <2>2. \A t \in Streams : conn'[t] \in Conn
      BY <1>2, <2>1, Notified, Zenon
    <2>3. conn' = [t \in Streams |-> conn'[t]]
      BY <1>2, Zenon DEF Notify
    <2>4. ASSUME NEW t \in Streams
          PROVE  Agree(conn'[t], c[t])
      <3> DEFINE x == c[t]
      <3>1. x \in Conn
        OBVIOUS
      <3>2. \/ conn'[t] = x \/ conn'[t] = [x EXCEPT !.watch = None]
            \/ conn'[t] = [x EXCEPT !.watch = None, !.resp = cache'[x.watch]]
        BY <1>2, <2>1, Notified, Zenon
      <3> HIDE DEF x
      <3>3. Agree(conn'[t], x)
        BY <3>1, <3>2, Zenon DEF Agree, Conn
      <3> QED
        BY <3>3, Zenon DEF x
    <2> QED
      BY <2>2, <2>3, <2>4, Zenon
  <1> QED
    BY <1>1, <1>2, Zenon

\* What depends on those fields only.
LEMMA AgreeKeeps ==
    ASSUME NEW c, NEW d, Agree(d, c), NEW names
    PROVE  /\ Linked(c) => Linked(d)
           /\ Bound(d) = Bound(c) /\ Pin(d) = Pin(c)
           /\ Ended(c, names) => Ended(d, names)
  <1>1. Linked(c) => Linked(d)
    BY Zenon DEF Agree, Linked
  <1>2. Bound(d) = Bound(c) /\ Pin(d) = Pin(c)
    BY Zenon DEF Agree, Bound, Pin
  <1>3. Ended(c, names) => Ended(d, names)
    BY Zenon DEF Agree, Ended
  <1> QED
    BY <1>1, <1>2, <1>3, Zenon

\* One stream moves: the other entries are the same up to watches and responses.
LEMMA OneMoves ==
    ASSUME Base, NEW s \in Streams, NEW r, Moves(s, r)
    PROVE  /\ conn' \in [Streams -> Conn]
           /\ Agree(conn'[s], r) /\ \A t \in Streams \ {s} : Agree(conn'[t], conn[t])
  <1> DEFINE c == [conn EXCEPT ![s] = r]
  <1>1. r \in Conn /\ Lands(c) /\ StoreInv'
    BY Zenon DEF Moves
  <1>2. c \in [Streams -> Conn] /\ c[s] = r /\ \A t \in Streams \ {s} : c[t] = conn[t]
    BY <1>1, Parts, Zenon
  <1> HIDE DEF c
  <1>3. conn' \in [Streams -> Conn] /\ \A t \in Streams : Agree(conn'[t], c[t])
    BY <1>1, <1>2, Agreement, Zenon DEF Lands
  <1> QED
    BY <1>2, <1>3, Zenon

\* No entry changes but its watch, its response and that it may be cancelled.
StreamsStay ==
    /\ conn' \in [Streams -> Conn]
    /\ \A t \in Streams : /\ Linked(conn'[t]) /\ Bound(conn'[t]) = Bound(conn[t])
                          /\ \A names : Ended(conn[t], names) => Ended(conn'[t], names)

\* Entries of the index come and go, and streams are cancelled for it.
IndexStep == \/ \E n \in Names : Grant(n) \/ RevokeName(n) \/ RevokeResource(n)
             \/ \E e \in Engines : RevokeEngine(e)

\* Such a step leaves the store and what the streams do alone.
LEMMA IndexStays ==
    ASSUME Base, IndexStep
    PROVE  /\ UNCHANGED storeVars /\ StreamsStay
           /\ granted' \subseteq Names /\ revoking' \subseteq Names /\ forgetting' \subseteq Engines
           /\ budget' \in Budget /\ proxy' \in [Nodes -> Proxy]
  <1>1. UNCHANGED storeVars /\ UNCHANGED proxy
    BY Zenon DEF IndexStep, Grant, RevokeName, RevokeResource, RevokeEngine, Keep
  <1>2. budget' \in Budget
    BY Parts, Spending, Zenon DEF IndexStep, Grant, RevokeName, RevokeResource, RevokeEngine
  <1>3. granted' \subseteq Names /\ revoking' \subseteq Names /\ forgetting' \subseteq Engines
    BY Parts, Zenon DEF IndexStep, Grant, RevokeName, RevokeResource, RevokeEngine
  <1>4. StreamsStay
    <2>1. CASE UNCHANGED conn
      BY <2>1, Parts, Entry, Zenon DEF StreamsStay
    <2>2. ASSUME NEW n \in Names, RevokeResource(n)
          PROVE  StreamsStay
      <3>1. \A t \in Streams : conn'[t] = conn[t] \/ conn'[t] = [conn[t] EXCEPT !.live = FALSE]
        BY <2>2, Zenon DEF RevokeResource, Keep
      <3>2. conn' = [t \in Streams |-> conn'[t]]
        BY <2>2, Zenon DEF RevokeResource, Keep
      <3>3. ASSUME NEW t \in Streams
            PROVE  /\ conn'[t] \in Conn /\ Linked(conn'[t]) /\ Bound(conn'[t]) = Bound(conn[t])
                   /\ \A names : Ended(conn[t], names) => Ended(conn'[t], names)
        <4> DEFINE x == conn[t]
                   r == [x EXCEPT !.live = FALSE]
        <4>1. x \in Conn /\ Linked(x)
          BY Entry, Zenon
        <4>2. conn'[t] = x \/ conn'[t] = r
          BY <3>1, Zenon
        <4> HIDE DEF x
        <4>3. r \in Conn
          BY <4>1, Setters, Zenon
        <4>4. /\ r.pc = x.pc /\ r.node = x.node /\ r.session = x.session
              /\ r.resourceName = x.resourceName /\ r.engineKey = x.engineKey
              /\ r.proxyBound = x.proxyBound /\ r.rejected = x.rejected /\ r.live = FALSE
          BY <4>1, Zenon DEF Conn
        <4> HIDE DEF r
        <4>5. Linked(r) /\ Bound(r) = Bound(x) /\ \A names : Ended(r, names)
          BY <4>1, <4>4, Zenon DEF Linked, Bound, Ended
        <4> QED
          BY <4>1, <4>2, <4>3, <4>5, Zenon DEF x
      <3> QED
        BY <3>2, <3>3, Zenon DEF StreamsStay
    <2> QED
      BY <2>1, <2>2, Zenon DEF IndexStep, Grant, RevokeName, RevokeEngine
  <1> QED
    BY <1>1, <1>2, <1>3, <1>4, Parts, Zenon

\* A publication and its end write the store and answer watches.
LEMMA StoreStays ==
    ASSUME Base, NEW e \in Engines,
           ForgetSnapshot(e) \/ \E u \in UIDs, v \in Versions : Publish(e, u, v)
    PROVE  /\ StoreInv' /\ StreamsStay /\ UNCHANGED <<granted, revoking>>
           /\ forgetting' \subseteq Engines /\ budget' \in Budget /\ proxy' \in [Nodes -> Proxy]
  <1>1. StoreInv'
    BY Parts, ReplaceInv, DeleteInv, Zenon DEF ForgetSnapshot, Publish, Store
  <1>2. \E cleared : Notify(conn, cleared)
    BY Zenon DEF ForgetSnapshot, Publish, Store
  <1>3. conn' \in [Streams -> Conn] /\ \A t \in Streams : Agree(conn'[t], conn[t])
    BY <1>1, <1>2, Parts, Agreement, Zenon
  <1>4. StreamsStay
    BY <1>3, AgreeKeeps, Entry, Zenon DEF StreamsStay
  <1>5. budget' \in Budget
    BY Parts, Spending, Zenon DEF ForgetSnapshot, Publish
  <1>6. /\ UNCHANGED <<granted, revoking>> /\ forgetting' \subseteq Engines
        /\ proxy' \in [Nodes -> Proxy]
    BY Parts, Zenon DEF ForgetSnapshot, Publish
  <1> QED
    BY <1>1, <1>4, <1>5, <1>6, Zenon

\* Every step keeps the types, the store's invariant and the links.
LEMMA BaseStep == Base /\ [Next]_vars => Base'
  <1> SUFFICES ASSUME Base, [Next]_vars PROVE Base'
    OBVIOUS
  <1> DEFINE Others == /\ granted' \subseteq Names /\ revoking' \subseteq Names
                       /\ forgetting' \subseteq Engines /\ budget' \in Budget
                       /\ proxy' \in [Nodes -> Proxy]
                       /\ conn' \in [Streams -> Conn] /\ \A t \in Streams : Linked(conn'[t])
  <1>0. ASSUME StoreInv', Others
        PROVE  Base'
    BY <1>0, Zenon DEF Base, StreamsTypeOK, StoreInv
  <1>1. ASSUME NEW s \in Streams, StreamStep(s)
        PROVE  Base'
    <2>1. PICK r : Moves(s, r)
      BY <1>1, StreamMoves, Zenon
    <2>2. StoreInv' /\ Aside /\ Linked(r)
      BY <2>1, Zenon DEF Moves
    <2>3. \A t \in Streams : Linked(conn'[t])
      BY <2>1, <2>2, OneMoves, AgreeKeeps, Entry, Zenon
    <2>4. Others
      BY <2>1, <2>2, <2>3, Parts, OneMoves, Zenon DEF Aside
    <2> QED
      BY <1>0, <2>2, <2>4, Zenon
  <1>2. CASE IndexStep
    BY <1>0, <1>2, IndexStays, Kept, Parts, Zenon DEF StreamsStay
  <1>3. ASSUME NEW e \in Engines,
               ForgetSnapshot(e) \/ \E u \in UIDs, v \in Versions : Publish(e, u, v)
        PROVE  Base'
    BY <1>0, <1>3, StoreStays, Parts, Zenon DEF StreamsStay
  <1>4. CASE UNCHANGED vars
    <2>1. UNCHANGED storeVars /\ UNCHANGED streamVars
      BY <1>4, Zenon DEF vars
    <2>2. Others
      BY <2>1, Parts, Entry, Zenon DEF streamVars
    <2> QED
      BY <1>0, <2>1, <2>2, Parts, Kept, Zenon
  <1>5. CASE Next
    BY <1>1, <1>2, <1>3, <1>5, NextSteps, Zenon DEF IndexStep
  <1> QED
    BY <1>4, <1>5, Zenon

\* A slot that was never used, at the start.
LEMMA Unused == Closed(None) \in Conn /\ Linked(Closed(None)) /\ Bound(Closed(None)) = None
                /\ Closed(None).pc = "closed" /\ Closed(None).resourceName = None
  BY DEF Closed, Conn, Linked, Bound

\* The server starts with no stream and an empty store.
LEMMA BaseInit == Init => Base
  <1> SUFFICES ASSUME Init PROVE Base
    OBVIOUS
  <1>1. StoreInv /\ StoreTypeOK
    BY InitInv, Zenon DEF Init, StoreInv
  <1>2. conn \in [Streams -> Conn] /\ \A s \in Streams : Linked(conn[s])
    BY Unused, Zenon DEF Init
  <1>3. proxy \in [Nodes -> Proxy]
    BY DEF Init, Proxy
  <1>4. granted \subseteq Names /\ revoking \subseteq Names /\ forgetting \subseteq Engines
    BY DEF Init
  <1>5. budget \in Budget
    BY StreamsAssumption, Zenon DEF Init
  <1> QED
    BY <1>1, <1>2, <1>3, <1>4, <1>5, Zenon DEF Base, StreamsTypeOK

\* The types, the store's invariant and the links always hold.
LEMMA BaseInvariant == Spec => []Base
  BY BaseInit, BaseStep, PTL DEF Spec

-----------------------------------------------------------------------------
\* Type correctness of the streams, the proxies and the index, under every
\* interleaving of goroutines, timers, revocation and publication.
THEOREM StreamsTypes == Spec => []StreamsTypeOK
  <1>1. Base => StreamsTypeOK
    BY DEF Base
  <1> QED
    BY <1>1, BaseInvariant, PTL

\* The store's guarantees hold in the running server: the arguments that
\* onStreamRequest, onStreamClosed and runRejectedRetry pass to the store, from
\* entries and timers that may be out of date, never break them.
THEOREM StreamsServeCurrent == Spec => [](ServedIsCurrent /\ IndexesAgree /\ InactiveRetriesBounded)
  <1>1. Base => ServedIsCurrent /\ IndexesAgree /\ InactiveRetriesBounded
    BY DEF Base, StoreInv, NamesAgree, ProxiesAgree, IndexesAgree
  <1> QED
    BY <1>1, BaseInvariant, PTL

-----------------------------------------------------------------------------
\* Revocation.  A stream past its authorization is cancelled when neither an
\* entry nor a revocation in progress is left for its name.
AllEnded == \A s \in Streams : Ended(conn[s], granted \cup revoking)

\* A revoked stream that goes on has been cancelled, and no step revives it.
LEMMA EndedStep == Base /\ AllEnded /\ [Next]_vars => AllEnded'
  <1> SUFFICES ASSUME Base, AllEnded, [Next]_vars PROVE AllEnded'
    OBVIOUS
  <1> DEFINE G == granted \cup revoking
  <1>0. ASSUME G \subseteq G', \A s \in Streams : Ended(conn'[s], G)
        PROVE  AllEnded'
    BY <1>0, Zenon DEF AllEnded, Ended
  <1>1. ASSUME NEW s \in Streams, StreamStep(s)
        PROVE  AllEnded'
    <2>1. PICK r : Moves(s, r)
      BY <1>1, StreamMoves, Zenon
    <2>2. Ended(r, G) /\ G' = G
      BY <2>1, Zenon DEF Moves, Aside, AllEnded
    <2> HIDE DEF G
    <2>3. \A t \in Streams : Ended(conn'[t], G)
      BY <2>1, <2>2, OneMoves, AgreeKeeps, Zenon DEF AllEnded, G
    <2> QED
      BY <1>0, <2>2, <2>3, Zenon
  <1>2. ASSUME StreamsStay, G \subseteq G'
        PROVE  AllEnded'
    BY <1>0, <1>2, Zenon DEF StreamsStay, AllEnded
  <1>3. ASSUME NEW n \in Names, Grant(n) \/ RevokeName(n)
        PROVE  AllEnded'
    <2>1. G \subseteq G'
      BY <1>3 DEF Grant, RevokeName
    <2> QED
      BY <1>2, <1>3, <2>1, IndexStays, Zenon DEF IndexStep
  <1>4. ASSUME NEW e \in Engines, RevokeEngine(e)
        PROVE  AllEnded'
    <2>1. G \subseteq G'
      BY <1>4, Zenon DEF RevokeEngine
    <2> QED
      BY <1>2, <1>4, <2>1, IndexStays, Zenon DEF IndexStep
  <1>5. ASSUME NEW n \in Names, RevokeResource(n)
        PROVE  AllEnded'
    <2>1. StreamsStay
      BY <1>5, IndexStays, Zenon DEF IndexStep
    <2>2. G \ {n} \subseteq G'
      BY <1>5, Zenon DEF RevokeResource
    <2>3. ASSUME NEW t \in Streams
          PROVE  Ended(conn'[t], G')
      <3> DEFINE x == conn[t]
      <3>1. x \in Conn /\ Linked(x)
        BY Entry, Zenon
      <3>2. conn'[t] = IF x.session /\ x.resourceName = n THEN [x EXCEPT !.live = FALSE] ELSE x
        BY <1>5, Zenon DEF RevokeResource, Keep
      <3>3. Ended(x, G)
        BY Zenon DEF AllEnded
      <3> HIDE DEF x, G
      <3>4. CASE x.resourceName = n
        <4>1. x.session
          BY <1>5, <3>1, <3>4, Constants, Zenon DEF Linked
        <4>2. conn'[t] = [x EXCEPT !.live = FALSE]
          BY <3>2, <3>4, <4>1, Zenon
        <4>3. ~conn'[t].live
          BY <3>1, <4>2, Zenon DEF Conn
        <4> QED
          BY <4>3, Zenon DEF Ended
      <3>5. CASE x.resourceName # n
        BY <2>2, <3>2, <3>3, <3>5, Zenon DEF Ended
      <3> QED
        BY <3>4, <3>5, Zenon
    <2> QED
      BY <2>3, Zenon DEF AllEnded
  <1>6. ASSUME NEW e \in Engines,
               ForgetSnapshot(e) \/ \E u \in UIDs, v \in Versions : Publish(e, u, v)
        PROVE  AllEnded'
    BY <1>2, <1>6, StoreStays, Zenon
  <1>7. CASE UNCHANGED vars
    BY <1>7, Zenon DEF vars, streamVars, AllEnded
  <1>8. CASE Next
    BY <1>1, <1>3, <1>4, <1>5, <1>6, <1>8, NextSteps, Zenon
  <1> QED
    BY <1>7, <1>8, Zenon

\* Once a revocation has run to its end, no stream authorized for the name is
\* left open: onStreamRequest records the subscription before it authorizes, so
\* RevokeResource finds every stream whose authorization saw the entry.
THEOREM RevokedEnd == Spec => []RevokedStreamsEnd
  <1>1. Init => AllEnded
    <2> SUFFICES ASSUME Init, NEW s \in Streams PROVE Ended(conn[s], granted \cup revoking)
      BY Zenon DEF AllEnded
    <2>1. conn[s] = Closed(None)
      BY Zenon DEF Init
    <2> QED
      BY <2>1, Unused, Zenon DEF Ended
  <1>2. AllEnded => RevokedStreamsEnd
    BY Zenon DEF AllEnded, Ended, RevokedStreamsEnd
  <1> QED
    BY <1>1, <1>2, EndedStep, BaseInvariant, PTL DEF Spec

-----------------------------------------------------------------------------
\* Reference counts.  Refs(p) are the streams that refer to a proxy's retry
\* snapshot.
Refs(p) == {s \in Streams : Bound(conn[s]) = p}

\* Nothing is withdrawn or being withdrawn.
Standing == budget.withdraw = 0 /\ forgetting = {} /\ revoking = {}

\* The store counts, for each proxy, the streams that refer to it.
Counted == \A p \in Proxies : IsFiniteSet(Refs(p)) /\ Cardinality(Refs(p)) = Active(p)

\* What RetriesCounted rests on: while the environment withdraws no Engine,
\* no Delete resets a count under a stream that is still to release it.
CountInv == ~budget.withdraws => Standing /\ Counted

\* The counts of a proxy that nothing refers to, or that gains or loses one.
LEMMA CountsOne ==
    ASSUME Base, Counted, NEW s \in Streams, NEW r, Moves(s, r)
    PROVE  Counted'
  <1> DEFINE x == conn[s]
  <1>1. /\ Bound(conn'[s]) = Bound(r)
        /\ \A t \in Streams \ {s} : Bound(conn'[t]) = Bound(conn[t])
    BY OneMoves, AgreeKeeps, Zenon
  <1>2. Counts(x, r)
    BY Zenon DEF Moves
  <1> HIDE DEF x
  <1> SUFFICES ASSUME NEW p \in Proxies
               PROVE  IsFiniteSet(Refs(p)') /\ Cardinality(Refs(p)') = Active(p)'
    BY Zenon DEF Counted
  <1>3. IsFiniteSet(Refs(p)) /\ Cardinality(Refs(p)) = Active(p) /\ Active(p) \in Nat
    BY FS_CardinalityType, Zenon DEF Counted
  <1>4. CASE Bound(r) = Bound(x) /\ Active(p)' = Active(p)
    <2>1. Refs(p)' = Refs(p)
      BY <1>1, <1>4, Zenon DEF Refs, x
    <2> QED
      BY <1>3, <1>4, <2>1, Zenon
  <1>5. CASE /\ Bound(x) = None /\ Bound(r) \in Proxies
             /\ Active(p)' = IF p = Bound(r) THEN Active(p) + 1 ELSE Active(p)
    <2>1. CASE p = Bound(r)
      <3>1. Refs(p)' = Refs(p) \cup {s} /\ s \notin Refs(p)
        BY <1>1, <1>5, <2>1, Constants, Zenon DEF Refs, x
      <3>2. /\ IsFiniteSet(Refs(p) \cup {s})
            /\ Cardinality(Refs(p) \cup {s}) = Cardinality(Refs(p)) + 1
        BY <1>3, <3>1, FS_AddElement
      <3>3. Active(p)' = Active(p) + 1
        BY <1>5, <2>1, Zenon
      <3> QED
        BY <1>3, <3>1, <3>2, <3>3, Zenon
    <2>2. CASE p # Bound(r)
      <3>1. Refs(p)' = Refs(p)
        BY <1>1, <1>5, <2>2, Constants, Zenon DEF Refs, x
      <3> QED
        BY <1>3, <1>5, <2>2, <3>1, Zenon
    <2> QED
      BY <2>1, <2>2, Zenon
  <1>6. CASE /\ Bound(x) \in Proxies /\ Bound(r) = None
             /\ Active(Bound(x)) > 0 =>
                   Active(p)' = IF p = Bound(x) THEN Active(p) - 1 ELSE Active(p)
    <2> DEFINE q == Bound(x)
    <2>1. Active(q) > 0
      <3>1. IsFiniteSet(Refs(q)) /\ Cardinality(Refs(q)) = Active(q) /\ Active(q) \in Nat
        BY <1>6, FS_CardinalityType, Zenon DEF Counted
      <3>2. Refs(q) # {}
        BY Zenon DEF Refs, x
      <3>3. Active(q) # 0
        BY <3>1, <3>2, FS_EmptySet, Zenon
      <3> QED
        BY <3>1, <3>3
    <2>2. CASE p = q
      <3>1. Refs(p)' = Refs(p) \ {s} /\ s \in Refs(p)
        BY <1>1, <1>6, <2>2, Constants, Zenon DEF Refs, x
      <3>2. /\ IsFiniteSet(Refs(p) \ {s})
            /\ Cardinality(Refs(p) \ {s}) = Cardinality(Refs(p)) - 1
        BY <1>3, <3>1, FS_RemoveElement
      <3>3. Active(p)' = Active(p) - 1
        BY <1>6, <2>1, <2>2, Zenon
      <3> QED
        BY <1>3, <3>1, <3>2, <3>3, Zenon
    <2>3. CASE p # q
      <3>1. Refs(p)' = Refs(p)
        BY <1>1, <1>6, <2>3, Constants, Zenon DEF Refs, x
      <3> QED
        BY <1>3, <1>6, <2>1, <2>3, <3>1, Zenon
    <2> QED
      BY <2>2, <2>3, Zenon
  <1> QED
    BY <1>2, <1>4, <1>5, <1>6, Zenon DEF Counts

\* Where nothing is withdrawn, the index changes by grants alone.
LEMMA OnlyGrants ==
    ASSUME Standing, IndexStep
    PROVE  \E n \in Names : Grant(n)
  <1>1. \A n \in Names : ~RevokeResource(n) /\ \A e \in Engines : ~RevokeEngine(e)
    BY Zenon DEF Standing, RevokeResource, RevokeEngine
  <1>2. \A n \in Names : ~RevokeName(n)
    BY DEF Standing, RevokeName, Spend
  <1>3. \A e \in Engines : ~RevokeEngine(e)
    BY Zenon DEF Standing, RevokeEngine
  <1> QED
    BY <1>1, <1>2, <1>3, Zenon DEF IndexStep

\* A publication leaves every count as it is.
LEMMA PublishCounts ==
    ASSUME Base, NEW e \in Engines, NEW u \in UIDs, NEW v \in Versions, Publish(e, u, v)
    PROVE  /\ StoreInv' /\ Stands /\ \A p \in Proxies : Active(p)' = Active(p)
           /\ Notify(conn, Cleared) /\ StreamsStay /\ Aside
  <1>1. Replace(e, u, v) /\ Notify(conn, Cleared)
    BY Zenon DEF Publish, Store
  <1>2. Aside
    BY Parts, Spending, Zenon DEF Publish, Aside
  <1> QED
    BY <1>1, <1>2, Parts, ReplaceInv, ReplaceCounts, StoreStays, Zenon

\* Every step of the server and of its environment keeps the counts.
LEMMA CountStep == Base /\ CountInv /\ [Next]_vars => CountInv'
  <1> SUFFICES ASSUME Base, CountInv, [Next]_vars, ~budget'.withdraws PROVE Standing' /\ Counted'
    BY Zenon DEF CountInv
  <1>0. ASSUME StreamsStay, \A p \in Proxies : Active(p)' = Active(p), Counted
        PROVE  Counted'
    <2>1. \A p \in Proxies : Refs(p)' = Refs(p)
      BY <1>0, Zenon DEF StreamsStay, Refs
    <2> QED
      BY <1>0, <2>1, Zenon DEF Counted
  <1>1. ASSUME NEW s \in Streams, StreamStep(s)
        PROVE  Standing' /\ Counted'
    <2>1. PICK r : Moves(s, r)
      BY <1>1, StreamMoves, Zenon
    <2>2. Aside
      BY <2>1, Zenon DEF Moves
    <2>3. Standing /\ Counted
      BY <2>2, Zenon DEF Aside, CountInv
    <2>4. Standing'
      BY <2>2, <2>3, Zenon DEF Aside, Standing
    <2> QED
      BY <2>1, <2>3, <2>4, CountsOne, Zenon
  <1>2. CASE IndexStep
    <2>1. budget'.withdraws = budget.withdraws
      BY <1>2, Parts, Spending, Zenon DEF IndexStep, Grant, RevokeName, RevokeResource,
                                          RevokeEngine
    <2>2. Standing /\ Counted
      BY <2>1, Zenon DEF CountInv
    <2>3. PICK n \in Names : Grant(n)
      BY <1>2, <2>2, OnlyGrants, Zenon
    <2>4. Standing'
      BY <2>2, <2>3, Zenon DEF Grant, Standing
    <2>5. StreamsStay /\ \A p \in Proxies : Active(p)' = Active(p)
      BY <1>2, IndexStays, Kept, Parts, Zenon
    <2> QED
      BY <1>0, <2>2, <2>4, <2>5, Zenon
  <1>3. ASSUME NEW e \in Engines, NEW u \in UIDs, NEW v \in Versions, Publish(e, u, v)
        PROVE  Standing' /\ Counted'
    <2>1. Aside /\ StreamsStay /\ \A p \in Proxies : Active(p)' = Active(p)
      BY <1>3, PublishCounts, Zenon
    <2>2. Standing /\ Counted
      BY <2>1, Zenon DEF Aside, CountInv
    <2>3. Standing'
      BY <2>1, <2>2, Zenon DEF Aside, Standing
    <2> QED
      BY <1>0, <2>1, <2>2, <2>3, Zenon
  <1>4. ASSUME NEW e \in Engines, ForgetSnapshot(e)
        PROVE  FALSE
    <2>1. budget.withdraw # 0 /\ budget'.withdraws = budget.withdraws
      BY <1>4, Parts, Spending, Zenon DEF ForgetSnapshot
    <2> QED
      BY <2>1, Zenon DEF CountInv, Standing
  <1>5. CASE UNCHANGED vars
    <2>1. UNCHANGED storeVars /\ UNCHANGED streamVars
      BY <1>5, Zenon DEF vars
    <2>2. StreamsStay /\ \A p \in Proxies : Active(p)' = Active(p)
      BY <2>1, Kept, Parts, Entry, Zenon DEF streamVars, StreamsStay
    <2>3. Standing /\ Counted /\ Standing'
      BY <2>1, Zenon DEF streamVars, CountInv, Standing
    <2> QED
      BY <1>0, <2>2, <2>3, Zenon
  <1>6. CASE Next
    BY <1>1, <1>2, <1>3, <1>4, <1>6, NextSteps, Zenon DEF IndexStep
  <1> QED
    BY <1>5, <1>6, Zenon

\* At the start nothing is counted and no stream refers to anything.
LEMMA CountInit == Init => CountInv
  <1> SUFFICES ASSUME Init, ~budget.withdraws PROVE Standing /\ Counted
    BY Zenon DEF CountInv
  <1>1. Standing
    BY StreamsAssumption, Zenon DEF Init, Standing
  <1>2. ASSUME NEW p \in Proxies
        PROVE  IsFiniteSet(Refs(p)) /\ Cardinality(Refs(p)) = Active(p)
    <2>1. Refs(p) = {}
      BY Unused, Constants, Zenon DEF Init, Refs
    <2>2. Active(p) = 0
      BY Zenon DEF Init, StoreInit, Active
    <2> QED
      BY <2>1, <2>2, FS_EmptySet, Zenon
  <1> QED
    BY <1>1, <1>2, Zenon DEF Counted

\* The counts are kept throughout.
LEMMA CountInvariant == Spec => []CountInv
  BY CountInit, CountStep, BaseInvariant, PTL DEF Spec

\* Unless an Engine is withdrawn, a proxy's retry snapshot counts exactly the
\* streams bound to it: every BindRejectedRetry of watchNode is matched by one
\* ReleaseRejectedRetry, on the switch to another Engine or on close.
THEOREM RetriesCount == Spec => []RetriesCounted
  <1>1. Base /\ CountInv => RetriesCounted
    <2> SUFFICES ASSUME Base, CountInv, ~budget.withdraws, NEW p \in Proxies
                 PROVE  Cardinality(References(p)) = Active(p)
      BY Zenon DEF RetriesCounted, Active
    <2>1. References(p) = Refs(p)
      <3>1. ASSUME NEW s \in Streams
            PROVE  s \in References(p) <=> s \in Refs(p)
        BY Entry, Constants DEF References, Refs, Bound, proxyKey, Linked
      <3>2. References(p) \subseteq Streams /\ Refs(p) \subseteq Streams
        BY Zenon DEF References, Refs
      <3> QED
        BY <3>1, <3>2, Zenon
    <2> QED
      BY <2>1, Zenon DEF CountInv, Counted
  <1> QED
    BY <1>1, BaseInvariant, CountInvariant, PTL

-----------------------------------------------------------------------------
\* Watches.  While nothing is withdrawn, a stream that waits has an open watch
\* on the key it is pinned to, and has what that key serves.
WatchInv == ~budget.withdraws => \A s \in Streams : Watching(conn[s], cache)

\* A key that a stream is pinned to is served after a step if it was before.
LEMMA PinServed ==
    ASSUME StoreInv, StoreInv', Stands, NEW x \in Conn, Linked(x),
           x.pc = "recv", x.resourceName # None,
           \A p \in Proxies : p = Bound(x) => Active(p)' # 0
    PROVE  /\ Pin(x) \in Engines \cup Proxies /\ Pin(x) # None
           /\ Pin(x) \notin Cleared
  <1> DEFINE k == Pin(x)
  <1>1. /\ k \in Engines \cup Proxies /\ k # None
        /\ x.proxyBound => k \in Proxies /\ Bound(x) = k
        /\ ~x.proxyBound => k \in Engines
    <2>1. x.pc # "closed" /\ x.engineKey # None
      BY Zenon DEF Linked
    <2>2. x.engineKey \in Engines
      BY <2>1, Zenon DEF Conn
    <2> QED
      BY <2>1, <2>2, Keys, Zenon DEF Pin
  <1>2. CASE x.proxyBound
    <2>1. k \in Proxies /\ k = Bound(x)
      BY <1>1, <1>2, Zenon
    <2>2. proxies'[k] # None
      BY <2>1, Zenon DEF Active
    <2>3. cache'[k] # None
      BY <2>1, <2>2, Zenon DEF StoreInv, ProxiesAgree
    <2> QED
      BY <1>1, <2>3, Zenon DEF Cleared
  <1>3. CASE ~x.proxyBound
    <2>1. k \in Engines
      BY <1>1, <1>3, Zenon
    <2>2. CASE cache[k] = None
      BY <1>1, <2>2, Zenon DEF Cleared
    <2>3. CASE cache[k] # None
      <3>1. meta'[k] # None
        BY <2>1, <2>3, Zenon DEF Stands, StoreInv, ServedIsCurrent
      <3>2. meta'[k] \in Snapshot
        BY <2>1, <3>1, Zenon DEF StoreInv, StoreTypeOK
      <3>3. cache'[k] = Retry(meta'[k].version, 0)
        BY <2>1, <3>1, Zenon DEF StoreInv, ServedIsCurrent
      <3>4. cache'[k] # None
        BY <3>2, <3>3, Constants DEF Retry, Version, Snapshot
      <3> QED
        BY <1>1, <3>4, Zenon DEF Cleared
    <2> QED
      BY <2>2, <2>3, Zenon
  <1> QED
    BY <1>1, <1>2, <1>3, Zenon

\* A step that answers the watches it changes keeps the others standing.
LEMMA WatchesStand ==
    ASSUME StoreInv, StoreInv', Stands, NEW c \in [Streams -> Conn], Lands(c),
           \A t \in Streams : Linked(c[t]) /\ Watching(c[t], cache),
           \A p \in Proxies, t \in Streams : p = Bound(conn'[t]) => Active(p)' # 0
    PROVE  \A t \in Streams : Watching(conn'[t], cache')
  <1>1. CASE UNCHANGED cache /\ conn' = c
    BY <1>1, Zenon
  <1>2. CASE Notify(c, Cleared)
    <2> SUFFICES ASSUME NEW t \in Streams
                 PROVE  Watching(conn'[t], cache')
      BY Zenon
    <2> DEFINE x == c[t]
               y == conn'[t]
    <2>1. x \in Conn /\ Linked(x) /\ Watching(x, cache)
      BY Zenon
    <2>2. Agree(y, x)
      BY <1>2, Agreement, Zenon
    <2>3. Bound(y) = Bound(x) /\ Pin(y) = Pin(x)
      BY <2>2, AgreeKeeps, Zenon
    <2>4. \A p \in Proxies : p = Bound(x) => Active(p)' # 0
      BY <2>3, Zenon
    <2>5. y = IF x.watch = None THEN x
              ELSE IF x.watch \in Cleared THEN [x EXCEPT !.watch = None]
              ELSE IF cache'[x.watch] \in {None, x.info} THEN x
              ELSE [x EXCEPT !.watch = None, !.resp = cache'[x.watch]]
      BY <1>2, Zenon DEF Notify
    <2> HIDE DEF x, y
    <2>6. ASSUME y.resourceName # None, y.pc \in {"nack", "watch"}
          PROVE  y.nodeId = Pin(y)
      BY <2>1, <2>2, <2>3, <2>6, Zenon DEF Agree, Watching
    <2>7. ASSUME y.resourceName # None, y.pc = "recv", y.resp = None, ~y.answer
          PROVE  y.watch = Pin(y) /\ cache'[y.watch] \in {None, y.info}
      <3>1. x.resourceName # None /\ x.pc = "recv" /\ ~x.answer
        BY <2>2, <2>7, Zenon DEF Agree
      <3>2. Pin(x) # None /\ Pin(x) \notin Cleared
        BY <2>1, <2>4, <3>1, PinServed, Zenon
      <3>3. CASE x.resp = None
        <4>1. x.watch = Pin(x)
          BY <2>1, <3>1, <3>3, Zenon DEF Watching
        <4>2. \/ y = x /\ cache'[x.watch] \in {None, x.info}
              \/ /\ cache'[x.watch] # None
                 /\ y = [x EXCEPT !.watch = None, !.resp = cache'[x.watch]]
          BY <2>5, <3>2, <4>1, Zenon
        <4>3. y = x /\ cache'[x.watch] \in {None, x.info}
          BY <2>1, <2>7, <4>2, Zenon DEF Conn
        <4> QED
          BY <4>1, <4>3, Zenon
      <3>4. CASE x.resp # None
        <4>1. \/ y = x \/ y = [x EXCEPT !.watch = None]
              \/ /\ cache'[x.watch] # None
                 /\ y = [x EXCEPT !.watch = None, !.resp = cache'[x.watch]]
          BY <2>5, Zenon
        <4>2. y.resp # None
          BY <2>1, <3>4, <4>1, Zenon DEF Conn
        <4> QED
          BY <2>7, <4>2, Zenon
      <3> QED
        BY <3>3, <3>4, Zenon
    <2>8. Watching(y, cache')
      BY <2>6, <2>7, Zenon DEF Watching
    <2> QED
      BY <2>8, Zenon DEF y
  <1> QED
    BY <1>1, <1>2, Zenon DEF Lands

\* Every step keeps the watches, given the counts it leaves.
LEMMA WatchStep ==
    Base /\ CountInv /\ CountInv' /\ WatchInv /\ [Next]_vars => WatchInv'
  <1> SUFFICES ASSUME Base, CountInv, CountInv', WatchInv, [Next]_vars, ~budget'.withdraws
               PROVE  \A t \in Streams : Watching(conn'[t], cache')
    BY Zenon DEF WatchInv
  <1>0. \A p \in Proxies, t \in Streams : p = Bound(conn'[t]) => Active(p)' # 0
    <2>1. Counted'
      BY Zenon DEF CountInv
    <2>2. \A p \in Proxies, t \in Streams :
             /\ IsFiniteSet(Refs(p)') /\ Cardinality(Refs(p)') = Active(p)'
             /\ p = Bound(conn'[t]) => Refs(p)' # {}
      BY <2>1, Zenon DEF Counted, Refs
    <2> QED
      BY <2>2, FS_EmptySet, Zenon
  <1>1. ASSUME NEW s \in Streams, StreamStep(s)
        PROVE  \A t \in Streams : Watching(conn'[t], cache')
    <2>1. PICK r : Moves(s, r)
      BY <1>1, StreamMoves, Zenon
    <2> DEFINE c == [conn EXCEPT ![s] = r]
    <2>2. /\ r \in Conn /\ Linked(r) /\ Lands(c) /\ Aside /\ StoreInv' /\ Stands
          /\ Watching(conn[s], cache) => Watching(r, cache)
      BY <2>1, Zenon DEF Moves
    <2>3. \A t \in Streams : Watching(conn[t], cache) /\ Linked(conn[t])
      BY <2>2, Entry, Zenon DEF Aside, WatchInv
    <2>4. c \in [Streams -> Conn] /\ c[s] = r /\ \A t \in Streams \ {s} : c[t] = conn[t]
      BY <2>2, Parts, Zenon
    <2> HIDE DEF c
    <2>5. \A t \in Streams : Linked(c[t]) /\ Watching(c[t], cache)
      BY <2>2, <2>3, <2>4, Zenon
    <2> QED
      BY <1>0, <2>2, <2>4, <2>5, Parts, WatchesStand, Zenon
  <1>2. CASE UNCHANGED <<conn, cache>> /\ budget'.withdraws = budget.withdraws
    BY <1>2, Zenon DEF WatchInv
  <1>3. CASE IndexStep
    <2>1. budget'.withdraws = budget.withdraws
      BY <1>3, Parts, Spending, Zenon DEF IndexStep, Grant, RevokeName, RevokeResource,
                                          RevokeEngine
    <2>2. Standing
      BY <2>1, Zenon DEF CountInv
    <2>3. PICK n \in Names : Grant(n)
      BY <1>3, <2>2, OnlyGrants, Zenon
    <2>4. UNCHANGED <<conn, cache>>
      BY <2>3, Zenon DEF Grant, storeVars
    <2> QED
      BY <1>2, <2>1, <2>4, Zenon
  <1>4. ASSUME NEW e \in Engines, NEW u \in UIDs, NEW v \in Versions, Publish(e, u, v)
        PROVE  \A t \in Streams : Watching(conn'[t], cache')
    <2>1. Aside /\ StoreInv' /\ Stands /\ Lands(conn)
      BY <1>4, PublishCounts, Zenon DEF Lands
    <2>2. \A t \in Streams : Linked(conn[t]) /\ Watching(conn[t], cache)
      BY <2>1, Entry, Zenon DEF Aside, WatchInv
    <2> QED
      BY <1>0, <2>1, <2>2, Parts, WatchesStand, Zenon
  <1>5. ASSUME NEW e \in Engines, ForgetSnapshot(e)
        PROVE  FALSE
    <2>1. budget.withdraw # 0 /\ budget'.withdraws = budget.withdraws
      BY <1>5, Parts, Spending, Zenon DEF ForgetSnapshot
    <2> QED
      BY <2>1, Zenon DEF CountInv, Standing
  <1>6. CASE UNCHANGED vars
    BY <1>2, <1>6, Zenon DEF vars, storeVars, streamVars
  <1>7. CASE Next
    BY <1>1, <1>3, <1>4, <1>5, <1>7, NextSteps, Zenon DEF IndexStep
  <1> QED
    BY <1>6, <1>7, Zenon

\* At the start no stream waits.
LEMMA WatchInit == Init => WatchInv
  <1> SUFFICES ASSUME Init, NEW s \in Streams PROVE Watching(conn[s], cache)
    BY Zenon DEF WatchInv
  <1>1. conn[s] = Closed(None)
    BY Zenon DEF Init
  <1>2. conn[s].resourceName = None
    BY <1>1 DEF Closed
  <1> QED
    BY <1>2, Zenon DEF Watching

\* No update is missed.  Unless an Engine is withdrawn, a stream that waits for
\* a snapshot has an open watch on the very key it is pinned to (the retry
\* snapshot of its proxy or the Engine's), and that key serves what the stream
\* already has: whatever is published next answers it.
THEOREM StandingWatch == Spec => []StandingWatchKept
  <1>1. Base /\ CountInv /\ WatchInv => StandingWatchKept
    <2> SUFFICES ASSUME Base, WatchInv, ~budget.withdraws, NEW s \in Streams,
                        conn[s].pc = "recv", conn[s].resp = None, ~conn[s].answer,
                        conn[s].resourceName \in granted
                 PROVE  conn[s].watch = pinned(s) /\ cache[conn[s].watch] \in {None, conn[s].info}
      BY Zenon DEF StandingWatchKept, WatchKept
    <2>1. conn[s].resourceName # None
      BY Parts, Constants, Zenon
    <2>2. conn[s].watch = Pin(conn[s]) /\ cache[conn[s].watch] \in {None, conn[s].info}
      BY <2>1, Zenon DEF WatchInv, Watching
    <2> QED
      BY <2>2, Zenon DEF Pin, pinned, proxyKey
  <1> QED
    BY <1>1, BaseInvariant, CountInvariant, WatchInit, WatchStep, PTL DEF Spec
=============================================================================
