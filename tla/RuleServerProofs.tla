-------------------------- MODULE RuleServerProofs --------------------------
(***************************************************************************)
(* The bound on the review cache of the legacy rule server, and what its   *)
(* answers rest on, for any requests, tokens, instances and settings.      *)
(***************************************************************************)
EXTENDS RuleServer, FiniteSetTheorems, TLAPS

Steps == {"review", "accepted", "expired", "store"}
OpenRequest == [at : Steps, token : Tokens, instance : Instances]

\* What requests and the cache remember is what a TokenReview said.  A request
\* that found its entry expired is reviewed again whatever becomes of the entry.
Typed ==
  /\ clock \in Nat \ {0}
  /\ authCache \in [AuthKeys -> Nat]
  /\ cacheSize \in Nat
  /\ request \in [Requests -> OpenRequest \cup {NoRequest}]

Issued(t, i) == Audience[t] = i

Reviewed ==
  /\ \A k \in Cached : Issued(k[1], k[2])
  /\ \A r \in Requests : At(r, "store") \/ At(r, "accepted") =>
        Issued(request[r].token, request[r].instance)

\* The counter is at least the number of entries: each entry was counted when
\* it was stored, perhaps more than once, and is discounted once when removed.
Bounded ==
  /\ IsFiniteSet(Cached)
  /\ Cardinality(Cached) <= cacheSize
  /\ cacheSize <= MaxAuthCacheSize

Entitled == \A p \in answered : Issued(p[1], p[2]) /\ Namespace[p[1]] = Namespace[p[2]]

ServerInv == Typed /\ Reviewed /\ Bounded /\ Entitled

-----------------------------------------------------------------------------
\* A request that is under way has a token and an instance, and its key is one.
LEMMA Underway ==
  ASSUME Typed, NEW r \in Requests, ~At(r, "none")
  PROVE  /\ request[r] \in OpenRequest
         /\ Key(r) \in AuthKeys
         /\ Key(r)[1] = request[r].token /\ Key(r)[2] = request[r].instance
  <1>1. request[r] \in OpenRequest
    BY DEF Typed, At, NoRequest
  <1> QED
    BY <1>1 DEF Key, AuthKeys, AuthKey, OpenRequest

\* The next state of a request that goes on.
LEMMA GoesOn ==
  ASSUME Typed, NEW r \in Requests, ~At(r, "none"), NEW a \in Steps,
         request' = [request EXCEPT ![r].at = a]
  PROVE  /\ request' \in [Requests -> OpenRequest \cup {NoRequest}]
         /\ request'[r] = [at |-> a, token |-> request[r].token, instance |-> request[r].instance]
         /\ \A s \in Requests \ {r} : request'[s] = request[s]
  <1>1. request[r] \in OpenRequest /\ request \in [Requests -> OpenRequest \cup {NoRequest}]
    BY Underway DEF Typed
  <1>2. [request[r] EXCEPT !.at = a] =
          [at |-> a, token |-> request[r].token, instance |-> request[r].instance]
    BY <1>1 DEF OpenRequest
  <1>3. [request[r] EXCEPT !.at = a] \in OpenRequest
    BY <1>1, <1>2 DEF OpenRequest
  <1> QED
    BY <1>1, <1>2, <1>3

\* The next state of a request that ends.
LEMMA Ends ==
  ASSUME Typed, NEW r \in Requests, request' = [request EXCEPT ![r] = NoRequest]
  PROVE  /\ request' \in [Requests -> OpenRequest \cup {NoRequest}]
         /\ request'[r] = NoRequest
         /\ \A s \in Requests \ {r} : request'[s] = request[s]
  BY DEF Typed

\* Requests whose at is neither "store" nor "accepted" keep Reviewed; so do
\* steps that move one request there with a token issued for its instance.
LEMMA ReviewedKept ==
  ASSUME Reviewed, NEW r \in Requests,
         \A s \in Requests \ {r} : request'[s] = request[s],
         \/ request'[r].at \notin {"store", "accepted"}
         \/ Issued(request'[r].token, request'[r].instance),
         \A k \in Cached' : Issued(k[1], k[2])
  PROVE  Reviewed'
  BY DEF Reviewed, At, Issued

\* A step that leaves the cache alone keeps its bound.
LEMMA BoundedKept ==
  ASSUME Bounded, UNCHANGED <<authCache, cacheSize>>
  PROVE  Bounded' /\ Cached' = Cached
  BY DEF Bounded, Cached

-----------------------------------------------------------------------------
\* The first look in the cache.
LEMMA RequestStep ==
  ASSUME ServerInv, NEW r \in Requests, NEW t \in Tokens, NEW i \in Instances, Request(r, t, i)
  PROVE  ServerInv'
  <1> DEFINE k == AuthKey(t, i)
             at == IF authCache[k] = 0 THEN "review"
                   ELSE IF clock < authCache[k] THEN "accepted" ELSE "expired"
             new == [at |-> at, token |-> t, instance |-> i]
  <1>1. Typed /\ Reviewed /\ Bounded /\ Entitled
    BY DEF ServerInv
  <1>2. /\ request' = [request EXCEPT ![r] = new]
        /\ UNCHANGED <<clock, authCache, cacheSize, answered>>
    BY DEF Request
  <1>3. k \in AuthKeys /\ k[1] = t /\ k[2] = i
    BY DEF AuthKeys, AuthKey
  <1>4. at \in Steps /\ (at = "accepted" => k \in Cached) /\ at # "store"
    BY <1>3 DEF Steps, Cached
  <1> HIDE DEF at, k
  <1>5. new \in OpenRequest
    BY <1>4 DEF OpenRequest
  <1>6. Typed' /\ request'[r] = new /\ \A s \in Requests \ {r} : request'[s] = request[s]
    BY <1>1, <1>2, <1>5 DEF Typed
  <1>7. Bounded' /\ Cached' = Cached
    BY <1>1, <1>2, BoundedKept
  <1>8. at = "accepted" => Issued(t, i)
    BY <1>1, <1>3, <1>4 DEF Reviewed
  <1>9. Reviewed'
    <2>1. \/ request'[r].at \notin {"store", "accepted"}
          \/ Issued(request'[r].token, request'[r].instance)
      BY <1>4, <1>6, <1>8
    <2>2. \A q \in Cached' : Issued(q[1], q[2])
      BY <1>1, <1>7 DEF Reviewed
    <2> QED
      BY <1>1, <1>6, <2>1, <2>2, ReviewedKept
  <1> QED
    BY <1>1, <1>2, <1>6, <1>7, <1>9 DEF ServerInv, Entitled, Issued

\* LoadAndDelete: the counter goes down with the entry or not at all.
LEMMA EvictStep ==
  ASSUME Settings, ServerInv, NEW r \in Requests, Evict(r)
  PROVE  ServerInv'
  <1> DEFINE k == Key(r)
  <1>1. Typed /\ Reviewed /\ Bounded /\ Entitled
    BY DEF ServerInv
  <1>2. /\ cacheSize' = IF k \in Cached THEN cacheSize - 1 ELSE cacheSize
        /\ authCache' = [authCache EXCEPT ![k] = 0]
        /\ request' = [request EXCEPT ![r].at = "review"]
        /\ UNCHANGED <<clock, answered>> /\ ~At(r, "none")
    BY DEF Evict, At
  <1>3. k \in AuthKeys
    BY <1>1, <1>2, Underway
  <1> HIDE DEF k
  <1>4. authCache' \in [AuthKeys -> Nat] /\ Cached' = Cached \ {k}
    <2>1. authCache \in [AuthKeys -> Nat] /\ authCache' = [authCache EXCEPT ![k] = 0]
      BY <1>1, <1>2, Zenon DEF Typed
    <2> QED
      BY <1>3, <2>1 DEF Cached
  <1>5. /\ request' \in [Requests -> OpenRequest \cup {NoRequest}]
        /\ request'[r].at = "review" /\ \A s \in Requests \ {r} : request'[s] = request[s]
    <2>1. /\ request' \in [Requests -> OpenRequest \cup {NoRequest}]
          /\ request'[r] = [at |-> "review", token |-> request[r].token,
                            instance |-> request[r].instance]
          /\ \A s \in Requests \ {r} : request'[s] = request[s]
      BY <1>1, <1>2, GoesOn, Zenon DEF Steps
    <2> QED
      BY <2>1
  <1>6. Bounded' /\ cacheSize' \in Nat
    <2>1. /\ IsFiniteSet(Cached \ {k})
          /\ Cardinality(Cached \ {k}) =
               IF k \in Cached THEN Cardinality(Cached) - 1 ELSE Cardinality(Cached)
      BY <1>1, FS_RemoveElement DEF Bounded
    <2>2. Cardinality(Cached) \in Nat /\ (k \in Cached => Cardinality(Cached) # 0)
      BY <1>1, FS_CardinalityType, FS_EmptySet DEF Bounded
    <2>3. /\ Cardinality(Cached) <= cacheSize /\ cacheSize <= MaxAuthCacheSize
          /\ cacheSize \in Nat /\ MaxAuthCacheSize \in Nat
      BY <1>1 DEF Bounded, Typed, Settings
    <2>4. /\ cacheSize' \in Nat /\ cacheSize' <= MaxAuthCacheSize
          /\ Cardinality(Cached \ {k}) <= cacheSize'
      BY <1>2, <2>1, <2>2, <2>3
    <2> QED
      BY <1>4, <2>1, <2>4, Zenon DEF Bounded
  <1>7. Reviewed'
    <2>1. \A q \in Cached' : Issued(q[1], q[2])
      BY <1>1, <1>4 DEF Reviewed
    <2> QED
      BY <1>1, <1>5, <2>1, ReviewedKept
  <1> QED
    BY <1>1, <1>2, <1>4, <1>5, <1>6, <1>7 DEF ServerInv, Typed, Entitled, Issued

\* A review lets a request on only if the token is issued for the instance.
LEMMA ReviewStep ==
  ASSUME ServerInv, NEW r \in Requests, Review(r)
  PROVE  ServerInv'
  <1>1. Typed /\ Reviewed /\ Bounded /\ Entitled
    BY DEF ServerInv
  <1>2. UNCHANGED <<clock, authCache, cacheSize, answered>> /\ ~At(r, "none")
    BY DEF Review, At
  <1>3. Bounded' /\ Cached' = Cached
    BY <1>1, <1>2, BoundedKept
  <1>4. /\ request' \in [Requests -> OpenRequest \cup {NoRequest}]
        /\ \A s \in Requests \ {r} : request'[s] = request[s]
        /\ \/ request'[r].at \notin {"store", "accepted"}
           \/ Issued(request'[r].token, request'[r].instance)
    <2>1. CASE /\ Audience[request[r].token] = request[r].instance
               /\ request' = [request EXCEPT ![r].at = "store"]
      <3>1. /\ request' \in [Requests -> OpenRequest \cup {NoRequest}]
            /\ request'[r] = [at |-> "store", token |-> request[r].token,
                              instance |-> request[r].instance]
            /\ \A s \in Requests \ {r} : request'[s] = request[s]
        BY <1>1, <1>2, <2>1, GoesOn, Zenon DEF Steps
      <3> QED
        BY <2>1, <3>1 DEF Issued
    <2>2. CASE request' = [request EXCEPT ![r] = NoRequest]
      <3>1. /\ request' \in [Requests -> OpenRequest \cup {NoRequest}] /\ request'[r] = NoRequest
            /\ \A s \in Requests \ {r} : request'[s] = request[s]
        BY <1>1, <2>2, Ends, Zenon
      <3>2. NoRequest.at \notin {"store", "accepted"}
        BY DEF NoRequest
      <3> QED
        BY <3>1, <3>2, Zenon
    <2> QED
      BY <2>1, <2>2 DEF Review
  <1>5. Reviewed'
    <2>1. \A q \in Cached' : Issued(q[1], q[2])
      BY <1>1, <1>3 DEF Reviewed
    <2> QED
      BY <1>1, <1>4, <2>1, ReviewedKept
  <1> QED
    BY <1>1, <1>2, <1>3, <1>4, <1>5 DEF ServerInv, Typed, Entitled, Issued

\* The locked end of Authenticate: what evictExpiredLocked removes is
\* discounted, and an entry is stored only below the limit.
LEMMA StoreStep ==
  ASSUME Settings, ServerInv, NEW r \in Requests, Store(r)
  PROVE  ServerInv'
  <1> DEFINE k == Key(r)
             size == cacheSize - Cardinality(Dropped)
             kept == [q \in AuthKeys |-> IF q \in Dropped THEN 0 ELSE authCache[q]]
             rest == Cached \ Dropped
  <1>1. Typed /\ Reviewed /\ Bounded /\ Entitled
    BY DEF ServerInv
  <1>2. /\ \/ /\ size < MaxAuthCacheSize
              /\ authCache' = [kept EXCEPT ![k] = clock + AuthTTL]
              /\ cacheSize' = size + 1
           \/ authCache' = kept /\ cacheSize' = size
        /\ request' = [request EXCEPT ![r].at = "accepted"]
        /\ UNCHANGED <<clock, answered>> /\ ~At(r, "none") /\ At(r, "store")
    BY DEF Store, At
  <1>3. /\ k \in AuthKeys /\ k[1] = request[r].token /\ k[2] = request[r].instance
        /\ Issued(k[1], k[2])
    BY <1>1, <1>2, Underway DEF Reviewed
  <1>4. Dropped \subseteq Cached
    BY DEF Dropped, Expired
  <1>5. /\ IsFiniteSet(Dropped) /\ IsFiniteSet(rest)
        /\ Cardinality(Dropped) \in Nat /\ Cardinality(rest) \in Nat
        /\ Cardinality(rest) = Cardinality(Cached) - Cardinality(Dropped)
    <2>1. IsFiniteSet(Cached) /\ IsFiniteSet(Dropped)
      BY <1>1, <1>4, FS_Subset DEF Bounded
    <2>2. /\ IsFiniteSet(rest)
          /\ Cardinality(rest) = Cardinality(Cached) - Cardinality(Cached \cap Dropped)
      BY <2>1, FS_Difference
    <2>3. Cached \cap Dropped = Dropped
      BY <1>4
    <2> QED
      BY <2>1, <2>2, <2>3, FS_CardinalityType, Zenon
  <1>6. size \in Nat /\ Cardinality(rest) <= size /\ size <= MaxAuthCacheSize
    <2>1. /\ Cardinality(Cached) <= cacheSize /\ cacheSize <= MaxAuthCacheSize
          /\ cacheSize \in Nat /\ MaxAuthCacheSize \in Nat
          /\ Cardinality(Cached) \in Nat
      BY <1>1, FS_CardinalityType DEF Bounded, Typed, Settings
    <2> HIDE DEF rest
    <2> QED
      BY <1>5, <2>1
  <1>7. kept \in [AuthKeys -> Nat] /\ {q \in AuthKeys : kept[q] # 0} = rest
    BY <1>1, <1>4 DEF Typed, Cached
  <1>8. clock + AuthTTL \in Nat \ {0}
    BY <1>1 DEF Typed, Settings
  <1> HIDE DEF k, size, kept
  <1>9. \/ Cached' = rest /\ cacheSize' = size
        \/ Cached' = rest \cup {k} /\ cacheSize' = size + 1 /\ size < MaxAuthCacheSize
    BY <1>2, <1>3, <1>7, <1>8 DEF Cached
  <1>10. authCache' \in [AuthKeys -> Nat]
    BY <1>2, <1>3, <1>7, <1>8
  <1>11. Bounded' /\ cacheSize' \in Nat
    <2>1. MaxAuthCacheSize \in Nat
      BY DEF Settings
    <2>2. /\ IsFiniteSet(rest \cup {k})
          /\ Cardinality(rest \cup {k}) =
               IF k \in rest THEN Cardinality(rest) ELSE Cardinality(rest) + 1
      BY <1>5, FS_AddElement, Zenon
    <2> HIDE DEF rest
    <2>3. IsFiniteSet(Cached') /\ Cardinality(Cached') <= cacheSize'
          /\ cacheSize' <= MaxAuthCacheSize /\ cacheSize' \in Nat
      BY <1>5, <1>6, <1>9, <2>1, <2>2
    <2> QED
      BY <2>3, Zenon DEF Bounded
  <1>12. Reviewed'
    <2>1. \A q \in Cached' : Issued(q[1], q[2])
      BY <1>1, <1>3, <1>9 DEF Reviewed
    <2>2. /\ request'[r] = [at |-> "accepted", token |-> request[r].token,
                            instance |-> request[r].instance]
          /\ \A s \in Requests \ {r} : request'[s] = request[s]
      BY <1>1, <1>2, GoesOn, Zenon DEF Steps
    <2>3. Issued(request'[r].token, request'[r].instance)
      BY <1>3, <2>2
    <2> QED
      BY <1>1, <2>1, <2>2, <2>3, ReviewedKept, Zenon
  <1>13. request' \in [Requests -> OpenRequest \cup {NoRequest}]
    BY <1>1, <1>2, GoesOn, Zenon DEF Steps
  <1> QED
    BY <1>1, <1>2, <1>10, <1>11, <1>12, <1>13 DEF ServerInv, Typed, Entitled, Issued

\* An answer goes to a token that passed the review and the namespace check.
LEMMA AnswerStep ==
  ASSUME ServerInv, NEW r \in Requests, Answer(r)
  PROVE  ServerInv'
  <1> DEFINE t == request[r].token
             i == request[r].instance
  <1>1. Typed /\ Reviewed /\ Bounded /\ Entitled
    BY DEF ServerInv
  <1>2. /\ answered' = IF Namespace[t] = Namespace[i] THEN answered \cup {<<t, i>>} ELSE answered
        /\ request' = [request EXCEPT ![r] = NoRequest]
        /\ UNCHANGED <<clock, authCache, cacheSize>> /\ At(r, "accepted")
    BY DEF Answer
  <1>3. Issued(t, i)
    BY <1>1, <1>2 DEF Reviewed
  <1> HIDE DEF t, i
  <1>4. Entitled'
    BY <1>1, <1>2, <1>3 DEF Entitled, Issued
  <1>5. Bounded' /\ Cached' = Cached
    BY <1>1, <1>2, BoundedKept
  <1>6. /\ request' \in [Requests -> OpenRequest \cup {NoRequest}] /\ request'[r] = NoRequest
        /\ \A s \in Requests \ {r} : request'[s] = request[s]
    BY <1>1, <1>2, Ends, Zenon
  <1>7. Reviewed'
    <2>1. \A q \in Cached' : Issued(q[1], q[2])
      BY <1>1, <1>5 DEF Reviewed
    <2>2. request'[r].at \notin {"store", "accepted"}
      BY <1>6 DEF NoRequest
    <2> QED
      BY <1>1, <1>6, <2>1, <2>2, ReviewedKept
  <1> QED
    BY <1>1, <1>2, <1>4, <1>5, <1>6, <1>7 DEF ServerInv, Typed

\* Every step of a request, and the clock, keep the invariant.
LEMMA ServerStep == ASSUME Settings PROVE ServerInv /\ [Next]_vars => ServerInv'
  <1> SUFFICES ASSUME ServerInv, [Next]_vars PROVE ServerInv'
    OBVIOUS
  <1>1. CASE UNCHANGED <<authCache, cacheSize, request, answered>> /\ clock' \in Nat \ {0}
    <2>1. Bounded' /\ Cached' = Cached
      BY <1>1, BoundedKept DEF ServerInv
    <2> QED
      BY <1>1, <2>1 DEF ServerInv, Typed, Reviewed, Entitled, At, Issued
  <1>2. CASE Tick
    BY <1>1, <1>2 DEF Tick, ServerInv, Typed
  <1>3. CASE UNCHANGED vars
    BY <1>1, <1>3 DEF vars, ServerInv, Typed
  <1> QED
    BY <1>2, <1>3, RequestStep, EvictStep, ReviewStep, StoreStep, AnswerStep, Zenon DEF Next

\* The cache starts empty.
LEMMA ServerInit == ASSUME Settings PROVE Init => ServerInv
  <1> SUFFICES ASSUME Init PROVE ServerInv
    OBVIOUS
  <1>1. Cached = {} /\ \A r \in Requests : request[r] = NoRequest
    BY DEF Init, Cached
  <1>2. Bounded
    BY <1>1, FS_EmptySet DEF Init, Bounded, Settings
  <1>3. Reviewed /\ Entitled
    BY <1>1 DEF Init, Reviewed, Entitled, At, NoRequest
  <1>4. Typed
    BY DEF Init, Typed
  <1> QED
    BY <1>2, <1>3, <1>4 DEF ServerInv

\* The review cache of TokenAuthenticator.Authenticate never holds more than
\* its maximum, although requests find, evict and store entries concurrently
\* and one entry may be counted twice; and an answer goes only to a token that
\* a TokenReview accepted for the very instance, in the instance's namespace.
THEOREM ReviewsSound == ASSUME Settings PROVE Spec => []ReviewCacheSound
  <1>1. ServerInv => ReviewCacheSound
    BY DEF ServerInv, Bounded, Entitled, Issued, ReviewCacheSound
  <1> QED
    BY <1>1, ServerInit, ServerStep, PTL DEF Spec
=============================================================================
