----------------------------- MODULE RuleServer -----------------------------
(***************************************************************************)
(* Authentication of requests to the legacy rule server: a cache of        *)
(* successful TokenReviews, which concurrent requests read without a lock  *)
(* and change under one, and the counter that bounds it.                   *)
(***************************************************************************)
EXTENDS Naturals, FiniteSets

CONSTANTS Requests,    \* request goroutines
          Tokens, Instances,
          Audience,    \* Audience[t]: the instance token t is issued for
          Namespace,   \* of the tokens' accounts and of the instances
          AuthTTL, MaxAuthCacheSize,
          MaxClock, MaxRequests  \* bounds

VARIABLES
  clock,
  authCache,  \* authCache[k]: when the result cached under key k expires, or 0
  cacheSize,
  request,    \* request[r]: what goroutine r is doing
  requests,   \* the number of requests so far
  answered    \* history: the pairs of token and instance that were answered

vars == <<clock, authCache, cacheSize, request, requests, answered>>

\* The cache key, of token and audience.
AuthKey(t, i) == <<t, i>>

AuthKeys == {AuthKey(t, i) : t \in Tokens, i \in Instances}
Cached == {k \in AuthKeys : authCache[k] # 0}
NoRequest == [at |-> "none"]

Init == /\ clock = 1
        /\ authCache = [k \in AuthKeys |-> 0]
        /\ cacheSize = 0
        /\ request = [r \in Requests |-> NoRequest]
        /\ requests = 0
        /\ answered = {}

Tick == /\ clock < MaxClock
        /\ clock' = clock + 1
        /\ UNCHANGED <<authCache, cacheSize, request, requests, answered>>

At(r, step) == request[r].at = step
Key(r) == AuthKey(request[r].token, request[r].instance)

\* handleRules, up to the look in the cache.
Request(r, t, i) ==
  LET expires == authCache[AuthKey(t, i)]
      at == IF expires = 0 THEN "review" ELSE IF clock < expires THEN "accepted" ELSE "expired"
  IN /\ At(r, "none")
     /\ requests < MaxRequests
     /\ requests' = requests + 1
     /\ request' = [request EXCEPT ![r] = [at |-> at, token |-> t, instance |-> i]]
     /\ UNCHANGED <<clock, authCache, cacheSize, answered>>

\* Fault: the counter is lowered though another request removed the entry.
EvictAlways(r) ==
  /\ At(r, "expired")
  /\ cacheSize' = cacheSize - 1
  /\ authCache' = [authCache EXCEPT ![Key(r)] = 0]
  /\ request' = [request EXCEPT ![r].at = "review"]
  /\ UNCHANGED <<clock, requests, answered>>

\* LoadAndDelete of an entry seen expired.
Evict(r) ==
  /\ At(r, "expired")
  /\ cacheSize' = IF Key(r) \in Cached THEN cacheSize - 1 ELSE cacheSize
  /\ authCache' = [authCache EXCEPT ![Key(r)] = 0]
  /\ request' = [request EXCEPT ![r].at = "review"]
  /\ UNCHANGED <<clock, requests, answered>>

\* TokenReview with the audience of the instance; a failure is a 403.
Review(r) ==
  /\ At(r, "review")
  /\ \/ /\ Audience[request[r].token] = request[r].instance
        /\ request' = [request EXCEPT ![r].at = "store"]
     \/ request' = [request EXCEPT ![r] = NoRequest]
  /\ UNCHANGED <<clock, authCache, cacheSize, requests, answered>>

\* evictExpiredLocked.
Expired == {k \in Cached : clock > authCache[k]}
NearlyFull == cacheSize >= (MaxAuthCacheSize * 9) \div 10
Dropped == IF NearlyFull THEN Expired ELSE {}

\* The locked end of TokenAuthenticator.Authenticate.  A second miss on the
\* same key stores over the entry of the first and counts it again.
Store(r) ==
  LET size == cacheSize - Cardinality(Dropped)
      kept == [k \in AuthKeys |-> IF k \in Dropped THEN 0 ELSE authCache[k]]
  IN /\ At(r, "store")
     /\ IF size < MaxAuthCacheSize
        THEN /\ authCache' = [kept EXCEPT ![Key(r)] = clock + AuthTTL]
             /\ cacheSize' = size + 1
        ELSE authCache' = kept /\ cacheSize' = size
     /\ request' = [request EXCEPT ![r].at = "accepted"]
     /\ UNCHANGED <<clock, requests, answered>>

\* The rest of authenticateRequest, and the answer.
Answer(r) ==
  LET t == request[r].token  i == request[r].instance IN
  /\ At(r, "accepted")
  /\ answered' = IF Namespace[t] = Namespace[i] THEN answered \cup {<<t, i>>} ELSE answered
  /\ request' = [request EXCEPT ![r] = NoRequest]
  /\ UNCHANGED <<clock, authCache, cacheSize, requests>>

Next == \/ Tick
        \/ \E r \in Requests : \/ \E t \in Tokens, i \in Instances : Request(r, t, i)
                               \/ Evict(r) \/ Review(r) \/ Store(r) \/ Answer(r)

Spec == Init /\ [][Next]_vars

----------------------------------------------------------------------------
(* Properties                                                              *)

\* The types of the settings: a lifetime and a size.
Settings == AuthTTL \in Nat /\ MaxAuthCacheSize \in Nat

\* The cache of reviews stays within its limit although its counter drifts,
\* since the counter never falls below the number of entries; and an answer
\* that rests on a cached review still goes to a token that was issued for the
\* instance, of an account of its namespace.
ReviewCacheSound ==
  /\ Cardinality(Cached) <= cacheSize /\ cacheSize <= MaxAuthCacheSize
  /\ \A p \in answered : Audience[p[1]] = p[2] /\ Namespace[p[1]] = Namespace[p[2]]
=============================================================================
