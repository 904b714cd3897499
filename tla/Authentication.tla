--------------------------- MODULE Authentication ---------------------------
(***************************************************************************)
(* Token authentication of ECDS streams: the cache of successful           *)
(* TokenReviews, and the limiter that gives every peer address a bucket of *)
(* failures.  An attempt holds a provisional permit while its TokenReview  *)
(* runs and consumes a token of the bucket only if the review rejects it.  *)
(*                                                                         *)
(* Attempts run concurrently.  Each reads the clock before it takes the    *)
(* limiter's lock, so locked sections may run out of clock order.  A tick  *)
(* of the clock refills Rate tokens.                                       *)
(***************************************************************************)
EXTENDS Integers, Sequences, FiniteSets

CONSTANTS Attempts,     \* goroutines that authenticate or revalidate
          Peers,        \* remote addresses
          Unknown,      \* the key of peers without an address and of overflow
          Tokens,       \* bearer tokens
          Expiry,       \* Expiry[k]: exp of token k, or None when unparseable
          None,
          Rate, Burst,  \* of the token buckets
          MaxBuckets, IdleTTL, SweepPeriod,
          CacheTTL,     \* min(configured lifetime, stream lifetime)
          Minute,       \* the margin before exp, the lifetime without one
          MaxDelay,     \* bound: ticks between reading the clock and its use
          MaxTime, MaxCalls  \* bounds

Keys == Peers \cup {Unknown}

VARIABLES
  clock,
  buckets,    \* buckets[k]: the failure bucket of key k, or None
  lastSweep,  \* time of the last idle sweep, or None
  cache,      \* cache[k]: expiresAt of the identity cached for token k, or None
  call,       \* call[a]: what attempt a is doing
  calls,
  accepted    \* history: when a TokenReview last accepted the token, or None

vars == <<clock, buckets, lastSweep, cache, call, calls, accepted>>

\* pend holds the attempts with a permit, oldest first; the code keeps its
\* length.  tokens and last are the state of the rate limiter.
NewBucket == [tokens |-> Burst, last |-> 0, pend |-> <<>>, lastSeen |-> 0]

\* t is the clock it read for its next step, reserved that of its permit.
Idle == [at |-> "idle", peer |-> Unknown, token |-> None, key |-> None, t |-> 0,
         reserved |-> 0, result |-> "none"]

Init == /\ clock = 0
        /\ buckets = [k \in Keys |-> None]
        /\ lastSweep = None
        /\ cache = [k \in Tokens |-> None]
        /\ call = [a \in Attempts |-> Idle]
        /\ calls = 0
        /\ accepted = [k \in Tokens |-> None]

At(a, step) == call[a].at = step

\* A step of an attempt that holds a clock reading happens within MaxDelay.
Timed == {"sweep", "reserve", "finish", "store"}

Tick == /\ clock < MaxTime
        /\ \A a \in Attempts : call[a].at \in Timed => clock - call[a].t < MaxDelay
        /\ clock' = clock + 1
        /\ UNCHANGED <<buckets, lastSweep, cache, call, calls, accepted>>

----------------------------------------------------------------------------
(* The limiter                                                             *)

Lesser(m, n) == IF m < n THEN m ELSE n

\* rate.Limiter: a reading before last adds nothing, and AllowN moves last to
\* its own reading.
TokensAt(b, t) == Lesser(Burst, b.tokens + Rate * (IF t > b.last THEN t - b.last ELSE 0))
AllowN(b, t) == IF TokensAt(b, t) < 1 THEN b
                ELSE [b EXCEPT !.tokens = TokensAt(b, t) - 1, !.last = t]

\* Fault: a bucket with attempts under review is dropped as well.
IdleBucketPending(b, t) == t - b.lastSeen >= IdleTTL

IdleBucket(b, t) == b.pend = <<>> /\ t - b.lastSeen >= IdleTTL

SweepDue(t) == lastSweep = None \/ t - lastSweep >= SweepPeriod

\* sweepIdleLocked.
Swept(t) == [k \in Keys |-> IF buckets[k] # None /\ SweepDue(t) /\ IdleBucket(buckets[k], t)
                            THEN None ELSE buckets[k]]
SweepTime(t) == IF SweepDue(t) THEN t ELSE lastSweep

\* Beyond the cap a new peer shares the overflow bucket.
BucketKey(bs, peer) ==
  IF bs[peer] = None /\ Cardinality({k \in Keys : bs[k] # None}) >= MaxBuckets
  THEN Unknown ELSE peer

Granted(b, t) == TokensAt(b, t) - Len(b.pend) >= 1

Without(s, i) == [j \in 1..(Len(s) - 1) |-> IF j < i THEN s[j] ELSE s[j + 1]]

----------------------------------------------------------------------------
(* Authenticate and Revalidate                                             *)

\* Authenticate is called, and looks in the cache.
Authenticate(a, p, k) ==
  LET at == IF cache[k] = None THEN "reserve"
            ELSE IF clock < cache[k] THEN "sweep" ELSE "expired"
  IN /\ At(a, "idle")
     /\ calls < MaxCalls
     /\ calls' = calls + 1
     /\ call' = [call EXCEPT ![a] = [Idle EXCEPT !.at = at, !.peer = p, !.token = k,
                                                 !.t = clock]]
     /\ UNCHANGED <<clock, buckets, lastSweep, cache, accepted>>

\* The periodic revalidation of a stream goes straight to the review.
Revalidate(a, k) ==
  /\ At(a, "idle")
  /\ accepted[k] # None
  /\ calls < MaxCalls
  /\ calls' = calls + 1
  /\ call' = [call EXCEPT ![a] = [Idle EXCEPT !.at = "review", !.token = k]]
  /\ UNCHANGED <<clock, buckets, lastSweep, cache, accepted>>

\* A cached identity was returned.
CacheHit(a) == /\ At(a, "sweep")
               /\ buckets' = Swept(call[a].t)
               /\ lastSweep' = SweepTime(call[a].t)
               /\ call' = [call EXCEPT ![a] = Idle]
               /\ UNCHANGED <<clock, cache, calls, accepted>>

\* Another attempt may have stored a fresh entry meanwhile.
DropExpired(a) == /\ At(a, "expired")
                  /\ cache' = [cache EXCEPT ![call[a].token] = None]
                  /\ call' = [call EXCEPT ![a].at = "reserve", ![a].t = clock]
                  /\ UNCHANGED <<clock, buckets, lastSweep, calls, accepted>>

\* reserve.
Reserve(a) ==
  LET t == call[a].t
      k == BucketKey(Swept(t), call[a].peer)
      old == IF Swept(t)[k] = None THEN NewBucket ELSE Swept(t)[k]
      b == [old EXCEPT !.lastSeen = t]
  IN /\ At(a, "reserve")
     /\ lastSweep' = SweepTime(t)
     /\ IF Granted(b, t)
        THEN /\ buckets' = [Swept(t) EXCEPT ![k] = [b EXCEPT !.pend = Append(@, a)]]
             /\ call' = [call EXCEPT ![a].at = "review", ![a].key = k, ![a].reserved = t]
        ELSE /\ buckets' = [Swept(t) EXCEPT ![k] = b]
             /\ call' = [call EXCEPT ![a] = Idle]
     /\ UNCHANGED <<clock, cache, calls, accepted>>

Expired(k) == Expiry[k] # None /\ clock >= Expiry[k]

\* TokenReview, with its retries: an error, a rejection (the account may be
\* gone) or an identity.
Review(a) ==
  LET k == call[a].token IN
  /\ At(a, "review")
  /\ \E result \in {"error", "rejected"} \cup (IF Expired(k) THEN {} ELSE {"ok"}) :
       /\ call' = [call EXCEPT ![a].at = "finish", ![a].t = clock, ![a].result = result]
       /\ accepted' = [accepted EXCEPT ![k] = IF result = "ok" THEN clock ELSE @]
  /\ UNCHANGED <<clock, buckets, lastSweep, cache, calls>>

\* Fault: a bucket does not count as used when an attempt ends.
SettledUnseen(b, a, t) ==
  LET i == CHOOSE i \in 1..Len(b.pend) : b.pend[i] = a
      c == IF call[a].result = "rejected" THEN AllowN(b, t) ELSE b
  IN [c EXCEPT !.pend = Without(@, i)]

\* The permit is returned, and a token consumed for a rejection.
Settled(b, a, t) ==
  LET i == CHOOSE i \in 1..Len(b.pend) : b.pend[i] = a
      c == IF call[a].result = "rejected" THEN AllowN(b, t) ELSE b
  IN [c EXCEPT !.pend = Without(@, i), !.lastSeen = t]

\* finish, of an attempt that has a reservation; after it the clock is read for
\* the lifetime of a cache entry.
Finish(a) ==
  LET k == call[a].key IN
  /\ At(a, "finish")
  /\ buckets' = IF k = None THEN buckets
                ELSE [buckets EXCEPT ![k] = Settled(@, a, call[a].t)]
  /\ call' = [call EXCEPT ![a] = IF call[a].result = "ok"
                                 THEN [@ EXCEPT !.at = "store", !.key = None, !.t = clock]
                                 ELSE Idle]
  /\ UNCHANGED <<clock, lastSweep, cache, calls, accepted>>

\* Fault: exp of the token is not considered.
cacheLifetimeNoExpiry(k, t) == CacheTTL

cacheLifetime(k, t) == IF Expiry[k] = None THEN Lesser(CacheTTL, Minute)
                       ELSE Lesser(CacheTTL, Expiry[k] - t - Minute)

\* storeCachedIdentity and sweepExpired: the lifetime counts from a second
\* reading of the clock.
Store(a) ==
  LET k == call[a].token
      ttl == cacheLifetime(k, call[a].t)
      kept == [j \in Tokens |-> IF cache[j] # None /\ clock >= cache[j] THEN None ELSE cache[j]]
  IN /\ At(a, "store")
     /\ cache' = IF ttl <= 0 THEN cache ELSE [kept EXCEPT ![k] = clock + ttl]
     /\ call' = [call EXCEPT ![a] = Idle]
     /\ UNCHANGED <<clock, buckets, lastSweep, calls, accepted>>

Next == \/ Tick
        \/ \E a \in Attempts :
             \/ \E p \in Keys, k \in Tokens : Authenticate(a, p, k)
             \/ \E k \in Tokens : Revalidate(a, k)
             \/ CacheHit(a) \/ DropExpired(a) \/ Reserve(a) \/ Review(a)
             \/ Finish(a) \/ Store(a)

Spec == Init /\ [][Next]_vars

----------------------------------------------------------------------------
(* Properties                                                              *)

Steps == {"idle", "sweep", "expired", "reserve", "review", "finish", "store"}
Buckets == [tokens : Int, last : Nat, pend : Seq(Attempts), lastSeen : Nat]

\* The type of the state.
AuthenticationTypeOK ==
  /\ clock \in Nat
  /\ buckets \in [Keys -> Buckets \cup {None}]
  /\ lastSweep \in Nat \cup {None}
  /\ cache \in [Tokens -> Nat \cup {None}]
  /\ call \in [Attempts -> [at : Steps, peer : Keys, token : Tokens \cup {None},
                            key : Keys \cup {None}, t : Nat, reserved : Nat,
                            result : {"none", "ok", "error", "rejected"}]]
  /\ accepted \in [Tokens -> Nat \cup {None}]

\* The parameters are of their types.
Parameters == /\ Rate \in Nat /\ Burst \in Nat /\ IdleTTL \in Nat /\ MaxDelay \in Nat
              /\ CacheTTL \in Nat /\ Minute \in Nat
              /\ Expiry \in [Tokens -> Nat \cup {None}]
              /\ None \notin Int /\ None \notin Keys /\ None \notin Buckets

\* A bucket that stays idle refills before it is dropped.  The defaults of the
\* flags are such; validation does not require it of other values.
Refills == MaxDelay <= IdleTTL /\ Rate * (IdleTTL - MaxDelay) >= Burst

\* A permit guarantees a token: whatever other attempts of the peer reserved,
\* failed or were swept meanwhile, and in whatever order they took the lock,
\* an attempt that fails still finds its bucket and a token to consume.
PermitHonoured ==
  \A a \in Attempts : At(a, "finish") /\ call[a].key # None =>
     /\ buckets[call[a].key] # None
     /\ \E i \in DOMAIN buckets[call[a].key].pend : buckets[call[a].key].pend[i] = a
     /\ TokensAt(buckets[call[a].key], call[a].t) >= 1

\* The idle sweep forgives nothing: a bucket it drops has refilled, so the
\* fresh one that replaces it grants no failure the old one would not.
SweepForgivesNothing ==
  [][\A k \in Keys : buckets[k] # None /\ buckets'[k] = None =>
        TokensAt(buckets[k], clock) >= Burst]_vars

\* An answer from the cache is backed by a TokenReview that accepted this
\* token no longer than the cache lifetime ago, and the token is about a minute
\* short of its expiry, up to the time that passes between the readings of the
\* clock before and after finish and in storeCachedIdentity.
HitBacked ==
  \A a \in Attempts : At(a, "sweep") =>
     LET k == call[a].token IN
     /\ accepted[k] # None
     /\ call[a].t < accepted[k] + 2 * MaxDelay + CacheTTL
     /\ Expiry[k] # None => call[a].t + Minute < Expiry[k] + MaxDelay
=============================================================================
