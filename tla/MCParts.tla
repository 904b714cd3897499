------------------------------ MODULE MCParts ------------------------------
(***************************************************************************)
(* The parts of the operator that share no state with each other, side by  *)
(* side: the snapshot store, token authentication, the TLS listener, the   *)
(* legacy rule cache and its server, rendering, and rule validation.  Each *)
(* behaviour runs one of them and leaves the others in an initial state.   *)
(***************************************************************************)
EXTENDS SnapshotStore, TLC

VARIABLES part

VARIABLES clock, buckets, lastSweep, reviews, call, calls, accepted
authVars == <<clock, buckets, lastSweep, reviews, call, calls, accepted>>

VARIABLES alive, bound, open, backlog, conn, tracked, http1, stop, closing, mounted, loaded
listenerVars == <<alive, bound, open, backlog, conn, tracked, http1, stop, closing,
                  mounted, loaded>>

VARIABLES entries, latest, totalSize, totalEntries, puts, cacheClock, gc
cacheVars == <<entries, latest, totalSize, totalEntries, puts, cacheClock, gc>>

VARIABLES serverClock, authCache, cacheSize, request, requests, answered
serverVars == <<serverClock, authCache, cacheSize, request, requests, answered>>

VARIABLES source, data, ruleset, engine, uids, changes, log
renderingVars == <<source, data, ruleset, engine, uids, changes, log>>

VARIABLES input, verdict
textVars == <<input, verdict>>

vars == <<part, storeVars, authVars, listenerVars, cacheVars, serverVars, renderingVars, textVars>>

Auth == INSTANCE Authentication WITH
  cache <- reviews, Attempts <- {"a1", "a2"}, Peers <- {"p"}, Unknown <- "unknown",
  Tokens <- {"k"}, Expiry <- [k \in {"k"} |-> 3], Rate <- 1, Burst <- 1, MaxBuckets <- 1,
  IdleTTL <- 2, SweepPeriod <- 1, CacheTTL <- 2, Minute <- 1, MaxDelay <- 1, MaxTime <- 3,
  MaxCalls <- 3

\* The instance is one the theorems about Authentication cover.
ASSUME AuthParameters == Auth!Parameters /\ Auth!Refills

Lis == INSTANCE Listener WITH
  Proxies <- {"p", "q"}, Fetchers <- {"f"}, H2Fetchers <- {"h"}, MaxStreams <- 1, QueueCapacity <- 1

Cac == INSTANCE RuleSetCache WITH
  clock <- cacheClock, Instances <- {"i1", "i2"}, Sizes <- {1, 2}, MaxAge <- 1, MaxSize <- 2,
  MaxPuts <- 3, MaxClock <- 2

\* The account of t2 is of another namespace.
Ser == INSTANCE RuleServer WITH
  clock <- serverClock, Requests <- {"r1", "r2"}, Tokens <- {"t1", "t2"}, Instances <- {"i1", "i2"},
  Audience <- [t1 |-> "i1", t2 |-> "i2"],
  Namespace <- [t1 |-> "n", t2 |-> "m", i1 |-> "n", i2 |-> "n"],
  AuthTTL <- 1, MaxAuthCacheSize <- 2, MaxClock <- 4, MaxRequests <- 4

\* The instance is one the theorem about RuleServer covers.
ASSUME ServerSettings == Ser!Settings

Ren == INSTANCE Rendering WITH
  Texts <- {<<"">>, <<"SecRule", "Include crs">>, <<"SecRule">>, <<"@pmFromFile">>},
  FileSets <- {"list.data" :> 1, "list.data" :> 2, "crs-setup.conf.example" :> 1},
  Sources <- {"s", "t"}, RuleData <- {"d", "e"},
  SourceLists <- {<<"s">>, <<"s", "t">>, <<"t", "t">>}, DataLists <- {<<>>, <<"d", "e">>},
  Refused <- None, MaxChanges <- 2

Directives(op, args) == {[op |-> op, arg |-> a] : a \in args}
Includes == Directives("include", {"f", "g"})

\* Body limits, tuning of the CRS, and refused directives, each with includes.
Txt == INSTANCE RuleText WITH
  Vocabularies <- {Includes \cup Directives("access", {"On", "Off"}) \cup Directives("limit", {"1"}),
                   Includes \cup Directives("crs", {""}) \cup Directives("update", {1, 2})
                            \cup Directives("rule", {1, 2}),
                   Includes \cup Directives("refused", {""}) \cup Directives("rule", {1})},
  RuleData <- {"f", "g"}, CrsIds <- {1}, MaxRules <- 3, MaxFile <- 1

Parts == {"store", "authentication", "listener", "cache", "server", "rendering", "text"}

\* A part that does not run has one initial state.
Init == /\ part \in Parts
        /\ StoreInit /\ Auth!Init /\ Cac!Init /\ Ser!Init
        /\ Lis!Init /\ (part # "listener" => ~mounted)
        /\ IF part = "rendering" THEN Ren!Init
           ELSE /\ source = <<>> /\ data = <<>> /\ ruleset = None /\ engine = None
                /\ uids = 0 /\ changes = 0 /\ log = {}
        /\ IF part = "text" THEN Txt!Init
           ELSE input = None /\ verdict = "none"

\* The named part runs.
Running(p) == part = p /\ UNCHANGED part

Store == /\ Running("store") /\ StoreNext
         /\ UNCHANGED <<authVars, listenerVars, cacheVars, serverVars, renderingVars, textVars>>
Authentication == /\ Running("authentication") /\ Auth!Next
                  /\ UNCHANGED <<storeVars, listenerVars, cacheVars, serverVars, renderingVars, textVars>>
Listener == /\ Running("listener") /\ Lis!Next
            /\ UNCHANGED <<storeVars, authVars, cacheVars, serverVars, renderingVars, textVars>>
RuleSetCache == /\ Running("cache") /\ Cac!Next
                /\ UNCHANGED <<storeVars, authVars, listenerVars, serverVars, renderingVars, textVars>>
RuleServer == /\ Running("server") /\ Ser!Next
              /\ UNCHANGED <<storeVars, authVars, listenerVars, cacheVars, renderingVars, textVars>>
Rendering == /\ Running("rendering") /\ Ren!Next
             /\ UNCHANGED <<storeVars, authVars, listenerVars, cacheVars, serverVars, textVars>>
RuleText == /\ Running("text") /\ Txt!Next
            /\ UNCHANGED <<storeVars, authVars, listenerVars, cacheVars, serverVars, renderingVars>>

Next == \/ Store \/ Authentication \/ Listener \/ RuleSetCache \/ RuleServer
        \/ Rendering \/ RuleText

\* The listener is the one part whose property needs its goroutines to run.
Spec == Init /\ [][Next]_vars /\ Lis!Fairness

----------------------------------------------------------------------------
(* The properties of the parts                                             *)

\* A permit of the failure limiter guarantees a token to consume (reserve and
\* finish in auth_limiter.go).
PermitHonoured == Auth!PermitHonoured

\* The idle sweep forgives no failure (sweepIdleLocked).
SweepForgivesNothing == Auth!SweepForgivesNothing

\* A cached identity is backed by a recent TokenReview (Authenticate).
HitBacked == Auth!HitBacked

\* Streams do not starve asset fetches (LimitListener in listener.go).
AssetsServed == Lis!AssetsServed

\* The collector removes garbage, all of it and nothing else (rungc).
GarbageOnly == Cac!GarbageOnly

\* Cached reviews are bounded and kept apart by audience (cache/auth.go).
ReviewCacheSound == Ser!ReviewCacheSound

\* Fingerprints and versions identify what they stand for (Fingerprint,
\* engineVersion).
Identified == Ren!Identified

\* The record of an acceptance reproduces exactly what was accepted (Render,
\* Matches).
RecordReproduces == Ren!RecordReproduces

\* Validation accepts what the module can load (validateAggregatedRules).
ValidationExact == part = "text" => Txt!ValidationExact
=============================================================================
