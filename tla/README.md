# Verification of the Coraza Kubernetes Operator

TLA+ modules that model how the operator accepts, renders, publishes and serves
WAF rules, TLC configurations that check them on small instances, and TLAPS
proofs, for instances of any size, of safety properties of the snapshot store,
the ECDS streams, token authentication, the authorization index, the RuleSet,
Engine and publication controllers and the legacy rule server. Paths below are
relative to the repository.

## The system

The operator turns `Engine`, `RuleSet`, `RuleSource` and `RuleData` resources
into configuration of the WAF filter in Istio gateways.

| Part | Source | State | Operations that change it |
|---|---|---|---|
| RuleSource controller | `internal/controller/rulesource_controller.go` | status conditions | validate one source |
| RuleSet controller | `ruleset_controller*.go`, `ruleset_inputs.go` | accepted content (hash, generation), conditions | load inputs, validate, re-check the inputs, accept |
| Engine controller | `engine_controller*.go` | accepted configuration, conditions, provisioned objects | target check, provision, accept, withdraw |
| Publication controller | `publication_controller.go` | remembered inputs and mismatches per replica | refresh authorization, reconstruct, publish, forget |
| Readiness | `internal/xds/readyz.go` | pending records, deadline | Initialize, RecordSuccess, RecordFailure, Check |
| Assembly and rendering | `internal/rulesets/assemble`, `internal/ecds/render` | none | pure |
| Rule validation | `internal/rulesets/validation` | none | pure |
| Snapshot store | `internal/xds/store.go` | snapshots per Engine and per proxy, indexes, reference counts | Replace, BumpRejected, BindRejectedRetry, AckRejected, ReleaseRejectedRetry, DeleteEngine |
| Authorization index | `internal/xds/authorize.go` | entries, known names, revocation counters | Refresh, RefreshAll, RevokeAndNotify, RevokeEngine, expireIfStale |
| Stream registry | `internal/xds/auth.go` | sessions and their resources | register, SetResource, RevokeResource, ResetStream, revalidateAll, Unregister |
| ECDS server | `internal/xds/server.go` | one entry per stream, retry timers | open, request (subscription, ACK, NACK), response, retry, close |
| Token authentication | `internal/xds/auth.go`, `auth_limiter.go` | identity cache, failure buckets | Authenticate, Revalidate, reserve, finish, sweep |
| Listener | `internal/xds/listener.go` | bound, ready, connections | accept, dispatch, shutdown |
| RuleSet cache and server | `internal/rulesets/cache` | versions per instance, review cache | Put, Delete, garbage collection, requests |

A leader accepts content and records it in status. Every replica reconstructs
what was accepted, publishes it in its own store, authorizes the
ServiceAccounts of the Gateway's pods and serves the snapshot on ECDS streams.
A proxy that rejects a configuration is offered the same content again under a
derived version (`v.retryN`).

The cache and HTTP server for rules are the older way of distribution and
dormant: `main.go` registers no rule server (lines 413-414) and nothing fills the
cache (lines 229-230). The package is retained with its tests, and its models are
kept for the same reason. What `GarbageOnly` and `ReviewCacheSound` say is about
the package, and no hazard of the running operator is behind them.

What makes this hard: controllers work on cached objects that may lag behind
their own writes, and write status with patches computed from them; inputs are
read one by one while users edit, delete and recreate them; every replica must
rebuild exactly what the leader accepted, after restarts and upgrades; the
goroutine of a stream, the retry timers, the publication reconciler and the
revalidation pass interleave at several locks, none of which covers an
operation from end to end; connections break at any moment.

What must hold: only accepted and current content is served; a gateway is not
opened before its WAF was accepted; a stream ends when its grant ends; a
published configuration reaches every authorized proxy, and a rejected one is
retried until it is applied; everything settles once nothing changes any more;
nothing accumulates.

## Modules

| Module | Models | Checked by |
|---|---|---|
| `SnapshotStore` | `store.go`, one action per exported method that changes state | `parts`, proofs in `StoreProofs` |
| `EcdsStreams` | `server.go` and the stream registry on top of `SnapshotStore` | `streams`, `delivery`, `retry`, `late_release`, `dropped_retry`, proofs in `StreamsProofs` |
| `AuthzIndex` | `authorize.go` with its two writers and the sessions | `authz`, `lost_grant`, proofs in `AuthzProofs` |
| `AuthzHistory` | `AuthzIndex` with a history variable | `resurrection` |
| `RuleSetAcceptance` | the RuleSet and RuleSource controllers | `acceptance`, proofs in `AcceptanceProofs` |
| `EngineController` | the Engine controller and what it provisions | `engine`, proofs in `EngineProofs` |
| `Publication` | the publication controller and the readiness gate, per replica | `publication`, proofs in `PublicationProofs` |
| `EcdsServing` | abstract specification: what a replica may serve | `publication` (`Serves`), `PublicationProofs` |
| `Rendering` | assembly, hashing, rendering and the accepted record | `parts` |
| `RuleText` | validation of rule text and of the files it includes | `parts` |
| `Authentication` | token cache and failure limiter | `parts`, proofs in `AuthenticationProofs` |
| `Listener` | TLS listener | `parts` |
| `RuleSetCache`, `RuleServer` | rule cache with its collector; authentication of its server | `parts`, proofs in `RuleServerProofs` |
| `StoreProofs` | theorems about `SnapshotStore` | tlapm |
| `StreamsProofs` | theorems about `EcdsStreams` | tlapm |
| `PublicationProofs` | theorems about `Publication` | tlapm |
| `AuthenticationProofs` | theorems about `Authentication` | tlapm |
| `AuthzProofs` | theorems about `AuthzIndex` | tlapm |
| `AcceptanceProofs` | theorems about `RuleSetAcceptance` | tlapm |
| `EngineProofs` | theorems about `EngineController` | tlapm |
| `RuleServerProofs` | theorem about `RuleServer` | tlapm |

`MCParts` puts the components that share no state side by side; a behaviour
runs one of them. The other `MC` modules add what TLC needs for one module.

### SnapshotStore

`cache`, `meta`, `resources`, `proxies` and `byEngine` are the maps of
`SnapshotStore`; every method runs under its mutex, so it is one action. A
version string is the record of what `retryBase` and `retryAttempt` read from
it. Sequence numbers are only compared within one Engine; `before` keeps their
order. The run lets any caller call anything, so what it shows does not depend
on how the server uses the store.

### EcdsStreams

`conn[s]` is a `serverStream` with its session and go-control-plane watch; its
`pc` runs through the lock sections of `onStreamRequest` and `onStreamClosed`,
so a revocation, a retry timer or a publication can fall between any two.
`forgetting` and `revoking` are the intermediate states of `forgetEngine`,
`RevokeEngine` and `RevokeAndNotify`. The store's operations are the actions of
`SnapshotStore`; `Store` combines one with the watches it answers or drops.
`budget` is what the environment may still do (publish, withdraw, lose a
connection, reject); a behaviour starts with one of `Environments`.

go-control-plane v0.14.0 and Envoy are external and modelled from how the code
uses them: a request replaces the stream's watch; setting a snapshot answers
the watches with another version; clearing one drops them without an answer. A
proxy ACKs or NACKs, reports its last accepted version, may repeat an ACK after
a NACK or send one without resource names, may replay a NACK as the first
message of a stream, and skips a configuration identical to the last one it
was sent. A response and its receipt are one step. All proxies have one
authorized identity and differ by node id. The `nacks` map only feeds a log line
and is left out; the `openStreams` cap is the number of slots.

### AuthzIndex

Two processes write the index: the publication reconciler and the revalidation
pass. A step is one critical section or one read. There is one Engine key; a
resource name is the UID. Listing the pods with their ServiceAccounts is one
read. An entry's age is `fresh` or not. The counters of `revocations` are kept
as what they are for: `moved`, the names revoked since a process read their
counter. Engine, Gateway and Pod events queue the Engine
(`publication_controller.go`), a change of ServiceAccounts need not.

### RuleSetAcceptance

One RuleSet and the inputs it names. `worker` is the reconcile in progress: the
object it got, the inputs read so far, and where it is between two reads or
patches (`Load`, `Judge`, `RecheckRuleSet`, `RecheckInput`, `AcceptRules`).
`checking` is the same for the RuleSource controller, a read followed by a patch
by name. A content is the text of every input and stands for its hash; what
Assemble, the directive guard, Coraza and the unsupported-rule check say of it
is the constant `Verdict`, one per build of the operator, so that a restart may
be an upgrade that refuses accepted content.

`ruleSet` is the object in the API server and `cache` the informer's, which may
skip versions but no event (`unseen`). A patch carries what differs from the
object that was read: the condition list as a whole, the accepted record field
by field. RuleData and RuleSources are taken as read without delay. A reason
stands for its message. Left out: the `Loaded` status that `loadData` patches on
RuleData, failed patches of a RuleSource, the legacy cache, metrics.

### EngineController

`job` is the one reconcile that runs; `job.at` names its next call to the API
server (`finalizer`, `start`, `target`, `ruleset`, `content`, `policy`,
`telemetry`, `filter`, `record`, and the steps of cleaning up, where Telemetry,
EnvoyFilter and NetworkPolicies are deleted one by one), and anything else may
happen before it. `eng`, `ef`, `np` and `tele` are the Engines and the objects
provisioned for them in the API server; `seen`, `seenEf` and `seenNp` the caches
through which the controller reads its own writes. `src` has the content of the
RuleSet's inputs and one generation that stands for those of the RuleSet and of
each input; `engineInputsChanged` compares it, the UID of the RuleSet, and the
UID and generation of the Engine. `owner` has the incarnations that EnvoyFilters
and Telemetries name in their owner references: the garbage collector of the API
server removes what belongs to an Engine that is gone, also when one of the same
name exists by then. All Engines target one Gateway, so they conflict. A version
is what it is rendered from. `Patch` is a merge patch: fields the reconcile did
not change keep the value they have in the API server, and a patch that would
leave a record incomplete is refused. The patch that removes the finalizer goes
by name as well: when the Engine is gone and another has its name, that one
loses its finalizer and stays. The RuleSet is written by actions that stand for
its controller (`RuleSetAccepts`, `RuleSetDegrades`, `RuleSetRejects`). Calls
fail and the leader is replaced at any step.

### Publication, and what it implements

Per replica: the informer caches (`seen`, `inputs`), the work queue, the running
reconciles, the store, `publicationState` and the readiness gate. The API server
accepts, withdraws and recreates. All Engines name one RuleSet, and its
generation stands for those of the inputs. A build renders its own schema; a
record of another schema, or one that an old build wrote without its rendering
inputs, is never reproduced.

`EcdsServing` says what a replica may serve, without caches, queues or
reconciles: each Engine has a log of decisions (accepted or withdrawn), and a
replica moves through that log, only forward, serving what the decision at its
position says. `Serves` is `Publication` implementing it under `served <- store`.

### Rendering and RuleText

`Rendering` translates `Assemble`, `Fingerprint`, `RuleSetContentHash`, `Render`,
`engineVersion`, the record and `reconstruct`. A text is the sequence of its
lines. SHA-256 is injective and JSON encoding faithful. Size limits, the driver
type and the form of a binary URL are left out. All replicas run one build here;
after an upgrade with another bundled module, a record whose rules include
`crs/` cannot be rendered until it is accepted again.

`RuleText` has the three walks over included files (`ValidateIncludes`,
`ValidateAssembledBodyLimits`, `crsTuningStandInRules`), each with its own order
and visited set, and Coraza compiling the text against stubs. Coraza and the
module in the proxy are external: rules are defined once, tuning needs a rule
defined before, an Include is expanded in place.

### Authentication and Listener

An attempt reads the clock before it takes the limiter's lock, so locked
sections run out of clock order, by at most `MaxDelay`. The lifetime of a cached
identity is computed from one reading (`cacheLifetime`) and added to a second
one (`storeCachedIdentity`), with time passing in between. A bucket holds the
attempts that have a permit (`pend`; the code keeps their number). The limiter of
`golang.org/x/time/rate` is external, `TokensAt` and `AllowN`.

`conn[c]` says where a connection is: in the kernel's backlog, in its handshake,
on HTTP/2, queued for or served by HTTP/1.1, ended but still tracked. A slot of
`netutil.LimitListener` is taken from accept to close. An HTTP/2 connection is
idle, has a request, or has a stream: a download or a call of ECDS begins as a
request (`serveH2`), which ends, becomes a stream if the registry has room for
one, or is refused and may be tried again on the same connection. A proxy may
also keep its request open for ever. The idle timeout closes idle connections
only (`IdleOut`). The CA file is left out; the certificate is either mounted or
not.

### RuleSetCache and RuleServer

The collector calls `Prune`, `TotalSize`, `PruneBySize` and `TotalSize` in turn;
puts and deletions run between them. A request of `RuleServer` looks into the
review cache without its lock, and evicts and stores under it.

## Runs

| Run | Result | Distinct states |
|---|---|---|
| `parts` | passes, with fairness for the listener | 387 thousand |
| `streams` | passes | 1.0 million (up to symmetry) |
| `delivery` | passes, with fairness | 185 thousand |
| `retry` | passes, with fairness | 147 thousand |
| `authz` | passes, with fairness | 559 thousand |
| `acceptance` | passes, with fairness | 597 thousand |
| `engine` | passes, with fairness | 169 thousand |
| `publication` | passes, with fairness | 271 thousand |
| `late_release` | violates `WatchKept` | |
| `dropped_retry` | violates `RejectedApplied`, with fairness | |
| `lost_grant` | violates `GrantsRestored`, with fairness | |
| `resurrection` | violates `NoResurrection` | |

* `parts`, the store: whatever is served derives from what is published now
  (`ServedIsCurrent`), the indexes agree (`IndexesAgree`), abandoned retries are
  bounded and the oldest go first (`InactiveRetriesBounded`, `EvictsOldest`), a
  connected proxy keeps its snapshot (`ConnectedKeepSnapshot`).
* `parts`, authentication: an attempt that holds a permit finds its bucket and a
  token when it fails (`PermitHonoured`); dropping an idle bucket forgives no
  failure (`SweepForgivesNothing`); an answer from the cache is backed by a
  review within the cache lifetime and ends a minute before the token, up to the
  delays between the readings of the clock (`HitBacked`).
* `parts`, listener: streams do not starve fetches of the module
  (`AssetsServed`), as long as all but `MaxStreams` connections, which carry
  streams, go quiet.
* `parts`, rules: equal fingerprints mean equal content and equal versions equal
  resources (`Identified`); a record and its content render to what was accepted
  and nothing else matches it (`RecordReproduces`); validation accepts exactly
  what the module can load (`ValidationExact`).
* `parts`, rule server: the collector removes only garbage and stops when the
  rest fits (`GarbageOnly`); the review cache answers only for reviewed pairs of
  token and instance and its counter never falls below its size
  (`ReviewCacheSound`).
* `streams`: once a revocation has finished, no stream that had been authorized
  is left (`RevokedStreamsEnd`), wherever it was in its setup. Reference counts
  equal the streams bound (`RetriesCounted`), and an idle stream watches the key
  where its next snapshot will be set (`StandingWatchKept`), with streams that
  move between two Engines. The last two are about behaviours without a
  withdrawal; with one they fail, which is `late_release`.
* `delivery` and `retry`: current content keeps arriving (`CurrentReceived`) and
  rejected content is eventually applied (`RetryLadder`). The latter is
  conditional: no NACK falls while a retry is pending on its stream
  (`dropped_retry` shows what happens then) and no stream is lost before its
  retry.
* `authz`: an open stream has its grant, or its end is under way
  (`OpenStreamsGranted`), and grants the cluster no longer calls for go away for
  good (`GrantsWithdrawn`).
* `acceptance`: what is about to be accepted was one configuration when its last
  input was read (`AcceptedWhole`), a recorded hash passed the aggregate checks
  of some build so far (`AcceptedApproved`), Ready and the record agree
  (`ReadyRecorded`), the record is withdrawn only when its own content is refused
  (`RecordKept`), and the RuleSet ends up usable exactly when it should
  (`Settles`).
* `engine`: a gateway passes traffic without its WAF only after a fail-open
  configuration was recorded (`WeakenedAfterAcceptance`); a record names content
  the RuleSet controller accepted (`RecordApproved`); between reconciles nothing
  is attached without its NetworkPolicy, as long as the RuleSet is there and not
  degraded (`AttachedRestricted`); what was created
  for an Engine that is gone or lost its Gateway is removed (`OrphansRemoved`); an
  Engine ends up provisioned as specified, degraded or not accepted
  (`EngineSettles`).
* `publication`: replicas implement `EcdsServing` (`Serves`); between reconciles a
  record that can be reproduced is served (`SettledServes`) and one that is not
  served is reported (`LagReported`); a replica that is ready early serves what it
  found (`ReadyServes`); no replica stays unready (`EventuallyReady`) and each ends
  up with the accepted record (`Converges`).

### Premises

* `Settles` and `EngineSettles` assume that a reconcile reads its controller's
  last write (`OwnWritesSeen`), which an informer does not guarantee. Without it
  TLC finds executions that end in the wrong status: the accepted fast path of
  the RuleSet controller and the skipped patch of the Engine controller trust
  the cached status, and the watches ignore status changes.
* `ReadyRecorded` leaves out a RuleSet whose status was patched across versions,
  which the history field `crossed` remembers. There are two ways. The RuleSet
  was recreated during a reconcile, whose patch finds it by name. Or a reconcile
  withdrew a newer record than the one it had read (`markRulesInvalid` sends
  null, whatever is there); a later reconcile on a cache that still has the old
  record may then send Ready without the fields that look unchanged to it. Such
  a RuleSet can be Ready without its record until a later reconcile reads it,
  although `ruleset_controller_accept.go:126-128` says that this is never
  observed. The second way takes five changes and is beyond the bound of the
  run; it came out of the search for an inductive invariant.
* `AttachedRestricted` assumes a RuleSet that exists and is not degraded: its
  checks come before the NetworkPolicy (`engine_controller.go`), and a reconcile
  that stops there leaves the objects as they are. TLC finds two ways to be
  attached without a policy meanwhile. The Gateway goes away
  while an Engine is provisioned, `rejectTarget` then misses the new filter in
  its cache and removes the policies only, and the Gateway comes back. Or an
  Engine is recreated before its predecessor's filter was collected. The first
  takes three changes of the cluster, one more than the run has.
* No property says that every accepted source was validated itself: the result
  of a RuleSource may be patched onto its successor of the same name and
  generation, and counts until the next reconcile of that source.
* `SweepForgivesNothing` needs a rate that refills the burst within the idle
  time, less the delay between reading the clock and locking; the defaults do.
* `AssetsServed` assumes that at most `MaxStreams` connections, all of proxies,
  are kept busy for ever: each of the others, when it stays, falls idle in the
  end, and the idle timeout of the HTTP/2 server then closes it. The code does
  not ensure that. A proxy that asks again for a stream whenever one is refused,
  or a download that stalls, keeps its slot, since nothing closes a connection
  with an open request; with the premise taken away, or with one connection more
  kept busy, TLC finds a fetch that waits for ever. The comment at
  `listener.go:174-176` counts the connections of admitted streams only.
* `ValidationExact` is about texts that `Visible` describes, and every part of it
  is needed: without any one of them TLC finds a text on which validation and
  module differ. Left out are texts that tune a rule which is neither defined in
  them nor in the CRS (it gets a stand-in when the tuning follows the `crs/`
  Include); that define a rule with the id of a CRS rule beside the `crs/` Include
  (a stub has no rules to collide with), or have that Include twice; that tune a
  rule both before and after it (the stand-in comes first, so both pass); and
  that have body settings in a file included twice (the walk reads it once,
  Coraza each time). Other files that are included repeatedly, and files that
  include each other in a circle, are among the texts checked.

### Bounds

One step of each environment kind (publish twice, withdraw, lose, reject) is
enough for every pair of interfering operations of the server, and two streams
for the overlap of an old and a new connection of one proxy. Retries are not
bounded by the model; the rejections in `budget` make the ladder as long as they
are. In `authz` one identity and two UIDs suffice to revoke, rotate and
recreate. In `acceptance`, every pair of edits, restarts and failures happens at
any two moments; one RuleData and one RuleSource are enough to mix contents. In
`engine` a behaviour starts in one of the scenarios of `MCEngineController`,
each with up to two changes and one fault left; two Engines conflict. In
`publication` three writes of the API server and one restart or error meet one
replica: replicas do not interact. In `parts`, three proxies with a bound of two
make eviction happen; two attempts share one bucket at the cap of buckets; one
stream, two proxies and two fetchers compete for two slots of the listener, so
that streams are refused; three puts overflow the rule cache; two changes of the
objects separate any two renderings; rule texts of three directives include
files that include each other.

Deadlock checking is off where the environment's budget may be used up with
nothing left to do.

### Fairness

Goroutines, timers and tickers run (weak fairness of each stream's steps, of
timers, revocation and revalidation). Strong fairness of sending or closing says
that Go's `select` does not prefer requests for ever. The proxy reconnects,
subscribes and answers. In `AuthzIndex` both writers run and an entry that nobody
rewrites grows stale. Controllers: work queues are drained, informers catch up,
the garbage collector of the API server runs; strong fairness of `Begin` in
`EngineController` says that each queued Engine gets the worker in turn. The
deadline of the readiness gate passes. The goroutines of the listener run:
connections are accepted, handshakes and HTTP/1.1 exchanges end by their
timeouts, an idle HTTP/2 connection is closed. What a proxy does with an open
request or stream has no fairness.

## Disagreements with the documentation

1. `late_release`: `store.go:200-201` says connected proxies keep their
   snapshots. `ReleaseRejectedRetry` identifies an entry by proxy key only, so a
   stream bound before `DeleteEngine` and closed after a re-publication releases
   the reference of the stream that has bound since.
2. `dropped_retry`: `server.go:49-51` and the design say a rejected
   configuration is retried without limit. A NACK of new content while the retry
   of older content is pending schedules nothing, and the pending retry is then
   refused because the content advanced. The new content is not sent again under
   a derived version, the only form in which Envoy would apply it.
3. `lost_grant`: a re-accepted Engine "must become authorized again"
   (`authorize.go:156-157`), and where a revocation wins over a refresh the next
   event is to repeat it (`authorize.go:247-248`). On the trace the refresh gives
   way at the earlier check of the same counter (`authorize.go:171-174`); the
   revocation was made by the revalidation pass on older evidence, no event
   follows, and `known` no longer holds the name.
4. `resurrection`: `authorize.go:107-110` says a revocation cannot be
   resurrected; the removal of an identity by a refresh does not advance the
   counter.

Met while modelling, and visible in the models without a run of their own:

* Engine controller: the status patch after `reconcileTelemetry` reads the
  Engine back, so an edit between rendering and recording is recorded with the
  new generation and the old policy (compare `engine_types.go:205`); the next
  reconcile corrects it. A stale cache of EnvoyFilters can make a filter that was
  deleted and is created again start at `allow` (`engine_controller.go:433-442`),
  and lets `rejectTarget` delete NetworkPolicies before the filter
  (`engine_controller_wasm_driver.go:143-144`). `rejectTarget` keeps the accepted
  record.
* Publication: the lag marker is also set when the accepted configuration is
  published and only the RuleSet moved on.
* Authentication: an attempt that saw an expired entry may delete the fresh one
  another attempt stored meanwhile; the cost is one review.
* Rule server: two misses of one key count twice (`cache/auth.go:65-70` says the
  counter stays in sync). The entry is taken off the counter once only, when it
  expires, so the difference stays and adds up over the life of the server, and
  the cache holds less than its maximum for good. The message that the latest
  entry is too large may be caused by a put between pruning and the last
  reading.
* Listener: HTTP/1.1 connections still queued at shutdown, and HTTP/2 connections
  dispatched after shutdown took the map, are left to the end of the process.

## Proofs

`StoreProofs` proves, for any Engines, UIDs, proxies, versions and bound:
`StoreTypeOK`, `ServedIsCurrent`, `IndexesAgree`, `InactiveRetriesBounded`,
`ConnectedKeepSnapshot` and `EvictsOldest`. The assumptions are
`StoreAssumption`: Engine and proxy keys differ, `None` is no value, the bound is
positive.

None of these is inductive alone. `StoreInv` adds that the set of tracked
proxies of each Engine is finite and that each part of it has an oldest member
in `before`. The order is needed for the bound: eviction keeps the youngest
candidates, and only when any two are ordered are at most `MaxInactive` kept.
`CommitPreserves` reduces each operation to what it hands to `Commit`;
`EvictionBounds` is the counting argument; one lemma per operation follows.
`EvictsOldest` also needs that the order is transitive (`OrderTransitive`): what
is younger than an evicted proxy is then younger than anything older, which
would have been evicted with it (`EvictionOrder`).

`StreamsProofs` builds on these theorems and proves, for any Engines, nodes,
stream slots and versions and any budget of the environment, `StreamsTypeOK`,
`RevokedStreamsEnd`, `RetriesCounted` and `StandingWatchKept`, and that the
invariants of the store hold in the composition (`StreamsServeCurrent`).
`StreamsAssumption` says that a proxy key is an Engine key with a node id
(`proxyCacheKey`), that `None` is no value, and that an environment which does
not withdraw has no withdrawals to spend. A stream has many steps, and those
that write the store answer the watches of all streams. `Moves` says once what a
step of one stream does: how its entry and the store's counts change together
(`Counts`), that the entry keeps its promises, and that the other streams change
at most by having their watch answered or dropped (`Notified`). One lemma per
step shows that it is such a move; the theorems then argue about moves, the
writers of the index and publications only.

* `Base`, under all of them: the types, `StoreInv`, and for each stream what its
  fields say of each other at each place of a request (`Linked`), such as that a
  reference to a retry snapshot comes with the Engine key that will release it.
* `RevokedStreamsEnd` rests on `AllEnded`: a stream beyond its authorization whose
  name is neither granted nor being revoked has been cancelled. The check after
  `SetResource` and the cancellation by `RevokeResource` cover each other: a
  stream is seen by the one or sees the other.
* `RetriesCounted` rests on `CountInv`, which adds that no revocation or removal
  is under way and that the references are finite. Releasing a reference then
  finds a count above zero, and one less is again the number of references.
  `DeleteEngine` would drop the count under streams that still hold a reference,
  which is where the two part in `late_release`.
* `StandingWatchKept` rests on `WatchInv` relative to `CountInv`: clearing a key
  drops its watches without an answer, so a key to which a stream is pinned must
  never be cleared. An Engine's key is not, since nothing is withdrawn; a proxy's
  key is not, since the stream itself holds a reference (`PinServed`). The
  invariant includes the requests whose watch is still to be created: the key
  chosen for it is the one the stream is pinned to.

`PublicationProofs` proves, for any Engines, replicas, contents, number of
workers, builds, changes and faults, that `Publication` implements `EcdsServing`
(`Serves`), and the invariants `PublicationTypeOK`, `SettledServes`,
`LagReported` and `ReadyServes`. It assumes `PublicationAssumption` (the bounds
are natural numbers, there is a build and a worker) and `NoneAssumption`.

* `SettledServes` and `LagReported` rest on `SettledInv`: an Engine that is not
  queued is either served as its cached state calls for, or a running reconcile
  has read a state the watch predicate does not tell from the cached one. This
  is what the coalescing queue and the predicate together must guarantee.
* The refinement rests on `LogInv`: what the API server, the cache of a replica
  and a running reconcile hold are decisions of the log, and a replica has
  adopted no later one than its reconcile read, which read no later one than the
  cache has now. Adopting a configuration, or its removal, then moves a replica
  forward in the log; the other steps are decisions of the leader, restarts,
  which start again with nothing, and stutters.
* `ReadyServes` rests on `AwaitedInv`, relative to `LogInv`: a record found at
  startup stays pending until it is served or the deadline passes, and no
  reconcile works on anything older than what was found at startup.

`AuthenticationProofs` proves `PermitHonoured`, `SweepForgivesNothing` and
`HitBacked` for any attempts, peers and tokens. All three assume `Parameters`,
the types of the constants; `SweepForgivesNothing` also assumes `Refills`, the
premise above. `MCParts` evaluates both for its instance.

* `PermitHonoured` rests on `PermitInv`: the permits of a bucket belong to
  distinct attempts, and the i-th oldest of them finds i tokens at the reading
  of the clock that granted it. The order is needed because attempts take the
  lock out of clock order: a count of permits against the tokens of now does not
  survive a rejection with an older reading. `Consumed` says what such a
  rejection costs a later reading.
* `SweepForgivesNothing` adds that a clock reading is used within `MaxDelay`
  (`Fresh`) and that a bucket was last seen no more than that before its tokens
  changed (`Aged`).
* `HitBacked` adds `CacheInv`: every cached identity ends within the cache
  lifetime of a review that accepted its token and a minute before the token. Two
  delays add up, that between the review and the reading the lifetime is computed
  from, and that between this reading and the one it is added to.

`AuthzProofs` proves `AuthzTypeOK` and `OpenStreamsGranted` for any number of
incarnations of the Engine, identities and sessions (`AuthzAssumption`: there is
a UID, `None` is no value). The types become inductive with the places at which
a process holds an Engine object, and with the fact that a pass only revalidates
registered sessions (`Unregister` takes a session out of the pass).
`OpenStreamsGranted` is inductive relative to them. `StreamsKept` is the one
argument behind all steps: a grant is taken away only by a step that puts the
name among the notifications of its process, and a notification is dropped only
by the step that cancels the streams of its name.

`AcceptanceProofs` proves, for any inputs, texts, builds and verdicts and any
number of edits and faults: `AcceptanceTypeOK`, `AcceptedWhole`,
`AcceptedApproved`, `RecordKept` and `ReadyRecorded`. `AcceptanceAssumption` says
that the spec names each input once (`findDuplicateReferences` stops the others
before anything is read) and at least one source, that there is a build, and
that every content has a verdict.
`ReconcileKinds` first reduces a step of a reconcile to one of eight kinds (it
ends, changes the conditions, withdraws, accepts, or goes on reading, judging
and reading again); the proofs split on these and on the writes of the cluster.

* `TypeInv` adds what a reconcile has read when it gets to a place (`Formed`) and
  that nothing it has read is later than what there is (`Ordered`).
* `Wholeness`: a content that was never one configuration contains an input that
  has moved on and is still to be read again, or belongs to a RuleSet that has
  moved on. It holds because versions do not return, which is `Ordered`.
* `Approval`: what has passed the checks is let pass by this build; the patch
  that records it comes after them and no other patch writes a hash, though a
  patch is merged into whatever status is there.
* `Records` is about lagging caches. `Since` says, of the version in the cache
  and of the one a reconcile works on, how the record in the API server may
  differ from the one they show: replaced by one this build lets pass, or
  withdrawn because this build refuses it. `Horizon` bounds the generation of a
  record by what can have been read. Without these a merge patch from an old
  version could leave Ready with another record; the search for them showed the
  second of the two ways under Premises.

`EngineProofs` proves, for any Engines, contents and starts and any number of
changes, faults and restarts: `EngineTypeOK`, `RecordApproved`,
`WeakenedAfterAcceptance` and `AttachedRestricted`. `EngineAssumption` says that
names are numbers, as the order of Engines of one age needs, and that a
behaviour starts with Engines that are new, provisioned or absent. Here, too,
each step of a reconcile is one of ten kinds (`Kinds`).

* `Approval`, for `RecordApproved`: what is rendered, and not only what is
  recorded, is accepted content, since the RuleSet may change before the record
  is written.
* `History`, for `WeakenedAfterAcceptance`: every copy of an Engine or a filter,
  in the API server, in a cache or in a running reconcile, shows only versions
  that were recorded. The policy of the next filter is computed from the copies.
* `Restoring`, for `AttachedRestricted`: a filter without a NetworkPolicy has a
  reconcile on its way to the policy (`Working`) or one to come (`Due`: queued, or
  an event that will queue it is outstanding). It needs that a cache never shows
  a version from the future and a deletion is not undone (`Lag`), so that every
  difference is an event the watch predicates let pass; that a rejection which has
  left the filter in place will be repeated; and that a reconcile which finalizes
  an Engine whose name another has by now is followed by one of the other
  (`Superseded`).

`RuleServerProofs` proves `ReviewCacheSound` for any requests, tokens, instances
and sizes (`Settings` gives the types of the two settings; `MCParts` evaluates it
for its instance). `ServerInv` adds that the cached keys are finite and were
reviewed, and that a request past its review has a token issued for its instance.
The counter may exceed the number of entries, when two misses of one key both
store it, but an entry is discounted only by the request that removes it, so the
counter never falls below.

Model-checked only:

* liveness, `Settles`, `EngineSettles`, `OrphansRemoved`, `Converges`,
  `EventuallyReady`, `GrantsWithdrawn`, `CurrentReceived`, `RetryLadder` and
  `AssetsServed`: beyond the proof system;
* `ValidationExact`: the walks of `RuleText` are recursive operators;
* `Identified` and `RecordReproduces`: they follow from what `Rendering` computes
  for every input, which needs induction over texts;
* `GarbageOnly`: the pruning by size folds over the entries of an instance, and
  what the fold keeps needs induction over them.

## Not modelled

* The cap on streams per identity and the lifetime of a stream: both only end
  or refuse a stream, which streams in `EcdsStreams` meet as a loss.
* Reload of a rotated certificate, and the bytes of an asset: library code.
* The `Loaded` status of RuleData; the ServiceAccount and token of the legacy
  server; metrics and events: written, and not read back by the operator.
* The fields of EnvoyFilters, NetworkPolicies and Telemetries: construction of
  values.
* The patterns that recognise directives, and the registry of unsupported rules:
  text processing with no state.
* Flag parsing, wiring, generated code, and the tools under `tools/`.
