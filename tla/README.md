# TLA+ verification of hitbox

hitbox is an asynchronous HTTP caching framework: a request passes through a
finite state machine that looks in a cache backend, lets a bounded number of
concurrent requests fetch from the upstream, broadcasts the fetched response to
the others, and writes it to the backend, which may be a composition of two
layers. This directory holds TLA+ modules for the parts where concurrency,
failure and ordering decide whether that works, TLC configurations that check
them on small instances, and TLAPS proofs for all instances.

Model checking: `tlc -config MCCacheFuture_safety.cfg MCCacheFuture` (any other
pair below likewise). Proofs: `tlapm CacheFutureProofs.tla`. `PROJECT.json` maps
every definition to the source lines it stands for and lists the runs, the
hazards, the findings and the theorems.

## 1. Inventory

| component | source | state it keeps | operations | talks to |
|---|---|---|---|---|
| concurrency manager | `hitbox/src/concurrency.rs` | `in_flight`: key -> (broadcast sender, semaphore), shared by all futures of a service | `check`, `resolve`, `cleanup`; receivers and permits live in futures | called by the state machine |
| caching state machine | `hitbox/src/fsm/` | per request: the `State` variant with its payload, `CacheContext` (status, source, read mode), permit, receiver | `poll`, one transition per variant; dropped at any await | manager, backend, upstream, predicates, offload |
| policy configuration | `hitbox/src/{policy,config}.rs`, `hitbox-configuration/src/endpoint.rs` | `PolicyConfig`: enabled, stale policy, ttl, stale, concurrency limit; predicates and extractor | builders; then read only | state machine |
| offload manager | `hitbox/src/offload/` | `tasks`: key -> JoinHandle; a key counter | `spawn`, `spawn_with_key`, `cancel(_all)`, `cleanup_finished`, `wait_all`, the spawned wrapper | background revalidation, composition policies |
| cached values | `hitbox-core/src/{value,response,policy}.rs` | expire and stale timestamps | `ttl`, `cache_state`, `cache_policy` | state machine, storage |
| core traits, keys, predicates | `hitbox-core/src`, `hitbox-backend/src/key.rs` | none beyond the context | combinators, the parts of a key, its two serialised forms | state machine |
| backend facade | `hitbox-backend/src/backend.rs` | none | `get` (refill included), `set`, `delete` | storage, composition |
| composition | `hitbox-backend/src/composition/` | two backends, policies | read: sequential, race, parallel; write: sequential, race, optimistic parallel; refill | offload manager, both layers |
| Redis | `hitbox-redis` | one connection per process; data and stale time in a hash, the expiry as time to live | `read`, `write`, `remove`, each a pipeline of commands | Redis |
| Moka | `hitbox-moka` | the cache, its capacity and policy, gauges | `read`, `write`, `remove`, byte weigher, `Expiration` | the moka crate |
| FeOxDB | `hitbox-feoxdb` | the store, in memory or with a file | `read`, `write`, `remove` as blocking closures, `flush` | the feoxdb crate |
| value formats and compressors | `hitbox-backend/src/{format,compressor}` | none | encode, decode | storage, composition |
| HTTP bodies | `hitbox-http/src/body.rs`, `predicates/body` | passthrough, partial or complete body | buffering, streaming search, replay | predicates, upstream |
| predicates and extractors | `hitbox-http/src/{predicates,extractors}` | a chain of conditions, each wrapping the one before | `check`, `get` | state machine, bodies |
| integrations | `hitbox-tower`, `hitbox-reqwest`, `hitbox-http/src/{request,response}.rs` | a cloned inner service, the response as cached | `poll_ready`, `call`, conversions of messages | state machine |
| configuration | `hitbox-configuration` | the file, then what is built of it | `into_endpoint`, `extractors`, `into_backend` | predicates, extractors, backends |
| metrics | `hitbox/src/metrics.rs` and others | counters, gauges | recording | offload manager, Moka |
| test support, Tarantool | `hitbox-test`, `hitbox-tarantool` | | | |

What is hard, and what makes each part correct:

* **Concurrency manager.** Several futures race on one key; with a limit above
  one, the holders of a generation end at different times, and the entry of the
  key may by then be another generation's. Correct means: at most one message per
  channel, nobody subscribes too late, permits are neither lost nor made up, keys
  do not mix, an entry is never overwritten, and an entry has an owner.
* **State machine.** It must drive that protocol from five different places;
  cached values age between two polls; predicates may refuse; the backend may
  fail; a future may be dropped. Correct means: the context tells the truth about
  the response, refused responses stay private, permits are held only while
  fetching, every waiter waits for somebody, every request is answered.
* **Offload manager.** A spawn is three steps, and the task runs from the second
  on. Correct means: generated tasks can always be found, deduplication
  lets no second task in, `wait_all` waits and returns.
* **Composition.** Layers disagree after a partial failure; the loser of a race
  goes on in the background; a refill writes what it did not fetch; the read mode
  of one get decides what a later set writes. Correct means: layers at rest agree,
  a get does not go behind a set or a delete that has returned, nothing is answered
  after it expired, and a set that says Ok has stored its value.
* **Values and storage.** `ttl()` rounds down to seconds, equal timestamps, fields
  of the previous value that survive a write. They matter through the composition.
* **Compositions of compositions.** Formats are compared and shared, values travel in
  envelopes, contexts are merged, labels are computed ahead. Correct means: what is set
  is found while any store holds it, and a refill goes to the layers that missed.
* **The stores.** Two commands or two calls are not one; connections break; closures
  run after their caller has left; counts lag; there is no room. Correct means: entries
  expire, reads do not go back, a miss has a reason, the capacity holds.
* **Predicates, extractors, configuration.** Conditions wrap each other in an order the
  file does not show; values may not parse; texts are compared in one case and written in
  another. Correct means: what is built says what the file says, requests that differ in
  what the file names do not share an entry, and an endpoint or a backend is built whole
  or not at all.
* **Integrations.** The service that was asked whether it is ready need not be the one
  that is called; a message is taken apart and put together again; a client may get the
  response to another's call, or a stale one while a background task calls. Correct means:
  the client gets a response of the upstream, to its own call if it made one, and the
  status header does not pass an old response off as a new one.
* **HTTP bodies.** Predicates, extractors and the cache each take bytes from one
  stream in frames of any size and must leave a body that yields them again.
  Correct means: bytes and errors are forwarded in order and none is missing,
  verdicts do not depend on frames or on who looked before, and only whole
  responses are stored.

## 2. Modules

| module | models | extends / uses |
|---|---|---|
| `ConcurrencyManager` | `BroadcastConcurrencyManager` | |
| `ConcurrencyManagerProofs` | proofs about it | `ConcurrencyManager`, TLAPS |
| `CacheFuture` | `CacheFuture` and its `State`, many at once, one backend | INSTANCE `ConcurrencyManager`, `FutureLifecycle` |
| `CacheFutureProofs` | proofs about it and `FutureLifecycle`, and that it implements `FutureLifecycle` | `CacheFuture`, INSTANCE `ConcurrencyManagerProofs`, TLAPS |
| `FutureLifecycle` | what one future promises: the transition enums | abstract specification of `CacheFuture` |
| `OffloadManager` | `OffloadManager` | |
| `OffloadMetrics` | its counters and gauge | EXTENDS `OffloadManager` |
| `OffloadManagerProofs` | proofs about both | `OffloadMetrics`, TLAPS |
| `CacheValue` | `CacheValue`, the times of a fresh response | |
| `Storage` | one key in Moka, Redis and FeOxDB | EXTENDS `CacheValue` |
| `Composition` | `CompositionBackend`, its policies, and the requests that use it | EXTENDS `Storage` |
| `CompositionProofs` | proofs about it | `Composition`, TLAPS |
| `BackendTree` | the tree of stores and compositions | |
| `LayeredBackend` | compositions of compositions: formats, envelopes, refills, sources | EXTENDS `BackendTree` |
| `RedisBackend` | the commands and the connection of `RedisBackend` | EXTENDS `CacheValue` |
| `MokaBackend` | capacity, eviction, expiry and gauges of `MokaBackend` | |
| `FeOxDbBackend` | the closures of `FeOxDbBackend`, room, file and restarts | EXTENDS `CacheValue` |
| `Stores` | a program that has one of these three backends | EXTENDS `CacheValue`, INSTANCE `RedisBackend`, `FeOxDbBackend`, `MokaBackend` |
| `StoreProofs` | proofs about it | `Stores`, TLAPS |
| `HttpBody` | `BufferedBody`, the body predicates, the extractor, `into_cached` | |
| `HttpBodyProofs` | proofs about it | `HttpBody`, TLAPS |
| `Predicates` | conditions on requests and responses, and their combinators | |
| `EndpointConfig` | the predicates of an endpoint's file and what is built of them | EXTENDS `Predicates` |
| `CacheKey` | extractors, `CacheKey` and its two serialised forms | |
| `KeyExtraction` | an endpoint's extractors and a cache asked under their keys | EXTENDS `CacheKey` |
| `HttpService` | the Tower service and the reqwest middleware, and their messages | |
| `ServiceConfig` | the builders of a policy and of a configuration | EXTENDS `CacheValue` |
| `Backends` | what a store and a composition are built of | |
| `BackendBuilder` | a program that builds a composition | EXTENDS `Backends` |
| `BackendConfig` | a backend described in a file | EXTENDS `Backends` |
| `Service` | a program that does one part of what surrounds the cache | EXTENDS `CacheValue`, INSTANCE `ServiceConfig`, `HttpService`, `KeyExtraction`, `BackendBuilder`, `OffloadMetrics` |
| `KeyProofs` | proofs about the keys of `Service` | EXTENDS `Service`, TLAPS |
| `ServiceProofs` | proofs about all its parts | EXTENDS `KeyProofs`, INSTANCE `OffloadManagerProofs` |
| `MCConcurrencyManager`, `MCCacheFuture`, `MCOffloadManager`, `MCComposition`, `MCHttpBody` | symmetry and constants for TLC | the module they are named after |
| `MCStores` | constants for TLC and the bounds of each backend (`Small`) | EXTENDS `Stores` |
| `MCService` | the same and the parts that are about trees, on small instances | EXTENDS `Service`, INSTANCE `EndpointConfig`, `BackendConfig`, `LayeredBackend` |
| `MCEndpointConfig`, `MCKeyExtraction`, `MCBackendConfig`, `MCLayeredBackend` | the files, extractors, requests and trees that `MCService` tries | |

An operator that a comment calls a mutant is the operator after it with a
plausible bug; no specification uses it. `PROJECT.json` pairs each with a
property it breaks.

### ConcurrencyManager

A channel (with its semaphore) is named by the request whose `check` found the
key vacant, so `inFlight[k]` is a request. `capacity`, `available` and `broadcast`
are the semaphore and the ring buffer of each channel; `permit[r]` and
`receiver[r]` are the `OwnedSemaphorePermit` and the `Receiver` inside a future;
`checked[r]` is the key `r` asked for. `OpenChannel`, `JoinHolders` and
`Subscribe` are the three outcomes of `check` (one atomic step: the DashMap entry
API holds the shard's lock), `Resolve` is remove and send, `Cleanup` is remove.
`RecvResult` is what tokio's broadcast `recv` yields: a message, `Lagged`,
`Closed` once no sender is left, or nothing yet. Lagged is modelled though it
never happens; `OneMessage` shows why. `Drop` is a future dropped with its permit
or receiver: nothing touches the map.

`resolve` removes the entry and then sends; between the two the removed sender is
still alive and no one can look the entry up, so nobody can tell them apart and
they are one step.

### CacheFuture

`fut[f]` is a record: `state` is the variant of `State`, `key` and `entry` are its
payload, `status`, `source` and `mode` are the `CacheContext`, and `verdict`
remembers what the response predicates said. `PollCache` is two states
(`PollCache`, `CacheAnswered`), because the backend answers before the future is
polled again and time passes in between; for the same reason `BackendGet` and
`PollCacheHit` are two actions. A response is named by the future whose upstream
call made it; `None` as producer is an entry of an earlier process. A stored
entry's age (`Actual`, `Stale`, `Expired`) only goes forward.

`StartRequest` is Initial; `CheckRequestCachePolicy` the request predicates and the
key; `ToUpstream` the helper `transition_to_upstream` (asks the manager if the
policy has a limit); `HandleStaleReturn`, `HandleStaleRevalidate` and
`HandleStaleOffload` the stale policies; `AwaitOk` and `AwaitError` the waiter;
`PollUpstream` the fetch; `ResponseCacheable` and `ResponseNonCacheable` the
response predicates together with `resolve` and `cleanup`, which happen in the
same transition and, for `resolve`, before the backend is written; `UpdateCache`
the write, whose result the code drops; `Respond` the end. `Drop(f)` is a caller
that goes away; `Age(k)` is the clock and eviction. A background revalidation is a
future of `Tasks` that starts at `PollUpstream` and has the Noop manager.

### OffloadManager

`tasks` is the map of handles, `call[c]` says how far a spawn call is, `task[c]`
what became of its task. `Spawn` and `SpawnWithKey` are the look at the map,
`SpawnInner` is `tokio::spawn`, `Insert` the insertion; `Complete`, `TimeOut`,
`Panic` and `AbortTakesEffect` are the ways a task ends, of which the first two
remove the key. `awaited` and `raced` are history variables used by properties only.
`wait_all_timeout` is `wait_all` given up at some point, which changes no state.

### CacheValue and Storage

Time is a natural number of ticks, `SECOND` of them to a second; the code compares
timestamps exactly, but `ttl()` rounds down to whole seconds and is `None` below
one (`value.rs:141`). `CacheState` looks at the expiry before the stale time, both
with `<=`. `FreshValue` is what `cache_policy` makes of a response: both lifetimes
start now.

An entry of a store is the value as it will be read back plus the time until which
the store keeps it. Moka keeps a value until it expires (`builder.rs`, `Expiration`);
FeOxDB for its `ttl()`, or for ever, and looks at the expiry again when it reads
(with `<`); Redis keeps data and stale time as fields and the expiry only as time to
live, so that `HSET` without a stale time, or without `EXPIRE`, leaves what the
previous value had. `Immortal` names the writes after which Redis may keep a value
beyond its expiry: those with less than a second to live.

### Composition

One key, two layers, several clients; operations on different keys share nothing.
`layers` are the entries, `ops[c]` the request or delete a client is busy with:
`pc`, the read mode in its context (`ctx`), how far the read or write of each layer
is, and the value to set. `late` are writes that nobody waits for: the loser of a
race, or what a dropped future had sent. A client does what `CacheFuture` does:
`StartGet`, `ReadLayer` per layer in the order of the read policy (`ReadNext`),
then, when the policy has decided (`ReadDecided`, `ReadSource`), one of
`ServeActual`, `RefillActual`, `ServeStale`, `RevalidateStale`, `OffloadStale` and
`Miss`; a fetch ends in `FetchCacheable` with `StartSet`, or in
`FetchNonCacheable`. `WriteLayer` per layer and `SetReturns` follow the write
policy. `StartDelete`, `RemoveLayer` and `DeleteReturns` are `delete`. `ReadFails`,
`WriteFails`, `LateWriteLost`, `Drop` and `Evict` are the faults, `Tick` the clock.

`dispatch` says how the composition is called. Called directly, `get`, `set` and
`delete` are its own. Called as `Box<dyn Backend>` or `Arc<dyn Backend>`, the
default methods of `CacheBackend` run over `read`, `write` and `remove`; the values
of both layers travel in one envelope, which has none of their times (`Enveloped`),
every hit in L2 asks for a refill whatever the refill policy (`CtxAfterGet`), and
that refill is then skipped (`Targets`; `backend.rs:304` and `backend.rs:339`).

Some of what the properties ask for does not hold of every execution, because the
code does not try to. `causes` is a history of what has happened that excuses the
layers, and each property names the causes it excepts:

| cause | what happened |
|---|---|
| `overlap` | two sets or deletes were in progress at once, or a refill was overtaken by one: nothing orders them |
| `fault` | a layer's write or remove failed, or a future was dropped |
| `late` | a race returned while the other layer was still being written |
| `evicted` | a store dropped an entry before its time |
| `skipped` | the refill mode kept a fresh response from a layer |
| `immortal` | Redis got a value with less than a second to live |
| `untimed` | the envelope of a trait object dropped the times of a value |

`floor` is the number of the latest response that a set or delete which has returned
has put into, or removed from, the cache.

### FutureLifecycle

`life[f]` is the stage a future is in and what it holds: a key, a permit, and how many
calls of the upstream it has made. Each action is one of the enums of
`fsm/transitions.rs`, each disjunct one variant. `CacheFuture` defines the mapping
(`ImplementsLifecycle`); states that `CacheFuture` splits in two, because the backend or
the upstream answers between two polls, map to one stage, and what the manager, the
cache or the clock do to a future maps to a stutter.

### OffloadMetrics

Recording is a step after the one it is about. `counting` are spawns that have inserted
their handle and not counted it yet, `recording` and `removing` tasks between their end
and the other of the two things they do then; which comes first depends on the timeout
policy. Warn does as None but for a message.

### LayeredBackend

A backend is a tree; leaves are stores with a format and a compressor, nodes are
compositions, held by their type or (`dyn`) as trait objects. `Encode` and `Decode` are
`CompositionFormat`: one serialisation for both layers if their format identifiers agree
(`SameFormat`), envelopes otherwise; decoding fails on anything it did not encode.
`StaticGet` and `Set` are the methods of a composition, `DefaultGet` and `DefaultSet`
those of a trait object, `Read` and `Write` what a layer offers the level above.
One operation runs at a time, no layer fails, reads are sequential: the rest is
`Composition`'s. Of the two branches of `set` for refills, the one that looks for a
`CompositionContext` is never taken, for the read mode is `Refill` whenever there is one.

### RedisBackend, MokaBackend, FeOxDbBackend, Stores

Each opens up what `Storage` takes to be one step; the libraries and servers behind them
are external and modelled as far as the code, its comments and its tests rely on them.

`RedisBackend` is several processes on one key. A pipeline is two commands that Redis
runs in turn (`ReadFields`, `ReadTimeToLive`; `WriteFields`, `WriteTimeToLive`), without
other commands of the same connection in between (`Undivided`) but with those of other
processes. `Opens`, `OpenSucceeds`, `OpenFails` and `Drop` are the `OnceCell` that holds
the connection, `Disconnect` a connection that breaks and loses what it had in flight.
`timeouts` are those a program has set (`connection_timeout()`, `response_timeout()`; by
default it has none), and `silent` says that Redis, or the network, need not answer:
then an attempt to connect ends only by `OpenTimesOut`, and a caller that has sent its
commands gets an error only by `ResponseTimesOut`, while Redis may run them all the same
(`gaveup`).
A key is alive up to and including its last millisecond, where PTTL is 0. Clocks agree;
replicas are left out; a task does one operation.

`MokaBackend` has the cache as readers see it, and `order` and `gauge`, which lag: a
write is applied at once and counted by Moka's pending tasks (`CountWrite`), which also
evict (`MakeRoom`). LRU evicts from the front; TinyLFU may also refuse the new entry.
`ByteWeigher` is the weigher with its cap at `u32::MAX`.

In `FeOxDbBackend` a task is an operation whose closure waits for a blocking thread
(`Start`, then `Read`, `Write`, or `Contains` and `Delete`), also when the caller has
gone (`Leave`). An entry takes one unit of room and a full store refuses writes
(`WriteFails`). `Persist` and `Flush` bring entries to the file, `Restart` keeps only
that, `Sweep` is the database's own clean-up.

`Stores` is a program with one of the three: `backend` says which, its actions are those
of that backend's module, and the variables of the others stay None. The clock and `op`
are shared, for Redis and FeOxDB serve the same kind of tasks.

### HttpBody

A stream is its bytes and how it ends; a step of a reader takes any number of bytes,
so every cutting into frames is covered. `body` is the `BufferedBody` (passthrough,
partial with a prefix and a rest, complete), `busy` and `buffer` the operation that
is polling and what it holds. Operations are told apart by how they read:
`collect_exact` (`Limit`, `Starts`), `streaming_search` (`Contains`) and `collect`
(`Eq`, as RegExp and Jq do, `Ends`, the extractor, `into_cached`). `CheckTrivial`
needs no bytes, `CheckBuffered` has them already, `StartReading` polls: `ReadMore`,
then `ReadEnough`, `ReadMatch`, `ReadEnd` or `ReadError`. `ForwardPrefix`,
`ForwardFrame` and `ForwardEnd` are `poll_frame` for the last consumer. `lost`
records the two ways in which the code drops bytes. Trailers, which `collect`,
`collect_exact` and the search drop, are left out.

### Predicates and EndpointConfig

A predicate object wraps the one before it; `Check` asks the inner one first and looks at
its own part only if that said Cacheable, but for a condition on the body, which always
looks. `asked` records which parts were looked at. Patterns are sets of the values they
match. `EndpointConfig` builds predicates from an expression as the code does, each part
given the one built so far: a request's And folds from the last expression to the first,
a response's the other way; Or and Not start from a neutral predicate. `Means` is
the reference: what the expression says as Boolean logic.

### CacheKey and KeyExtraction

An extractor turns a part of a request into named parts, a key is their sequence.
`BitcodeEncode` (columns) and `UrlEncode` (pairs) are the two forms and their inverses
are those of the code. Regular expressions, jq filters and path resources are functions
from what they match to what they yield. A header that must equal a value is compared
by its first value only, as in the code. `KeyExtraction` builds the extractors of a
file and asks a cache under their keys; `Agree` is the reference: two requests have the
same values in everything the extractors name. `ConstantsOK` says what an instance must
give: lists where the code has vectors, texts where it has strings, names of headers in
lower case. That a request is never given another's entry is promised only where no two
extractors use one name (`NamesApart`) and no prefix of header names is in capitals
(`PrefixesInLowercase`): the code checks neither, and TLC finds requests that share an
entry without either of them (a header `x-a` under a prefix and a parameter `x-a`).

### HttpService

`PollReady` and `Call` are the Tower service, whose clones share an inner service; an
inner service of kind "limited" gives each instance that says it is ready a permit and
fails when called without one, which is the contract of Tower's limits. `Handle` is the
reqwest middleware, whose extensions travel to the upstream with the first call of
`ReqwestUpstream` (`NotesCall`); extensions of the outer chain are not updated by it.
`IntoCached`, `Serialize`, `Deserialize` and `FromCached` are what becomes of a response on
its way into the store and out. There is one key.

Between the two are the steps of `CacheFuture` that decide whose response a client gets:
a request bypasses the cache (`Bypasses`), finds a fresh entry (`Hit`) or a stale one, which
it returns (`StaleReturns`), replaces by a call of its own (`StaleRevalidates`), or returns
while a task calls the upstream (`StaleOffloads`; `Revalidation(r)` is the task of `r`, and
with `DisabledOffload` it is dropped); or it misses. A miss calls the upstream
(`MissesUnlimited`, `Proceeds`) or, when the entry of the key in the `ConcurrencyManager` has
no permit left (`flight` = 0), waits (`Waits`): it is answered with what a permit holder
was sent (`Receives`), or turned away to the upstream when that cannot be cached
(`TurnedAway`). So not every MISS is a response to the request's own call, and not every
STALE is without a call on its behalf. What `CacheFuture` has beyond that (backend failures,
drops, the steps between lookup and call) stays in `CacheFuture`: here lookup and call are
one step, and so are an upstream's answer, its broadcast and its storing.

### ServiceConfig, Backends, BackendBuilder, BackendConfig

Builders are records, setters are actions that may come in any order and again, `calls`
is their history. `ServiceConfig` also caches one response under the policy that was
built and lets time pass. `Config` can only be built whole (a typestate), `Endpoint`
fills in defaults. In `BackendConfig` a file is a tree in which what is left out is None;
`Deserialize` fills it in and `Make` builds, given the compiled features and whether
FeOxDB can open its files.

## 3. Runs

| run | instance | shows |
|---|---|---|
| `manager` | 4 requests, 2 keys, limits 1 and 2, drops | type invariant, `ChannelsAnswerOnce`, `PermitsConserved`, `EntryNeverReplaced` |
| `future_safety` | 2 requests, 1 background task, 2 keys, every stale policy, all faults, ageing, refill | type invariant, `StatusMatchesOrigin`, `SharedOnlyIfCacheable`, `ImplementsManager`, `ImplementsLifecycle` |
| `future_progress` | 3 requests, 1 key, limits 1 and 2, nobody drops | `WaiterHasFetcher`, `SingleFlight`, `EveryFutureEnds` |
| `offload_tasks` | 3 calls, 1 cache key and generated keys, every configuration, panics, cancellation | type invariant, `TasksAreTracked`, `WaitAllWaits`, `WaitAllReturns` |
| `composition` | 2 clients, 5 configurations, 1 fault of any kind, 3 calls, 2 responses, time 0..2 | type invariant, `AgreeAtRest`, `ReadsDoNotGoBack`, `NeverServedExpired`, `AckedSetIsStored`, `ParallelServesFreshest` |
| `body_checks` | streams up to 4 bytes over 2 letters, 10 operations, any 3 of them | type invariant, `ForwardedTruly`, `NothingIsMissing`, `VerdictsAreOfTheWholeBody` |
| `stores`, Redis | 3 operations of 2 processes, failing attempts to connect, drops, broken connections, a silent Redis with either timeout or none | `WithinLimits` (every key gets a time to live, one connection per process), `OperationsEnd` |
| `stores`, FeOxDB | in memory: 3 operations on 2 keys, room for 1, callers that leave; with a file: 1 key, 1 restart | `ReadsTheLatest`, `WrittenIsFound` |
| `stores`, Moka | 3 keys, room for 2 entries or 8 bytes, both policies | `EvictsOnlyForRoom` |
| `service`, configuration | 4 calls of setters, a response and three ticks | `ChoicesCount` |
| `service`, endpoints | expressions of two levels over 15 request and 8 response conditions, flat lists of two | `WholeOrNotAtAll`, `EndpointSaysWhatItsFileSays` |
| `service`, keys | 2 requests, one or two extractors of every kind, both key formats | `KeysTellRequestsApart` |
| `service`, messages | 2 requests for one key and their background tasks, Tower and reqwest, every stale policy, with a concurrency limit and without, two formats, repeated headers | `AdaptersPassOn` |
| `service`, builders | 3 calls of setters of a store, a policy and a composition | `ChoicesCount` |
| `service`, backends in files | single stores, pairs under every policy, nested compositions, every set of features | `WholeOrNotAtAll` |
| `service`, compositions | trees of up to three levels and four stores, static and dynamic, every refill policy | `LayersFollow` |
| `service`, metrics | 2 spawn calls, every configuration | `CountersAddUp` |
| `stale_stampede`, `waiter_cleanup`, `waiter_hang`, `offload_dead_entry` | the smallest instance of each finding | a documented claim that the code does not keep (section 6); TLC is expected to refute it |

`stores` and `service` gather components that share nothing at run time: a behaviour
starts with one of them and stays with it, the variables of the others are None, and
variables of one name in several modules are one. A property of such a run says of the
behaviours that have a component what its module says (the type invariant: of all of
them). What a module needs of its constants is assumed of every instance
(`StoresAssumption`, `ServiceAssumption`). Several properties put together what is stated, and
proved, part by part: `ChannelsAnswerOnce`, `TasksAreTracked`, `ForwardedTruly`,
`NothingIsMissing`, `WithinLimits`, `EvictsOnlyForRoom`, `LayersFollow`. `AtMostOneCall`
and `PermitOnlyWhileFetching` have no run: `ImplementsLifecycle` implies them.

`CHECK_DEADLOCK FALSE` is set everywhere because the modelled requests, tasks,
calls and bodies come to an end and the system may then stop; that nobody stops too early
is what `EveryFutureEnds` and `WaitAllReturns` say.

**Bounds.** In the manager, the state machine and the offload manager `Requests`, `Tasks`, `Keys`, `Calls` are
the only bounds on behaviour; every request runs once and no counter is capped. Two keys suffice for
leaks between keys, since no operation looks at more than one. Three requests and
limits 1 and 2 give every role at once on a key: a holder of an old generation, a
holder or a waiter of a new one, and a late waiter (`future_progress`); the run of
the manager alone has a fourth, so that two generations of two holders coexist.
`future_safety` has two requests and a task instead, to leave room for both keys and
every fault; its `TypeOK`, `ImplementsManager` and `ImplementsLifecycle` are
proved for any number. One background task
is enough to write concurrently with a request; a second stale hit finds no free
task and stops there, which hides only behaviour with two revalidations. Three
spawn calls give an overwritten handle, its overwriter, and a call that comes
after both. What the bounds leave open for the manager and the state machine is
closed by the proofs. `future_safety` has every stale policy, and the limits 1, 2 and none
where they make a difference (6 policies); `future_progress` has every stale policy with
every limit.

In `composition`, `MAX_CALLS` = 3 lets a get, a set or a delete be in progress while
another one ends and a third one looks at what the two left; `MAX_FETCHES` = 2 gives an
old and a new response; `MAX_FAULTS` = 1 lets any single step fail, be dropped or be
evicted; `MAX_TIME` = 2 with `SECOND` = 2 has times on, between and after whole
seconds, and lifetimes of 1 to 4 ticks on both sides of every comparison. The same
instance with a fourth call was checked as well. The five
configurations have every read, write, refill and stale policy and every store in
them, not every combination; the proofs are for all. Streams of four bytes over two
letters with patterns of two and three have matches that begin in one frame and end
in another or the one after it, false starts, limits below, at and above the
length, and overlapping prefixes; three operations give every pair of an earlier and
a later reader followed by a store.

In `stores`, `SECOND` = 2, `MAX_TIME` = 2 and lifetimes of three ticks have a value that
is kept for less time than it is valid, and one that expires between two commands, and
after. Redis has two operations in one process and one in another; where it may be silent,
or a timeout is set, the clock stands (`Small`), for then the question is who waits for
whom and not what expires; `Timeouts` has no timeout and each of the two, and with both
an operation waits in neither stage. FeOxDB's two keys
compete for `CAPACITY` = 1; tasks are numbered in the order in which they start, so that
three of them give every order of start and end; the instance with a file has one key,
for keys are persisted one by one, and it alone may restart (`Small`). Moka's
`MAX_WRITES` = 3 writes of three keys overfill the cache (`MAX_ENTRIES` = 2,
`MAX_BYTES` = 8), with `U32_MAX` = 4 below the largest entry, one tick and one round of
pending tasks that may come at any moment. The proofs about `Stores` have none of these
bounds.

In `service`, endpoints have every kind of condition, alone, under And, Or and Not, and in
pairs, with values that do not parse in every place; two levels show every way in which
one operator hands its inner predicate to another. Keys are stored once
(`MAX_ENTRIES` = 1) and asked for by two requests that differ in any part. Setters
are called often enough to choose, choose again and choose something else in between,
before and after each step that builds. Two spawn calls have one deduplicated, one
that overwrites, and one recording while the other counts; `OffloadMetrics` was also
checked alone with three calls (13 million states). Three levels of compositions
are enough for one that is neither the outermost nor the innermost, and four stores for
two compositions side by side; values of two kinds tell an old one from a new one. Two
requests for one key are one that fetches and one that waits, finds what the first stored,
or is stale while the first revalidates; four settings (`SomeCaching`) have each stale
policy, a limit of one and none, an offload manager and `DisabledOffload`. A second request
of the part "keys" is the last (`AsksTwice`). The
proofs about `Service` have none of these bounds.

**Configurations.** A timeout of kind Cancel may or may not fire, so it has the
behaviours of None and Warn as well. `cancel_all` is one step although DashMap
iterates: an iteration equals a sequence of `Cancel` steps, which the model has
too. Symmetry is used in safety runs only.

**Fairness.** `future_progress`: weak fairness of each future's steps. The executor
polls a woken future again, and upstream, backend and predicates are assumed to
answer, because hitbox itself sets no time limit on them. There is no fairness on
`Drop` or `Age`. The steps of a waiter are enabled only when its channel has a
message or is closed, so fairness does not give the waiter what it has to prove.
`offload_tasks`: tasks end and `wait_all` is polled; nothing is assumed of spawn
calls (one may be preempted for ever between spawning and inserting), cancels or
clean-ups. `stores`, Redis: weak fairness of what the program itself does for each operation
(`Client`: it is polled, and a timeout that is set goes off), and of the answers of Redis,
attempts to connect included, in the behaviours in which it is not silent
(`AnswersInTime`). Where it is silent nothing is assumed of it, and `OperationsEnd` says
what then ends: the operations whose stage has its timeout. Both timeouts are optional and
by default there is none (`backend.rs:480-485`, `589-591`, `602-604`), so the property does
not claim more (section 6). Nothing is assumed of drops, broken connections and the clock,
nor of the other backends. The other runs check safety only
and assume no fairness: their operations end when the layers, the stream or the upstream
answer, on which the code sets no time limit.

## 4. Proofs

`ConcurrencyManagerProofs` proves every safety property of the run `manager` for
every set of keys, every finite set of requests and all limits in 1..255 (from
`ManagerAssumption`). The inductive invariant `IInv` adds to the types: an entry of
the map names a channel that was opened for that key and has not been answered;
a permit's or receiver's channel was opened by a request of the same key; a message
was sent by a request of the channel's key; and the free permits plus the holders
equal the capacity. None of the properties is inductive alone: that a channel gets
one message needs that `resolve` only sends on a channel that is in the map, and
that a channel in the map is empty, which in turn needs that a channel never
returns to the map once removed. `EntriesAreOwned` has its own invariant: if no
future is dropped, each entry has a holder, for a holder leaves only by
`resolve` or `cleanup`, which remove the entry of its key.

`CacheFutureProofs` assumes `FutureAssumption` only. Four invariants stand on each other.
`FInv` links the state of a future to what the manager holds for it (a permit only in
PollUpstream and CheckResponseCachePolicy, a receiver only in AwaitResponse, a request
that has not reached the manager unchecked, and the key asked for the future's key). With
it every step of the machine is a step of the manager or leaves the manager alone
(`MachineImplementsManager`), so the manager's theorems carry over. `GInv` adds what the
two know of each other and gives `WaitersHaveFetchers`: a receiver's open channel is in
the map, its entry has a permit holder, and that holder is in a state in which it works.
`CInv` follows every response from the call that made it through channels, the store and
the futures that got it from there: who holds it, under which status, and what the
predicates said of it. From it `CallersAreToldTheTruth` and `OnlyCacheableIsShared`.
`SInv` is about turns when the limit is one: unless a response for the key was refused,
whoever fetches has a permit (`FetcherHolds`), the entry of a permit holder is in the map
(`HolderIsCurrent`), and a channel that is no longer there has answered
(`WaiterIsServed`); one entry has one permit, so two who fetch are one
(`OnlyRefusalsBreakTurns`).

`OffloadManagerProofs` proves the safety properties of `offload_tasks` for every set
of calls, keys and configurations. What has to be found is that a generated key is used by one call
only, so that the handle under it can only be removed by its own task or by a
cancel, and that a handle under a cache key is missing while its task runs only
after two calls overlapped. Counting changes nothing of that: `OffloadMetrics` implements
`OffloadManager` (`MetricsAreTransparent`). That the counters add up needs an invariant
that says at every moment which calls and tasks are still to be counted (`Accounts`): each
counter is then the size of a set of calls, and the gauge is back at zero when no task
runs any more and none panicked or was aborted (`CountersAreRight`).

`CompositionProofs` assumes `CompositionAssumption` (and that a second has at least
one tick). The invariant `IInv` adds `HonestEverywhere` to the types: a value
in a store, on its way from one, on its way to one, or on its way with nobody
waiting comes from a response that was offered and expires no later than it.
`WriteFact` and `ReadFact` show that each of the three stores keeps that, although
Redis mixes the fields of two values and FeOxDB rounds. `NothingExpiredIsServed`
follows for all policies; the arithmetic of rounding is in `Division`, `TtlFact` and
`PreferFact`, from which also `ParallelPrefersLonger`.

The order of responses needs more, `JInv`. It says how far a write can be (`Shapes`),
where the floor is (`Floors`) and when values have no times (`NoTimes`); and, each unless
one of the causes that excuse it has happened: there is one writer, it is not behind the
floor, and what it has written is there or gone (`OneWriter`, `Ahead`, `Written`); what a
set has written stays for its time (`Stays`); neither a layer nor what was read from it is
behind the floor (`Current`); and the layers agree unless a set is under way, whose
value is then newer than anything in L2 (`Agreed`). None of these is
inductive alone: that the layers agree at rest needs that a set which has returned has
written both, which needs that nobody else wrote in between. A step is of one of few kinds -
a read, a write, a removal, a start, a return, a loss, a tick - and each part is shown
kind by kind. From it `LayersAgree`, `ReadsGoForward` and `AckedIsStored`.

`StoreProofs` assumes `StoresAssumption`; any number of tasks, keys and processes.
Redis: a key can be without a time to live only by the doing of a write that has none, is
between its two commands, or failed there (`Blamed`), and a process that has opened its
cell does not open it again (`CellsOpenOnce`). FeOxDB: a write that was answered is in the
store, or what is there began before the answer and took its place, or the time of one of them
is over, and the same of the file for what was flushed (`Kept`); what can be found is
nothing that an answered operation has replaced (`Latest`). Both are relations between
operations that overlap, so every step is first shown to be one of a few `Moves` of
operations and contents, and the invariant to survive each of those. Moka: a key is counted
once, and no entry is kept for less than its own time (`KeptLongEnough`); an entry
that goes was then deleted, over, or in the way. That it was in the way is about the sum of
the weights: sums over sets are met by induction over the finite sets, as the well-founded
order of their subsets, so `MokaEvictsOnlyForRoom` states all of `EvictsOnlyForRoom`: the
capacity holds once the pending tasks have run, and LRU does not refuse what fits.

`CacheFutureProofs` also proves the invariant of the abstract machine (`LifecycleInvariant`,
for lives that change in any way the transition enums allow): a call of the
upstream is made once, a permit is held only while fetching, a response is stored only
under a key. It proves that `CacheFuture` implements it for all
sets of requests, tasks and keys (`MachineImplementsLifecycle`), from `HInv`, which is
`GInv` with `StaleIsKeyed`: a future that handles a stale value,
and the background task it starts, have its key. There is a lemma for each
action: it maps to the transition of its state or to a stutter. `AtMostOneCall` follows
from the abstract invariant through the refinement (`MachineCallsOnce`).

`HttpBodyProofs` assumes `HttpBodyAssumption`. Its invariant says of every moment
that what was sent, what the body holds as a prefix and what the reader has
buffered are, put together, exactly what was read of the stream, as long as nothing
is lost; and that a rest that is an error or nothing means that the stream is at
its end. All properties of `body_checks` follow, for streams of any length.

`ServiceProofs` assumes `ServiceAssumption`: any number of setter calls, requests, heads,
header names and tasks. Its invariant has a conjunct for each part. `CInv` and `BInv` relate
what a builder holds to the list of its calls. A recursive function over that list finds the
calls that still count, since a policy or a composition may be begun anew; each setter is
shown to change what it finds in its own field and nowhere else, so what is built has every
last choice (`ServiceChoicesCount`). `HInv` says that the entry in the store is, serialized,
a response that the upstream sent, and that an answer is one as it comes out again, that of
the request's own call if it made one. For waiters it adds that what they are told was sent
to a future that had not ended when they came (`past` holds those that had), and that there
is a limit; for background tasks, that before its request is answered a task has not called.
Each step moves one future, or a request and its task, and changes of the others at most
what is in their mail (`MoveH`). That a response comes out as it went in is `HeadersRoundTrip`: headers are flattened to a list of pairs, name
by name and value by value, and appended to an empty map in that order; what the fold has
after the pairs of the first n names are the values of these names, and nothing under the
others. Both lists are met by induction over numbers in the form of sets (`NatInd`), because
the library's own induction takes an operator. The tasks are those of `OffloadManagerProofs`,
of which `ServiceProofs` has an instance (`SameTasksInit`, `SameTasksNext`).

That keys tell requests apart (`ServiceKeysApart`) holds for any chain of extractors, any
requests, and any order in which maps yield headers and parameters. It is the
subject of `KeyProofs`, whose invariant `KInv` is short: an entry is stored under a key of its own request, and what was answered is the entry
of the key that was asked for. The rest is about the functions that make keys, and has three
steps. Two keys have one serialised form exactly if their parts are `Like`: the same names in
the same places, with the same values as the form can tell (`Serialized`); for bitcode, because
columns are read back as they were (`Decoded`): the number of parts with a value up to a place
is the place of its value in their column. Two chains have like parts exactly if each extractor
has (`KeysAlike`, `KeysDiffer`): `Sub` takes the parts of some names out of a list, it
commutes with concatenation, and as names differ from one extractor to the next it finds the
block of each, whatever the lengths of the blocks before it. The parts of one extractor are
like exactly if it sees the same in both requests (`PartsAlike`), kind by kind; where it
selects names with a prefix, the parts come sorted by name (`SortedAlike`), which are
blocks again, one for each name, so the order of the map is lost and the order of the
values of one name is kept. Filters are functions from places to the items at them (`Pick`),
and two lists of places in their order are one (`ListingIsOne`).

Only model-checked: `Predicates`, `EndpointConfig`, `LayeredBackend` and `BackendConfig`,
which are about trees and use RECURSIVE operators, which the prover cannot handle
(`WholeOrNotAtAll`, `EndpointSaysWhatItsFileSays`, `LayersFollow`); and the counterexamples.
`UrlDecode` is modelled, but no property reads a key back in that form, which does not keep the
difference between an empty value and none.
Liveness (`EveryFutureEnds`, `WaitAllReturns`, `OperationsEnd`) is out of its reach.

## 5. What is not modelled

What codecs do to bytes (serde, bincode, rkyv, ron, gzip, zstd, bitcode): decoding undoes
encoding and fails on what it did not encode. The reading of YAML by serde: a file is the
tree that serde yields, with a mark for what does not parse. Regular expressions, jq and path
resources are the sets and functions they stand for. Counters and histograms other than
those of the offload manager and of Moka, tracing, and the memory accounting of keys,
which no control flow reads. The cluster modes and replicas of Redis, which are the redis
crate's. The Tarantool crate, which is written against an older API and is not a member
of the workspace. Test worlds and mocks, which served as a reference for intended
behaviour. In `CacheFuture` the verdicts of predicates and the extracted key are
nondeterministic, and thus cover every implementation; what they are is the subject of `Predicates` and `CacheKey`.
A panic inside the future is a drop: unwinding drops its fields.
`max_concurrent_tasks` (`offload/policy.rs:22`) is documented as a maximum of
concurrent offloaded tasks and no code reads it, so there is nothing to model.

Of the composition: `Composition` takes a pipeline of Redis as one step, which `RedisBackend`
opens, and drops an entry at its last millisecond; failing layers and concurrent
operations of nested compositions; the losers of read races, which change nothing
(`let _ = l2_fut.await`). Three levels of composition give even compositions held by
their types a shortened source, which `ShallowSourceNamesTheLeaf` leaves out. The
composition's requests do not ask the concurrency manager: the two components share no
state, and more concurrent fetches than it would allow only add behaviours. Trailers of
bodies are in `HttpService` only. Of `CacheFuture`, `HttpService` has what section 2 lists;
clients that go away, failing backends, and what happens between a lookup and the call
after it are checked in `CacheFuture`. What the redis crate does on its own when
no timeout is set is not in the repository, and nothing is assumed of it.

The map covers about three tenths of the repository by lines. Most of the rest is
documentation inside the source files, tests, test worlds and mocks, and code without
control flow of its own: configuration types, accessors, codecs.

## 6. Findings

* `stale_stampede`: with `StalePolicy::Revalidate` the upstream is called without
  asking the concurrency manager (`states.rs:897`), so `ConcurrencyLimit` 1 does not
  keep two requests from fetching at once (`policy.rs:12`).
* `waiter_cleanup`: a waiter whose channel closed removes the entry its key has by
  then, which can only be another generation's (`states.rs:1004`); the waiters of that
  generation are turned away to the upstream as well.
* `waiter_hang`: if the permit holder's future is dropped, its entry and with it the
  sender stay in the map, and the waiters are not woken (`concurrency.rs:198-203`
  expects that they see Closed). A later request for the key takes the free permit
  and repairs the entry; without one they wait for ever.
* `offload_dead_entry`: a task that ends before its handle is inserted leaves a
  finished handle, and deduplication skips the next task of the key
  (`manager.rs:151-164`).

`SingleFlight` states what the first two leave of the limit: with limit 1, no
foreground revalidation and nobody dropping futures, two requests of a key fetch at
the same time only after a refused response. The repository's feature tests expect
that case: after a response that may not be cached, all waiters go to the upstream.

Disagreements met while modelling, which the models contain (a property names them as its
exceptions, or is stated so that they do not matter) and no run of their own refutes:

Composition:

* A composition that is called as a trait object stores its values
  without expiry and stale time (`format.rs:261-264`), so they are answered for ever.
  Every composition that a configuration file makes is an `Arc<dyn Backend>`
  (`hitbox-configuration/src/backend/composition.rs:70`). The tests of expiry
  (`tests/composition/nested.rs:619`) call a composition directly. The stores of an inner
  composition keep values without their expiry for the same reason.
* All compositions have the same format identifier, so two of them
  with different stores share bytes that the second cannot read (`format.rs:77`).
* RefillPolicy::Always behind a trait object, or of an inner composition, fills nothing
  (`backend.rs:339`, `mod.rs:787`).
* A composition behind a trait object names itself as the source, not the layer
  (`backend.rs:309`).
* `compose()` never refills; its comment says it always does (`compose.rs:62`).
* The read mode `Refill` of a hit in L2 stays in the context when the value turns out
  stale or expired, and the response that is then fetched is written as a refill:
  to L1 only with refill policy Always, not at all through a trait object
  (`mod.rs:787`, `mod.rs:809`; `backend.rs:336-337` says "The source
  backend already has this data").
  `AgreeAtRest` fails without its exception `skipped`: a request misses and sets;
  L1 expires or loses a race, the value is read from L2, is stale, is revalidated, and
  the fresh one is written to L1 while L2 keeps the old one.
* Through a trait object every hit in L2 asks for a refill whatever the refill policy,
  and none is carried out (`backend.rs:304` sets, `backend.rs:339` returns).
* A value with less than a second to live has no `ttl()`. Redis then keeps it without an
  expiry, or with that of the value before it; a configured ttl of one second is always
  below one by the time it is written. A parallel read takes such a value for one that
  never expires and prefers it (`parallel.rs:96`).
* Redis keeps the stale time of the previous value under a new one that has none.

Stores:

* A connection that breaks between HSET and EXPIRE leaves an entry in Redis for good
  (`backend.rs:853`).
* A PTTL of 0 or -2 after HMGET found the data is read as no expiry (`backend.rs:835`).
* A Moka cache of `max_entries()` is TinyLFU and may refuse the entry just written
  (`builder.rs:390`); its gauges are set before Moka has counted, and only by writes
  (`backend.rs:169`).
* A key that goes between `contains_key` and `delete` of FeOxDB is an internal error
  (`backend.rs:362`); a value with less than a second to live is stored for good
  (`backend.rs:347`).
* Both timeouts of the Redis backend are optional, and the documentation calls the default
  "No timeout (waits indefinitely)" (`backend.rs:589-591`, `602-604`; the code sets a
  timeout only if there is one, `480-485`). With a Redis that does not answer and no
  connection timeout, the operation that opens the connection waits, and every other
  operation of the process waits with it in the `OnceCell`; without a response timeout
  whatever was sent waits. `OperationsEnd` leaves out these two cases (`Waits`), and
  TLC finds them without the exception.
* The key format of FeOxDB and Moka is configured and not used
  (`feoxdb/src/backend.rs:305`).

Around the cache:

* Or, Not and a list of paths return what they build without the
  predicate they were given (`operation.rs:28-54`), so an And forgets the conditions listed after
  them in a request, before them in a response; the expression an And lists last is
  checked first (`operation.rs:47`).
* A condition on the body reads it although the request has been refused already
  (`predicate.rs:113`).
* A header prefix with a capital letter, as the documentation writes them, selects no
  header (`header.rs:184`); a nested query parameter takes all others out of the key
  (`query.rs:57`); the UrlEncoded form reads an empty value back as none (`key.rs:85`).
* The inner service that is called is a clone of the one that said it was ready
  (`service.rs:152`). A limited inner service therefore panics, also on a stale hit under
  `OffloadRevalidate`: `CacheFuture::revalidate` calls the upstream itself, before the task
  is spawned (`future.rs:163`).
* MISS does not say that the request went to the upstream. A request that waited
  for another one's response is answered with it under MISS (`states.rs:987-991`), which
  the feature test of the concurrency limit expects: one call, three MISS
  (`hitbox-test/tests/features/concurrency/concurrency.feature:20-39`). STALE does not say
  that nothing was asked of the upstream: under `OffloadRevalidate` the same request is
  sent there in the background (`states.rs:907-921`). `StatusHeaderTellsSource` claims what
  is left: a MISS is never an old response, and HIT and STALE never hide a foreground call.
* Under `OffloadRevalidate` with `DisabledOffload`, the upstream is called and its future
  dropped unpolled. `future.rs:289` says that this "does nothing when offload is disabled",
  which holds only of upstreams whose `call` does nothing before it is polled; `layer.rs:356`
  calls `DisabledOffload` "synchronous revalidation", but the entry stays stale.
* A response that is cached comes back without extensions and trailers, also on a miss
  (`response.rs:388`).
* The ttl and the stale time both count from the response (`states.rs:379`); with a stale
  time as long as the ttl or longer nothing is ever stale, while the README lets the stale
  window follow the ttl.
* A task that panics or is aborted stays in the gauge of active tasks (`manager.rs:170`).
* A `Contains` predicate that matches drops the rest of the stream and its error
  (`plain.rs:91-97`); request, response and cached response are cut off behind the frame
  of the match.
* `collect` drops the bytes it has read when the stream fails (`body.rs:574-579`,
  `596-599`); `collect`, `collect_exact` and the search drop trailers.

## 7. Plan

Done: everything of sections 2 to 4. What would come next, in this order:

1. That each store of `Stores`, when its operations do not overlap, does what `Storage`
   takes to be one step of it.
2. Failing layers and concurrent operations in `LayeredBackend`; trailers in `HttpBody`.
