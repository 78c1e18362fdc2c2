# Formal models of the isekai API gateway

This directory holds TLA+ models of the isekai gateway (the Go sources under
`src/`), the TLC configurations that model-check them and TLAPS proofs about
them. `PROJECT.json` is the machine-readable index: the components, every
run, the mutants that show each property can fail, the source lines each
definition translates, the findings, the hazards and the theorems.

## 1. The system

The gateway is a single Go process. `EngineV2` (`unnamed/part_002`)
builds everything and starts it:

| part | source | state | operations |
|---|---|---|---|
| metadata cache | `internal/cache/cache.go` | `items` map key -> {Value, Expiration}; RWMutex; stop channel | `Set`, `SetWithTTL` (evicts the entry with the smallest expiration when `len >= maxSize`), `Get`, `Delete`, `Clear`, `Size`, `deleteExpired` (ticker goroutine), `Stop` |
| route admin | `internal/handlers/handlers.go` (RouteHandler) | none of its own | `List`, `Get`, `Create`, `Update`, `Delete`: cache-aside reads, write then invalidate |
| route repository | `unnamed/part_004` | the PostgreSQL `routes` and `request_logs` tables | `FindAll`, `FindByID`, `FindByPath`, `Create`, `Update`, `Delete`; request log `Create`, `FindByRouteID` |
| proxy handler | `handlers.go` ProxyHandler, `unnamed/part_003` Proxy | none | route lookup by path and method (no cache), circuit breaker `Execute` of `ForwardAndCopy`, asynchronous request logging |
| circuit breaker | `unnamed/part_000` (from line 269) | one gobreaker per target (map + RWMutex) | `GetBreaker` (double-checked creation), `Execute`, `GetState`, `GetAllStates` |
| rate limiter | `unnamed/part_005` | per client IP, the list of request times in the last second; mutex | `Allow`, `cleanup` (minute ticker), `RateLimit` middleware (429) |
| timeout middleware | `unnamed/part_005` | a context with deadline per request | handler runs in a goroutine; 504 on deadline |
| load balancer | `unnamed/part_003` (from line 192) | backends, health and connection counts, uint32 round-robin counter | `AddBackend`, `RemoveBackend`, `GetBackend` (round robin or least connections), `MarkHealthy` |
| websocket hub | `internal/middleware/metrics.go` (from line 43) | `clients` map id -> client, register/unregister/broadcast channels | `Run` loop, `Broadcast`, `SendToClient`, `readPump`/`writePump` per client |
| engine | `unnamed/part_002` | server, hub, workers, `shutdown` channel, WaitGroup | `Start`, `Stop`, background workers |
| auth, metrics, tracing, logger, config, response, migration | `unnamed/part_001`, `part_006`, `internal/tracing`, `pkg/*`, `part_007` | configuration and stateless helpers | not modelled (pure functions, I/O or configuration) |

How they interact: every HTTP request is served on a goroutine of its own and
passes the middleware chain (request id, logger, recovery, CORS, metrics,
rate limiter, timeout), then either the admin handlers, which share the
metadata cache and the routes table, or the proxy handler, which reads the
routes table and forwards through the circuit breaker of the target. The
engine starts the server, the hub and three workers and stops them on a
signal.

The behaviours that make it hard: concurrent admin requests interleaving
their cache calls and SQL statements; a cache fill whose data is older than a
concurrent invalidation; keys derived from unnormalised input; counters and
bounds (cache size, rate limit window, uint32 round robin); a breaker that
only sees what `Forward` calls an error; goroutines that outlive the
component they write to (timeout middleware, request logging, hub clients);
shutdown that waits for goroutines that never learn of it.

## 2. Modules

| module | models | state | actions |
|---|---|---|---|
| `Cache` | `cache.go` | `items` (total function from `Keys` with the sentinel `NoItem` for "no entry"), `now`, `stopped` | `SetWithTTL`, `Delete`, `Clear`, `DeleteExpired`, `Stop`, `Tick` |
| `CacheProofs` | proofs about `Cache` | | |
| `BreakerProofs` | proofs about `Breaker` | | |
| `HubProofs` | proofs about `Hub` | | |
| `RouteAdminProofs` | proofs about `RouteAdmin` and its use of `Cache` | | |
| `RateLimiterProofs` | proofs about `RateLimiter` | | |
| `RouteAdmin` | RouteHandler + RouteRepository + the cache (`INSTANCE Cache`) | `db` (id -> [ver, present]), `nextId` (SERIAL), `lastVer`, `cache`, `now`, per goroutine `pc`, `arg`, `local`, `wrote`; ghosts `floor`, `committed`, `served` | `GetLookup`, `GetDB`, `GetFill`, `ListLookup`, `ListDB`, `ListFill`, `Create`, `CreateInv`, `Update`, `Delete`, `InvalidateList`, `InvalidateRoute`, `Sweep`, `Tick` |
| `RateLimiter` | `RateLimiter`, `Allow`, `cleanup`, `RateLimit` (`unnamed/part_005`) | `requests` (key <<ip, port>> -> list of times, on the keys the map holds), `now`; ghost `admitted` (per IP, times let through) | `Allow` (three branches: new key, deny, admit), `Cleanup`, `Tick` |
| `Hub` | `Hub.Run`, `readPump`, `writePump`, `ServeWS` (`metrics.go`), client ids of `websocketHandler` (`unnamed/part_000`) | `clients` (id -> connection), per connection `phase`, `cid`, `queue` (messages in `Send`), `closes` (calls of `close(Send)`); `bcast`, `msgs`, `hubUp` | `Connect`, `Register`, `Read`, `ReadError`, `Unregister`, `Write`, `HubBroadcast` (with `DropSlow`), `HubStop` |
| `Engine` | `EngineV2.Start`, `Stop`, the workers (`unnamed/part_002`) | `mainPc`, `sigBuf` (values in `e.shutdown`), `signals`, `listening`, `hubCtx`, `running` (goroutines counted in `e.wg`), `dbOpen` | `Signal`, `Receive`, `StopServer`, `CloseDB`, `ServerExit`, `HubExit`, `WorkerExit` |
| `Breaker` | `CircuitBreaker.Execute`/`GetBreaker`/`New` (`unnamed/part_000`), `Forward`/`ForwardAndCopy` (`unnamed/part_003`), `ProxyHandler.Handle`; gobreaker from spec 4.4 | `cb` (state, generation, counts, expiry), `now`, per request `pc`, `pgen`; `calls`; ghost `badGen` | `Before` (admission), `After` (fn returns with 2xx, 5xx or a transport error), `Tick` |
| `LoadBalancer` | `AddBackend`, `RemoveBackend`, `MarkHealthy`, `GetBackend`/`roundRobin` (`unnamed/part_003`) | `backends` (sequence of [url, healthy]), `current` (Width-bit counter); ghost `picks` | `AddBackend`, `RemoveBackend`, `MarkHealthy`, `GetBackend` |
| `MCCache`, `MCRouteAdmin`, `MCRateLimiter`, `MCHub`, `MCEngine`, `MCBreaker`, `MCLoadBalancer` | constants for TLC | | |

**Cache.** Each exported method holds the cache's mutex for its whole body,
so each is one atomic step. `evictOldest` iterates a Go map, whose order is
random, and keeps the first key with the strictly smallest expiration: the
model lets any of the oldest keys go. A key `""` is never deleted by it
(`oldestKey != ""`), which the constant `EmptyKey` keeps visible.

**RouteAdmin.** A process is a request goroutine serving one request after
another. Handlers are cut where another goroutine can run: each cache call
and each SQL statement is one step (`GetLookup` = `cache.Get`, `GetDB` =
`FindByID`, `GetFill` = `SetWithTTL` + response; `Create` = the INSERT,
`CreateInv` = `cache.Delete("routes:all")` + 201; `Update`/`Delete` = the SQL
statement, `InvalidateList` = `cache.Delete("routes:all")`,
`InvalidateRoute` = `cache.Delete("route:" + idStr)` + 200; each `Delete`
takes the cache's lock on its own, so another goroutine can run between
them). A row is abstracted
to the version of the write that produced it: every effective write stamps a
fresh version. `committed[id]` is the version of the latest write to `id`
whose handler has returned success, and `floor[p]` is `committed` when `p`'s
request started. A request's `{id}` is a string of `IdStrs` and `IdOf` is
`strconv.Atoi` on it, so two spellings of one id can be modelled. Request
decoding and validation (400s) and database errors other than "no row" are
left out: they return before any state changes.

**RateLimiter.** `Allow` and one whole pass of `cleanup` hold `rl.mu`, so
each is a step. The middleware keys the map by `r.RemoteAddr`, which is
`IP:port`; the model keeps the two apart so that "one client" (the spec's
unit) and "one key" (the code's) can differ. The ghost `admitted` records the
times of the requests that reached the handler, and the ghost `refused` the
client the last step answered with 429. The pruning loop of `Allow` and
`cleanup` (`for _, t := range times { if t.After(cutoff) { valid =
append(valid, t) } }`) is `Filter(times, cutoff)`: the positions `After`
whose timestamp is after the cutoff, and as the r-th element of the result
the timestamp at the kept position of rank r (`Rank`). It is written as a
function over `1..Cardinality(After(...))` rather than with `SelectSeq`, whose
recursive definition the provers cannot unfold; both keep the same elements
in the same order.

**Hub.** `Run` is the only writer of `h.clients`. Each case of its `select`
is one step; a send on the unbuffered `register`/`unregister` channels is one
step with the case that receives it. The broadcast loop, which drops and
retakes the lock around a deletion, is one step because nothing else writes
the map. `closes[c]` counts `close(c.Send)`; a second close panics.

**Engine.** The initial state is the one after `Start` launched the server,
the hub and the three workers. `Stop`'s non-blocking calls (`wsCancel`,
`router.Shutdown`, `cache.Stop`) are folded into `StopServer`, whose second
branch is `server.Shutdown` returning an error (the process then exits).
`signal.Notify` drops a signal when the capacity-1 channel is full.

**Breaker.** gobreaker is not in the repository; its state machine (the
generation counter, `currentState`, `beforeRequest`, `afterRequest`,
`onSuccess`, `onFailure`) is modelled from spec 4.4 and marked
`spec_modelled` in `PROJECT.json`. The repository's part is modelled from the
code: `ReadyToTrip` from `New`, and `Success`: the function passed to
`Execute` fails only on a transport or copy error, since `Forward` returns
`resp, nil` for every status.

**LoadBalancer.** `NewV2` builds it with round robin, the only strategy
modelled. `lb.current` has `Width` bits; the code's is a `uint32`.

## 3. Runs

| run | cfg | expect | checks |
|---|---|---|---|
| `cache_bound` | `MCCache.cfg` | pass | `SizeBound`, `ExpiredPurged` (janitor fair) with 3 keys, `MaxSize = 2`, TTLs 1..2, clock to 3: eviction, overwrite of a present key, expiry and sweeping all happen |
| `route_seq` | `RouteSeq.cfg` | pass | `ReadsSeeCompletedWrites` with one goroutine, ids "1", "2", up to 4 writes, `MaxSize = 2` for 3 keys, so eviction happens |
| `route_race` | `RouteRace.cfg` | violation | `ReadsSeeCompletedWrites` with two goroutines: a List fill older than a Create's invalidation is cached |
| `route_alias` | `RouteAlias.cfg` | violation | `ReadsSeeCompletedWrites` with the id strings "1" and "01" |
| `rate_seq` | `RateSeq.cfg` | pass | `WindowLimit`, `StoredBound`, `NoFalseRefusal`: two clients with one connection each, limit 2, window 2 ticks, clock to 4 |
| `rate_ports` | `RatePorts.cfg` | violation | `WindowLimit` for one client connecting from two ports |
| `hub_safe` | `HubSafe.cfg` | pass | `NoSendOnClosed`, `BroadcastDrains` (Run fair) with three connections, `Send` capacity 1, two messages |
| `hub_double_close` | `HubDoubleClose.cfg` | violation | `NoDoubleClose` with two connections |
| `engine_shutdown` | `EngineShutdown.cfg` | violation | `ShutdownCompletes` under weak fairness of every goroutine, one signal |
| `breaker_probe` | `BreakerProbe.cfg` | pass | `CountsConsistent`, `ProbeBound` with four concurrent requests, `MaxRequests = 3` |
| `breaker_5xx` | `Breaker5xx.cfg` | violation | `BackendFailuresTrip`: a backend answering 500 |
| `lb_wrap` | `LBWrap.cfg` | violation | `RoundRobinFair` with three backends and a 3-bit counter |

`ReadsSeeCompletedWrites` says that a List or Get response never carries a
route older than the latest write to it whose handler had returned success
before the reading request began. With one goroutine it holds: every write
invalidates the keys a reader of the same spelling uses before it returns.
With two, a fill races the invalidation (the classic cache-aside race), and
with aliases the invalidation misses a key. Both are recorded as findings.

`WindowLimit` says that in every window of `Window` ticks at most `Limit`
requests of one IP reach the handler. It holds when a client uses one
connection, and fails when it uses two: the code limits connections, not
clients. `StoredBound` says a key never stores more than `Limit` times (the
deny branch stores only the pruned list). `NoFalseRefusal` is the other
direction: a 429 goes only to a client that had `Limit` requests through in
the current window. Keeping the timestamp that sits exactly on the cutoff
(`!t.Before` instead of `t.After`) breaks it and not `WindowLimit`.

`NoSendOnClosed` says the hub's map never holds a client whose `Send` is
closed, so `Run`'s broadcast never sends on a closed channel; it holds even
with ids reused. `NoDoubleClose` fails: ids are `client-<count+1>`, a
broadcast that drops a slow client frees its id, a new client takes it, and
the old client's unregister deletes the new client's entry and closes its own
`Send` a second time. `BroadcastDrains` says every message in
`h.broadcast` is eventually taken while the hub runs, even when a peer stops
reading: the `default` case that drops a client with a full `Send` is what
keeps `Run` from blocking, and with it every `readPump` in `Broadcast`.

`ShutdownCompletes` fails with one signal: `Start` takes the only value of
`e.shutdown`, `Stop` reaches `wg.Wait`, and the three workers wait for values
that never come. (It may also fail the other way: a worker takes the value
and `Start` never wakes.)

`CountsConsistent` says the breaker's request count is its successes plus
its failures plus the calls of its generation still running: a call that
outlives the interval, the Open timeout or a probe round is not counted in
the new generation. `ProbeBound` says at most `MaxRequests` HalfOpen probes
run at once. `BreakerTransitions` (an action property: every state change
is Closed -> Open, Open -> HalfOpen or HalfOpen -> Closed/Open and starts a
new generation) is proved (`TransitionsLegal`) but not run: the moves are
fixed by how `Refresh`, `OnSuccess` and `OnFailure` are written, and with
`MaxRequests = 3` a late result from an old generation cannot force an
illegal move, so the run would not catch the stale-result hazard;
`CountsConsistent` does. `BackendFailuresTrip` (spec scenario 3) fails: three 500s leave
the breaker Closed with no failure counted.

`RoundRobinFair` fails when the counter wraps: with 3 backends and 8 counter
values the selections run 2, 3, 1, 2, 3, 1, 2, 1. The code's `uint32` wraps
after 2^32 selections; 2^32 is no multiple of 3, so the same happens there.

Bounds: two ids and four writes give create, update, delete, delete of a
missing row and re-reads of each; `RouteTTL = 1` and `MaxTime = 2` let
entries expire and be swept. The races need only two goroutines and one
write.

The other bounds: the rate limiter's clock to 4 with window 2 covers windows
that slide over admitted, denied and cleaned-up requests. The hub's three
connections with a `Send` of capacity 1 let a broadcast find one client full
and another not, and a freed id be taken. The breaker's four requests with
`MaxRequests = 3` are one more than the HalfOpen gate admits; eight calls and
a clock to 3 let it trip, time out, probe and close or reopen.

Fairness. `Engine`'s specification has weak fairness on the main
goroutine's steps, on the server and hub goroutines and on each worker: the
Go scheduler runs every runnable goroutine eventually, and the property needs
nothing more. The environment (sending signals) is not fair. `Hub`'s
`FairSpec` has weak fairness on the three cases of `Run`'s `select`
(`Register`, `Unregister`, `HubBroadcast`): `Run` loops on that select, and a
case whose channel stays ready is eventually taken. The pumps and the peers
get none, because a peer may stop reading at any time. `Cache`'s `FairSpec`
has weak fairness on a pass of `deleteExpired` (`Cleanup`): `startCleanup`'s
ticker fires every `cleanupInterval` until `Stop`. The callers of the cache
get none. The other specifications are safety specifications
(`Init /\ [][Next]_vars`).
`HubSafe.cfg`, `EngineShutdown.cfg` and the breaker cfgs do not check
deadlock: the hub stops for good once every connection has gone or the hub is
cancelled, the engine once it has exited, and the gateway idles once the
clients stop sending.

## 4. Proofs

`CacheProofs` proves, for every finite key set, every value set, every TTL
set and every `MaxSize >= 1` (assumption `CacheAssumption`, which also states
that no key is `""`):

* `TypeCorrect`: `Spec => []TypeOK`;
* `SizeBounded`: `Spec => []SizeBound`. `SizeBound` alone is not inductive;
  the inductive invariant is `TypeOK /\ SizeBound`: the step of `SetWithTTL`
  needs the map to be well typed (so that the inserted entry is never
  `NoItem` and the map without the evicted key has one entry fewer). Lemmas:
  `CachedStore`, `CachedWithout`, `CachedFinite`, `EvictOneLess`, proved from
  `FS_AddElement`, `FS_RemoveElement` and `FS_Subset`.

`BreakerProofs` proves, for every finite set of request goroutines, every
`MaxRequests >= 1`, `Interval >= 1` and `Timeout` (assumption
`BreakerAssumption`):

* `TypeCorrect`: `Spec => []TypeOK`. Every way the code changes the
  breaker record (a new generation, counting an admitted request, `onSuccess`,
  `onFailure`) is shown to rebuild a record of `Breakers` field by field
  (lemmas `BreakerRecord`, `BreakerFields`, `SetField`, `NewGenType`,
  `AdmitType`, `DoneType`).
* `CountsAreConsistent`: `Spec => []CountsConsistent`, and
* `ProbesBounded`: `Spec => []ProbeBound`.
  `CountsConsistent` alone is not inductive. When the breaker moves to a new
  generation (`Refresh` at the end of an interval or of the Open timeout,
  `onSuccess` closing or `onFailure` opening it), its counts restart at 0.
  That is consistent only if no running call already carries the new
  generation number. The inductive invariant `IInv` therefore adds
  `NotAhead`: every running call was admitted in the current or an earlier
  generation. It also adds that a HalfOpen breaker has counted at most
  `MaxRequests` requests, which is what gives `ProbeBound`. `IInv` was
  checked by TLC as an invariant of `BreakerProbe.cfg` before it was proved.
  The step proof has one lemma per code path: `RefreshGood` (currentState),
  `AdmitGood` (beforeRequest letting a request through) and `DoneGood`
  (afterRequest, both with the generation check dropping a late result and
  with the result counted). `NewGenGood` covers every new generation.
  The proofs state the type of the fields they use (`Counted`) rather than
  membership in the record set `Breakers`, which the SMT backend handles
  poorly under `EXCEPT`.
* `TransitionsLegal`: `Spec => BreakerTransitions`, the action property. From
  `IInv` every step is shown to satisfy `Move`: `RefreshMove` (a refresh
  either leaves the record alone or starts generation `gen + 1` in the next
  state of the cycle), `ResultMove` (onSuccess/onFailure) and `StepMove`.

`HubProofs` proves, for every finite set of connections and every `Send`
capacity:

* `NoSendOnClosedHolds`: `Spec => []NoSendOnClosed`. The invariant alone is
  not inductive: a client closed while out of `h.clients` must never come
  back, and `Unregister`, which deletes by id, must not close a client that
  stays in the map. The inductive invariant `IInv` says every entry `i` of
  `h.clients` is a client whose id is `i`, whose pumps run and which was
  never closed (`Entry(i)`), and that a client not yet registered was never
  closed. One lemma per `Run` case (`RegisterInv`, `UnregisterInv`,
  `BroadcastInv`) and one for `websocketHandler` (`ConnectInv`).

`RouteAdminProofs` proves, for every finite set of request goroutines and
id strings, every `MaxRoutes`, `MaxWrites`, TTL and `MaxSize >= 1`
(assumptions `RouteAdminAssumption`, `RouteCacheAssumption`, and
`RouteKeysAssumption`: the keys `"route:" + s` differ from `"routes:all"`
and from each other, a fact about string concatenation that TLC evaluates
and the provers cannot derive):

* `TypeCorrect`: `Spec => []TypeOK`, for any number of concurrent requests.
  `TypeOK` alone is not inductive: a fill stores the goroutine's `local`, so
  the invariant `TInv` adds that the entry under `"routes:all"` is a listing
  and the entry under each `"route:"` key a row (`CacheTyped`), and that a
  goroutine about to fill holds a row or a listing and an id string of
  `IdStrs` (`StageTyped`). `TInv` was checked by TLC with two goroutines
  before it was proved. One lemma per action (`GetLookupT` ... `TickT`).
* `SequentialReadsSeeCompletedWrites`: `Spec => []ReadsSeeCompletedWrites`
  under two hypotheses: one goroutine (`Sequential`) and `IdOf` injective
  (`Canonical`). Both are needed: `route_race` and `route_alias` are the
  counterexamples without them, and `route_seq` satisfies both. The
  inductive invariant `FInv` adds `TableFresh` (committed versions never
  exceed the table's), `CacheFresh` (every cached listing and row is at
  least as new as the committed versions it shows) and `StageFresh` (what
  the goroutine read, wrote or is about to invalidate, including that
  `"routes:all"` is already gone when it reaches `InvalidateRoute`). `FInv`
  was checked by TLC on the `route_seq` constants before it was proved. One
  lemma per action (`GetLookupF` ... `TickF`).
* `HandlersRefineCache`: `Spec => C!Spec`. Every handler step is a step of
  module `Cache` (`GetFill`, `ListFill` are `SetWithTTL` with the handlers'
  TTL; `CreateInv`, `InvalidateList`, `InvalidateRoute` are `Delete`; `Sweep`
  is `DeleteExpired`; `Tick` is the clock) or leaves the cache alone, with
  `stopped` mapped to `FALSE` (the cleanup goroutine runs as long as the
  handlers do).
* `RoutesCacheBounded`: `Spec => []CacheSizeBound` (not a run of its own:
  it is the cache's `SizeBound`, which `cache_bound` checks), from the refinement and
  `CacheProofs!SizeBounded` taken through an `INSTANCE` of `CacheProofs`
  whose assumption is discharged for the handlers' keys (`CacheKeysFinite`).

`RateLimiterProofs` proves, for every `Limit >= 1`, `Window >= 1` and clock
bound:

* lemmas about the pruning loop: `Filter(s, c)` is a list of the elements of
  `s` with `Len = Cardinality(After(s, c))` (`FilterFacts`, resting on
  `RankInj`/`RankOnto`, which make `Rank` a bijection from the kept positions
  onto `1..n`); for every later cutoff `d >= c`, `Filter(s, c)` and `s` have
  the same number of timestamps after `d` (`FilterCount`); how appending
  changes the counts (`AfterAppend`, `BetweenAppend`); and later cutoffs count
  fewer (`AfterMono`);
* `TypeCorrect`: `Spec => []TypeOK`, and `StoredBounded`:
  `Spec => []StoredBound`, for every port set, by the inductive invariant
  `TypeOK /\ StoredBound` (the deny branch stores a pruned list, the admit
  branch appends to one shorter than the limit, cleanup only prunes);
* `WindowLimited`: `Spec => []WindowLimit`, and `NoFalseRefusals`:
  `Spec => []NoFalseRefusal`, under the hypothesis `SinglePort` (each client
  uses one source port, so one key per client). The run `rate_ports` shows
  that `WindowLimit` fails without it. The inductive invariant `WInv` adds
  two facts to `TInv`. `AdmPast` says no admitted timestamp is later than
  `now`. `Synced` says, for each client, that the list stored under its key
  and the ghost history `admitted` have the same number of timestamps after
  every cutoff `d >= now - Window`, and that a client without a key had
  nothing let through after `now - Window`. It was checked with TLC on the
  `rate_seq` constants (clock to 5, `d` bounded to the clock range) before
  it was proved. With it, an admit finds fewer than `Limit` requests of the
  client after `now - Window`, so no window can exceed the limit
  (`AppendWindow`). A deny finds `Limit` of them; all are at or before `now`,
  so they all lie in the current window. Cleanup and `Tick` keep `Synced`,
  because pruning keeps every count after the cutoff (`FilterCount`) and the
  cutoff only moves forward.

Only model-checked: the properties of the load balancer model,
`BackendFailuresTrip`, and the liveness properties (`ExpiredPurged`,
`BroadcastDrains`, the engine's shutdown). The rate limiter's `WindowLimit`
for clients with several ports is violated, as `rate_ports` shows, so it has
no theorem.
TLAPS cannot reason about liveness under fairness or ENABLED, cannot do
induction over data for recursive definitions, and loses SMT in modules that
reach a RECURSIVE operator; such facts stay with TLC.

## 5. Plan and what is not modelled yet

Not modelled: the timeout middleware (a data race
on the `ResponseWriter` between the handler goroutine and the 504), request
logging (fire-and-forget goroutines, not in `e.wg`), `SendToClient` (never
called), the version 1 engine (`engine.New`: `main` only calls `NewV2`),
the least-connections strategy (its counters are never updated).
Also not modelled: auth (JWT validation is a pure
function of a token and a key), metrics and tracing (write-only counters and
spans), logger, config loading, response formatting, SQL migration.
