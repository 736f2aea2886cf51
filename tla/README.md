# A TLA+ model of quickgo

quickgo is a Go framework for services: an application object that brings up a
logger, tracing, gRPC and HTTP servers, gRPC clients with service discovery,
data stores and custom components, and takes them down again. This directory
models the parts of it that keep state shared by goroutines or that must
survive failures half way, checks them with TLC, and proves with TLAPS every
safety property that a passing run checks.

## Inventory

| Component | State it keeps | Operations | What is hard about it | What makes it correct | Module |
|---|---|---|---|---|---|
| framework lifecycle (`framework.go`) | five flags, one handle per built-in subsystem, two lists of components | Init, Start, Stop, RegisterComponent | failures half way, rollbacks that fail too, retries, registrations at any moment | nothing leaks, is forgotten, is stopped or initialized twice; order of stops | Framework |
| circuit breaker (`resilience/circuitbreaker.go`, `interceptor.go`) | state, three counters, a time stamp | Allow, RecordSuccess, RecordFailure, Execute, three stream methods | a call reports in another state than the one that admitted it, or never | counts belong to the current period; the probe limit; recovery | CircuitBreaker |
| resolver registrations (`grpc/resolver.go`) | process-global: key, discovery, reference count per scheme | RegisterResolverAndGet, ReleaseResolver | several managers and clients share one object; Close may fail; read and registered in two steps | the count is the number of owners, all hold the same open object | ResolverRegistry |
| gRPC client manager (`grpc_client.go`) | services, pools, a generation, a health-check loop | RegisterService, GetClient, ConnectAll, CloseClient, CloseAll, health checks | pools are created outside the lock, shared through singleflight, overtaken by resets; loops are stopped outside the lock | no leaked pool, none from before a reset, no client of a pool shut before the call; one loop that can be cancelled | ClientManager, HealthLoop |
| stand-alone client (`grpc_client.go`, `grpc/client.go`) | references, a connection | NewGrpcClient, Connect, Close | construction is refused or fails half way, the Close of the discovery fails; Connect waits without the lock | every reference is counted and given back, every connection owned | GrpcClient |
| etcd registration (`grpc/etcd.go`, EtcdRegistry) | lease, keep-alive, registered/closed flags; a goroutine per registration | Register, Deregister, KeepAlive, Close, recovery | requests that fail after being carried out, expiring leases, recoveries racing operations | no resurrection, no unwatched registration, no lease kept for nothing | EtcdRegistry |
| etcd discovery (`grpc/etcd.go`, EtcdResolver) and resolver instances (`grpc/resolver.go`) | watches, last addresses, a closed flag | Resolve, Watch, ResolveNow, Close | list and watch are two requests, streams break, results cross each other and Close | newer and newer addresses, the newest in the end, no update after Close | Discovery, AddressFeed |
| shutdown manager (`lifecycle/shutdown.go`) | hooks, a Once, its error, a channel | Register, Shutdown, Wait, WaitAsync, Drain | hooks that hang, several callers, registrations racing the shutdown | no hook lost, order, agreement of callers, termination | ShutdownManager |
| health checker (`lifecycle/health.go`) | checks, slots, last results | Check, CheckOne, IsReady | checks that outlive their timeout keep a slot over all calls | bounded concurrency, an answer, readiness that was earned | HealthChecker |
| logger (`logger/`) | asynchronous queue, worker, process-wide default | log, Flush, Close, SetDefault, CloseIfDefault | Close against writers, two owners of the default | nothing written to a closed file, nothing lost, nobody hangs | Logger, LogBook |
| data-store managers and clients (`db/*`) | clients, unavailable names, closed flag; pools | NewManager, RegisterClient, Close | connecting without the lock, Close that fails for some clients, any number of replicas | every pool has an owner that will close it | DataStores |
| servers (`grpc/server.go`, `grpc_server.go`, `http/server.go`) | listener, two flags, a registration | Listen, Start, StartAsync, Stop | steps of Start and Stop interleave; registration rolled back | the port is freed, one serves, what is registered is served | Servers |
| rate limiters (`resilience/ratelimit.go`) | tokens and a time stamp, time stamps in a window | AllowN, WaitN | boundaries of a window, concurrent waiters | a bound on every interval | RateLimiters |
| retry (`resilience/retry.go`) | none | DoWithResult, Backoff | overflow, caps, jitter | the delays it promises | Retry |
| balancer (`grpc/balancer.go`) | current weights | Build, Pick | senseless weights, sums that drift | everybody's share | Balancer |
| service registry facade (`grpc/registry.go`) | a map | ServiceRegistrar, StaticRegistry | a registration that fails | as GrpcServer uses it | Servers |
| tracing, metrics, `grpcep`, `gerr`, `json`, `validation`, `config.go`, middleware, examples | none of their own | conversions and wrappers | — | — | — |

How they interact: the framework owns one of each subsystem and calls it in
sequence; a client manager creates a discovery, registers it in the global
scheme table and passes it to the clients it creates, which register it again;
clients and the manager release it when they are closed. gRPC's resolver
builder reads the table's current discovery and starts a resolver instance over
it, which lists, watches and feeds a ClientConn, whose balancer picks by the
weights that came with the addresses. A gRPC server registers itself in etcd
once it serves and takes that back before it stops. Circuit breakers and rate
limiters sit in the interceptors. The shutdown manager calls hooks that
programs give it, typically the framework's Stop.

## Modules

Each component has one module, and an MC module supplies the values of
constants. Some MC modules bring several components together: `part` says which
of them a behaviour is about, and the others stay in an initial state, so that
one run answers questions of several components without multiplying their
states. `MCClients` is the client side, `MCLifecycle` what runs beside the
requests of a program, `MCServices` what a program runs on. The theorems are in
eight modules: `CircuitBreakerProofs`, `EtcdRegistryProofs`, `DiscoveryProofs`
and `LoggerProofs` each about one component, `ClientsProofs` about the parts of
`MCClients`, `LifecycleProofs` about those of `MCLifecycle`, and
`ServicesProofs` and `DataStoresProofs` about those of `MCServices`. A definition named in a comment as a mutant is a variant of the
one below it with a bug that the code might have had; no specification uses it.

**CircuitBreaker.** Every method of the breaker holds `cb.mu`, so each is one
step; `Allow`, `RecordSuccess` and `RecordFailure` are translated branch by
branch and `toOpen`, `toHalfOpen`, `toClosed` are operators of their own. The
calls are modelled with them: `Admit` is `Allow` returning nil, `Finish` the
verdict of `Execute`, `StreamEvent` a terminal event of a stream, `Abandon` a
panic or a dropped stream. `lost`, `old` and `tainted` are history variables
that only properties read. Time is a counter up to `OpenDuration`.

**Framework.** `lifecycleMu` is `op`, the operation that holds it; `todo` is
what the operation has still to call. `StopUnit`, `InitBuiltin`, `InitComponent`
and `StartUnit` call one unit each, and `InitFails`, `StartFails` and the second
half of `StopUnit` are the failures. A unit of `stop` that fails stays up. `up`
and `running` are the history of what really runs, against which the handles
and lists of the framework are compared.

**ResolverRegistry.** One scheme of the global table, with the owners that use
it. `key` is an abstract digest, and two discoveries may have the same. A
manager is created with a fresh discovery; a client captures its manager's
discovery and registers it later. `closeFailed` and `revived` record the two
events after which the invariants weaken. An owner forgets its discovery
whatever ReleaseResolver returns, as CloseAll and Client.Close do.

**ClientManager.** A section under `m.mu` is a step, and so is the creation of
a pool, whose clients nobody else can see. Flights of the singleflight group are
records under `PoolKey`; callers join them, wait and may give up. What the
flight's function returns (`EndFlight`, "ended") is sent to the callers'
channels in a later step (`Deliver`), in which singleflight also forgets the
key, and each caller receives it in a step of its own (`Receive`); resets, outside closes
and late joiners come in between. A pool is usable as long as one of its clients
is. A holder may close those of an installed pool (`CloseFromOutside`). `doomed`,
`outside` and `shut` are history variables: pools a reset overtook in the
making, pools whose holders closed them, and, per call, what the manager had
shut when it began.

**HealthLoop.** StartHealthCheck and StopHealthCheck of the client manager, by
several goroutines. A stop takes the cancel function under `m.mu` (`Cancel` comes
after it, outside the lock) and then waits on the WaitGroup all loops share; the
counter reaches zero in one step and the waiter returns in a later one, which is
where a start may come between. A tick of a loop runs `checkPoolHealth`.

**GrpcClient.** A stand-alone client takes two references to the shared
discovery, its own and its Client's; the stages of `NewGrpcClient` fail one by
one, the registration too, when a discovery of another configuration
(`ConfigOf`) is in use (`Refused`). The Close of the shared discovery may fail
in `ReleaseRef`: the entry is then not written back, and `stranded` records it.
`Connect` dials without the lock and waits for the connection it made, beside a
second Connect and Close.

**EtcdRegistry.** `operationMu` is `op`, with the request its holder makes next.
Every request may fail with or without having been carried out, until `Heal`.
The keep-alive context, its cancel function and the channel belong together and
are one variable, `keeping`, naming the lease; a goroutine whose context is
cancelled has `Done` in its place. `loops` are the goroutines of keepAliveLoop.
Requests take effect before they return or not at all; the explicit KeepAlive
call, which only renews the lease, is left out.

**Discovery.** Three kinds of goroutine call back with addresses: `Loop`
(`serviceResolver.start` of a ClientConn), `Nudges` (calls of ResolveNow on it)
and `Sub` (one public Watch). A list of addresses is the revision it was read
at. List and watch are two requests; a watch begins at the revision after the
list, its stream may be lost at any moment while etcd is `flaky`, and the retry
lists again. An update of the ClientConn is a call into gRPC: `Apply` looks at
the closed flag and begins it under `stateMu`, `Update` ends it, and Close waits
for the lock before it marks the resolver (`MayMark`) and cancels its context in a second
step. `ReportError`, which start calls for a failed read or a watch that failed,
is a step as well, and takes neither the lock nor a look at the flag;
`lateErrors` counts those that come after Close. The same resolver instance also
runs over a StaticResolver.

**AddressFeed** is what a watch promises, abstractly: from the moment it is
accepted until it ends its subscriber is shown newer and newer revisions, may
miss some, and in the end has the newest. `Discovery` implements it (`Feed` is
the instance, with `Sub`'s view for `view`): that every step is one of the
feed's is `ImplementsFeed`, which TLC checks and TLAPS proves, and that the
newest revision arrives (`Feed!Converges`) is a part of `EventuallyCurrent`.

**ShutdownManager.** `once` stands for the `sync.Once` and the closed `done`
channel. Hooks run in goroutines that need never return; timeouts of hooks may
fire at any moment, and `Expire` is the end of the whole shutdown's context. A
`Wait` that hears a signal goes on as a caller of Shutdown.

**HealthChecker.** `slots` is the semaphore that all calls share; each check is
run by a goroutine that holds a slot until the check returns, and the call waits
no longer than the timeout. A check that ignores its context runs on as a stray.
A check is code of the program's and says what it may (`MaySay`), also
"unknown", the zero value of the status.
`Publish` puts the result together; IsReady is a Check whose result is reduced.

**Logger.** All copies of a logger share an RWMutex and a writer state; a
waiting Lock keeps later RLocks out. An asynchronous logger has a queue of
`BufferSize` places and a `Worker`; a Flush is a mark in the queue. Creation of
the default logger, its replacement and the closes of the old one by different
owners are steps of their own. An entry is the n-th that a goroutine logs.

**LogBook** is what loggers promise, abstractly: entries are let through while a
book is open, each is written once and after those its goroutine logged before
it, what is in a file stays there, and a file is shut only after nothing more is
let through and nothing is pending. `Logger` implements it (`Book` is the
instance): pending is what was accepted and is not yet in the file, wherever it
is (in the queue, or in the hands of a sender that waits for a place), the book
is "ending" once `Close` has marked the logger, and "over" once it has closed
the output. A flush, a lock and a replacement of the default are stutters.

**Servers.** grpc/server.go, http/server.go and GrpcServer are three kinds of
one program: `Listen`, `Mark` (running), `Take` (the listener), `Serve` in the
caller's goroutine or one of its own, and `Clear` after it; `Shutdown`,
`CloseListener` and `SetStopped` of Stop. `mu` is given up between them. `raced`
and `failed` record the events after which two of the properties weaken.
GrpcServer creates a registrar, registers it and rolls back around them, in two
steps; a Start after a Serve that ended by itself puts a new registrar in the
place of the old one.

**DataStores.** The managers of redis, gorm and mongodb are the same code in
three packages (`kind`); their clients differ in the pools they open, in which
order, and in how they close them. Pools are `<<client, part>>`, `open` until
closed and `stuck` when their Close failed. NewManager runs in `Boot`,
RegisterClient and Close in `Callers`. The gorm client has the primary's pool and
one for each replica of its configuration, any of `Replicas`: it opens a probe
for each in turn and closes it, and db.Use then opens the pools. The drivers,
gorm and its dbresolver are external, modelled by what they leave: a gorm.Open
whose own ping fails, and a db.Use that fails at a later replica, leave what they
have opened open, and NewClient, which has no handle to it, only closes the
primary; `lost` records those pools.

**Balancer, RateLimiters, Retry** are the library's algorithms next to a
definition of what they should compute: the picks of a round against the weights
owed, every interval of grants against the limit, the delays of the retry loop
against their closed form. `Total` adds the weights up in the order of the
addresses, as the loop of `pickNext` does. The cleanup of the sliding window
drops the prefix of its timestamps that is too old (`Kept`). Delays have a
largest value, `Largest`; sums and products wrap around it (`Wrapped`), and
floats beyond it become the smallest Duration (`FromFloat`), in the loop and in
`Backoff`.

## Runs

| Run | States | What it shows |
|---|---|---|
| `CircuitBreaker_all` | 37 thousand | counts never leak between periods (`NoLeftoverCounts`); the places of half-open are counted exactly, and bound the probes, until a call of an earlier period reports (`ProbesAreExact`); with a healthy backend the circuit closes for good (`HealedCircuitCloses`) |
| `CircuitBreaker_probes` | counterexample | the limit on concurrent probes does not hold in general |
| `Clients_all` | 1.54 million | the scheme table counts exactly and its owners share one open discovery (`TableIsExact`, `DiscoveriesAreManaged`); every pool is installed or closed, none from before a reset is installed, and what GetClient returns, however late, is not of a pool that was shut before the call (`NoPoolLeaks`, `NoPoolFromThePast`, `ReturnedClientIsOfItsCall`); the references of stand-alone clients are counted and given back, also when one is refused or a Close fails, and each connection is owned (`ReferencesBalanced`, `ConnectionsAreOwned`) |
| `ResolverRegistry_closed` | counterexample | a manager is given a discovery that has been closed |
| `EtcdRegistry_all` | 200 thousand | every registration is watched, no other lease is kept, the kept one carries the key (`RegistrationIsKept`); nothing comes back (`NoResurrection`); registered services return, stale keys vanish |
| `Discovery_all` | 151 thousand | the ClientConn is updated by one goroutine at a time and by none once Close has marked the resolver, and at most one late error reaches it (`QuietAfterClose`); ClientConn and Watch end up with the newest list (`EventuallyCurrent`); the public Watch implements AddressFeed: its callback never goes back and comes no more once the watch is over (`ImplementsFeed`); closing ends the watches (`ClosingEndsWatches`) |
| `Logger_all` | 136 thousand | the file is open while anybody writes (`OpenWhileUsed`); the loggers implement LogBook: entries come out once, in the order of each goroutine, and all before the file is closed (`ImplementsBook`); entries let through are written and calls return (`EveryCallIsServed`) |
| `Logger_flush` | counterexample | a Flush beside a Close does not wait |
| `Lifecycle_all` | 96 thousand | no hook is lost and callers agree (`HooksAreKept`), hooks start in order (`RunsByPriority`), a shutdown ends although hooks hang (`ShutdownReturns`); checks keep to their slots (`RunningBounded`), each check that makes a caller ready has answered in this call and not said unhealthy (`ReadyIsEarned`), calls return although checks hang (`ChecksReturn`); the loop that is not cancelled is the manager's (`OneLoopToCancel`), and stops return and unusable clients are noted (`LoopServes`) |
| `HealthLoop_reused` | counterexample | a WaitGroup is used again before its Wait has returned |
| `Services_all` | 660 thousand | framework: nothing is left behind, nothing stopped or initialized twice, components stop in reverse (`NothingLeftBehind`, `NoDoubleStopNoDoubleInit`, `StopsComponentsInReverse`); servers: one serves and a stopped one frees its port, what is registered is served (`SocketsAreSettled`, `RegisteredIsServed`); data stores: open pools have an owner but for those whose Close failed and those gorm has lost, a nil Close closed all (`ClientsAreKept`, `CloseTellsTheTruth`); nobody is picked a whole pick too often, and nobody waits longer than the number of its rivals justifies (`SharesAreFair`, `NobodyLags`), limits hold in every interval (`LimitHolds`), delays are those of their closed form (`LoopFollowsBackoff`) |
| `Framework_complete` | counterexample | Start succeeds on a framework that a failed Stop has mostly taken down |

**Bounds.** Three callers of the breaker are needed for a stale verdict besides
two probes; a failure threshold of two and a success threshold of three
distinguish the first, the last and one between. Three components, one of them
disabled, show an order and a gap in it; the configured subsystems include one
without a stop (metrics), one that Start starts and one it does not. Two
managers, two clients, three discoveries of two configurations cover sharing,
refusal and take-over of an entry. Two generations beyond the first let a reset
overtake a creation and a second one overtake its successor; the number of
generations is bounded in the guards of CloseClient and CloseAll. Pool objects
and leases are used again when nobody refers to them, so their number bounds
what exists at a time and not the length of a run: three pools let an installed
one, one in the making and one overtaken meet, three leases an orphan, the
current and the next. Two goroutines of keepAliveLoop are a recovered one and
its rival; Register waits for a free slot. One service suffices for
ClientManager, whose services share nothing but CloseAll and the generation. Two
flights (`MaxFlights`) are one that has ended and is still to be delivered, or
was overtaken, and its successor under the key of the next generation.
Two addresses tell a registration from the one it replaces. Three connections
are those of two Connects of one client and one of another. Three stand-alone
clients, two of one configuration and one of another, cover sharing, refusal,
and what a Close that failed does to both.

Two revisions, and so one change that any list, watch or ResolveNow may come
before or after, are enough to lose a change or to go back; the proofs are for
any number of them, and a longer run of TLC with three (770 thousand states)
finds nothing more. One ResolveNow crosses the watch, and a second would cross
it the same way. The ClientConn and the public Watch run one at a time
(`Together` is FALSE): they share only etcd and the discovery's closed flag. A
queue of one place is full, empty and blocking with two writers, one of which
logs twice so that an order can be lost; two loggers let the default be
replaced, and two closers let a replacement meet a Close. Three hooks of two
priorities have a tie and an order; one caller and two waiters compete for the
Once. Two checks over one slot make one of them wait, or find none. Three loops
let a stop that waits for one meet a start and a restart. Two callers and two
sockets suffice for one Start that crosses another or a Stop. Databases are
configured once, twice, twice by the same name, and with an empty name; three
clients are those of boot and of two registrations. Two replicas are what a
failure half way through them needs. Weights run from below zero
to beyond the maximum (which is lowered from 100 to 4), over up to four
addresses: a whole round of picks is at most sixteen. With weights that small
nobody waits for a whole pick, which is not so of larger ones (of four addresses
that weigh 4, 1, 30 and 30, in this order, one does); `NobodyLags` states what
holds of any, a delay of (n - 1)/2 picks among n addresses. The limiters have a
capacity and a window of two and are asked for none up to more than they hold,
over four ticks: two windows. The largest delay is 15, so that three doublings,
or one with jitter of the largest cap, go beyond it. Objects are symmetric only in runs that check no liveness, and only where they
are interchangeable: callers of GetClient and pools in `Clients_all`, callers
and replicas in `Services_all`, and in `ResolverRegistry_closed`.

**Deadlock** is checked for the breaker and in `Framework_complete`. The other
systems may really stop: a closed registry, logger, server or manager accepts
nothing, a shutdown happens once, and bounded counters run out.

**Fairness.** CircuitBreaker: time passes, calls return, streams meet an end and
somebody calls again; the promise is for behaviours in which no call was
abandoned, since one abandoned in half-open can block it for ever. EtcdRegistry:
requests return because they have deadlines, goroutines run, the mutex is
granted in the end (Go's mutexes hand over to a waiter that starves, hence
strong fairness), leases that nobody keeps expire and broken streams end. When
etcd is healthy a lease outlives the few requests that follow its grant.
Discovery: goroutines that can go on do, a stream that was lost is seen to be,
a Close that has begun goes on, and etcd is well again some day; nobody need
publish, call or close. The loop gets `stateMu` however often ResolveNow takes
it (strong fairness of `Apply(Loop)`, for the same reason as above). Logger: goroutines and the worker go on; weak fairness
is enough for its locks because the calls that hold others up are bounded.
ShutdownManager and HealthChecker: goroutines that can go on do and timers fire,
but no hook and no check need return. HealthLoop: tickers tick, a stop that has
begun goes on, a loop sees that it was cancelled. `MCLifecycle` states the same
fairness for each of its parts. The other runs use none.

## Where code and documents disagree

* `CircuitBreaker_probes`: "the maximum number of concurrent requests in
  half-open" (`circuitbreaker.go:58`) is exceeded when a call admitted in an
  earlier period gives back a place it never took.
* `Framework_complete`: "Start starts all components" (`framework.go:383`), but
  after a Stop with an error it starts what is left and reports success.
* `ResolverRegistry_closed`: "closed when no clients still reference it"
  (`grpc/resolver.go:402`), but a client that registers late revives an entry
  with a closed discovery, which the next manager is given.
* `Logger_flush`: "Flush waits until all previously queued asynchronous logs are
  written" (`logger/logger.go:479`), but beside a Close, which marks the logger
  before its worker has drained the queue, it returns at once.
* `HealthLoop_reused`: "StopHealthCheck stops the background health check"
  (`grpc_client.go:654`), but a StartHealthCheck between the WaitGroup's zero
  and the return of Wait makes Wait panic.

Smaller things met while modelling, which no run states:

* built-in subsystems are not released in the reverse order of Init, as
  `docs/architecture.md:48` says of Stop: the data stores come up last and go
  down after the servers, and tracing goes down before the logger;
* a Close of a shared discovery that fails leaves a reference that nobody holds
  (`grpc/resolver.go:419`), for good: later clients of the same configuration
  are given the closed discovery, and those of another are refused;
  `TableIsExact` and `ReferencesBalanced` count it;
* a read or a watch that fails while the resolver is being closed reports its
  error to the ClientConn after Close has returned (`grpc/resolver.go:222`,
  `248`); `QuietAfterClose` allows one;
* when a gorm.Open fails in its own ping, or a db.Use at a later replica, the
  pools they have opened stay open and nobody has a handle to them
  (`db/gorm/client.go:69-72`, `115-119`, `161-164`); `ClientsAreKept` excepts
  those, which are in `lost`;
* a check that fills in no status does not stand in the way of readiness
  (`health.go:305-311`);
* the client GetClient returns may have been shut since its flight ended, by a
  reset after the call began or by another holder, as the result is sent and
  received without `m.mu` (`grpc_client.go:215`, `270`);
* a Start after a Serve that ended by itself overwrites the registrar, which
  nobody closes then (`grpc_server.go:194`); `failed` excepts it in
  `RegisteredIsServed`;
* the first wait of a retry is not capped (`retry.go:90`), and jitter is added
  after the cap (`retry.go:143`), so that a wait may exceed MaxDelay; the bounds
  in `LoopFollowsBackoff` are those the code keeps;
* an exponential `Backoff` beyond the width of a Duration is negative on amd64
  rather than capped (`retry.go:206`), and so is a wait of the loop when the cap
  itself is more than half the width; `LoopFits` and `BackoffFits` say when not;
* a Listen between closeListener and `stopped = true` leaves a bound socket
  (`grpc/server.go:222-229`, `http/server.go:259-260`), and a clear after Serve
  may wipe a newer listener; `raced` records both;
* the addresses that ResolveNow read may overwrite newer ones of the watch
  (`grpc/resolver.go:329`) until the next event or read;
* a call abandoned in half-open keeps its place for ever
  (`circuitbreaker.go:170`);
* a shutdown context that ends just as a hook succeeds skips the other hooks and
  returns nil (`shutdown.go:170`); `HooksAreKept` excepts it.

## Proofs

Each theorem is for every value of the constants that satisfies the named
assumption, and goes through an inductive invariant that implies what is stated.
Where a component is one part of an MC module, the theorem is about the
component's own specification under the names of that module (`CM!Spec`,
`GC!Spec`, `FW!Spec`, `DS!Spec`, `RL!Spec`, `Bal!Spec`, `Rt!Spec`, `L!Spec`,
`H!Spec`): the behaviours of the run that are about that part. The property is
the one the run checks, by the same name.

* **CircuitBreakerProofs** (`ConfigAssumption`: any finite set of callers, all
  positive settings, calls abandoned or not): `TypeCorrect`, `CountsAreFresh`,
  `ProbesAreCounted`. The invariant adds the accounting of probes: the limit
  follows from the counter's only because the counter equals the probes in
  flight and lost, and that equality is preserved only because a change of state
  makes every running call old and resets the counter. Steps on `Probes` are
  lemmas on cardinalities.
* **EtcdRegistryProofs** (`EtcdAssumption`): `TypeCorrect`,
  `RegistrationStaysKept`, `DeregisteredStaysAway`. `OpFits` says what the holder
  of operationMu may rely on between its requests, `LoopsFit` that a goroutine's
  context is the kept lease or cancelled, `RegistrationFits` that what is kept is
  registered. RegistrationIsKept is not inductive without them, since a recovery
  decides under the mutex on what it read before it.
* **DiscoveryProofs** (`DiscoveryAssumption`): `WatchImplementsFeed`, every step
  of the system is a step of AddressFeed or a stutter, and `SilentAfterClose`,
  that `QuietAfterClose` holds for any number of calls of ResolveNow.
  `InBetween` is what the refinement rests on: what a subscriber has been shown
  is not newer than what its goroutine carries, and that not newer than etcd.
  That one late error is all there is rests on `Roads`, which says where each
  goroutine goes on after a report, and on `Quiet`: once the context is
  cancelled the loop has only its pending report left before it ends.
* **LoggerProofs** (`LoggerAssumption`: any goroutines and loggers, sizes of the
  queue, entries and closers): `NothingIsSentToAClosedLogger`, `LogsAreInOrder`,
  `LoggersKeepTheBook`.
  That nothing is lost needs an account of every entry let through (`Accounted`:
  in the file, in the queue, or in the hands of its sender), and that the file is
  open needs `Guarded`: the flag and the lock keep senders and the end of Close
  apart. `InOrder` relates the file, the queue and what is being sent, because
  two of them in order do not make the third so; `MarkersAwaited` keeps the marks
  of Flush apart from entries. The refinement maps each step by a lemma of its
  own (`LogSimulates`, `WriteSimulates`, `WorkerSimulates`,
  `CloseOutputSimulates`, ...): that a worker writes the oldest entry left of its
  goroutine is `InOrder`, that it writes one that was let through is `Admitted`,
  and that nothing is pending when the output is closed is `Accounted` with an
  empty queue and no sender. That files are in order (`WrittenInOrder`), a part
  of what LogBook says, has a theorem of its own and no run.
* **ClientsProofs**, scheme table (`RegistryAssumption`: finite sets of managers
  and clients, any discoveries and keys, failing Closes and late registrations):
  `TypeCorrect`, `EntryIsExact`, `DiscoveriesLiveWithTheirUsers`. Counting and
  agreement need each other: a release finds the entry because its owner holds
  the entry's discovery, and dropping the discovery at zero leaves no holder
  because the count is exact. `Grounded` adds that an entry never made counts
  nothing and that only created discoveries are captured.
* **ClientsProofs**, client manager (`ManagerAssumption`: any services, callers
  and pools): `PoolsDoNotLeak`, `NoPoolOutlivesReset`,
  `ClientsReturnedAreOfTheirCalls`. The invariants hold because of each other and
  of three more: no two creators have the same pool (`OnePlace`), a pool found in
  the map, or whose client a flight has returned, and still open is still there
  (`FoundIsInstalled`, what the second look under the lock is for), and a pool
  that a reset overtook belongs to a creator that saw an earlier generation
  (`DoomedIsLate`), which is what makes the comparison of generations enough.
  For the results delivered late, `EndedIsOpen` says that what a flight of the
  present generation has ended with was not shut by the manager, so that a caller who joins
  it now is given nothing that was shut before it came, and `TimesFit` carries
  that on to the receipt.
* **ClientsProofs**, stand-alone client (`ClientAssumption`):
  `ReferencesAreCounted`, `NoConnectionIsLost`. `EntryFits` ties the references a
  client holds to the stage of its construction, so that each rollback gives back
  what was taken, and to the configuration of the entry, so that the registration
  for its Client is not refused.
* **LifecycleProofs**, shutdown manager (`HooksAssumption`): `NoHookIsLost`,
  `HooksStartByPriority`. The hooks run and those to run partition what was
  accepted (`Done`, `AtEnd`), in an order that the sort fixed before the first;
  none is accepted any more once the shutdown is announced (`Announced`).
* **LifecycleProofs**, health-check loop (no assumption): `LoopIsNeverLost`. A
  loop that is not cancelled is the manager's or has been taken by a stop that
  will cancel it (`TakenIsCancelled`).
* **LifecycleProofs**, health checker (`HealthAssumption`): `ChecksAreBounded`,
  `NobodyIsReadyUnasked`. The slots in use are counted exactly by the checks that
  run, watched or not (`SlotsCounted`), and what a call will report of a check
  is what it has said, or unhealthy (`Reported`), whatever statuses there are.
* **DataStoresProofs** (`StoresFit`, that no replica has the name of another
  part; any callers, names, configurations and replicas):
  `EveryPoolIsOwned` and `NilMeansClosed`, for the three kinds of client. The
  invariant relates each goroutine's stage to the pools of the client it is
  making (`PoolsFit`), says that a client has one place (`Unique`), that boot is
  alone (`BootAlone`), and that a closed manager stays empty; `StrayIsNobodys`
  is needed because a failed Close, a failed gorm.Open and a failed db.Use leave
  pools that no map names.
* **ServicesProofs**, servers (only that the value for "no socket" is not a
  socket): `SocketsStaySettled`, `RegisteredMeansServed`, for the three kinds of
  server and any number of callers. `OneAtATime` follows from `running` being
  set under the mutex, `OverIsClosed` and `BoundIsListener` tie the sockets that
  are bound to the one the server names, `RegistrarFits` ties the registration
  to the stage of the caller that makes or rolls it back.
* **ServicesProofs**, framework (`ServicesAssumption`: any components, any of
  them enabled, any builtins configured): `FrameworkKnowsWhatIsUp`,
  `NothingStopsOrStartsTwice`, `DependentsStopFirst`. `TodoFits` says what an
  operation has still to call in terms of what is up, for each operation and each
  rollback; `StopsDownwards` that the list of a Stop has every component before
  what was there when it was initialised. The list comes from a recursive
  function (`Among`), whose result `AmongPicks` describes.
* **ServicesProofs**, rate limiters (`LimiterFits`): `LimitsHold`. The bucket's
  invariant (`BucketFits`) is an account of what it has handed out since any
  time, what it holds and what has flowed in since; the limit of an interval
  alone is not inductive, since it says nothing of the tokens left. The window's
  (`WindowFits`) is that its timestamps are the last grants and those it has
  dropped were too old to count.
* **ServicesProofs**, load balancer (`BalancerFits`: any number of addresses,
  any weights, any positive maximum): `NobodyTakesMore`, `NobodyIsForgotten`.
  The current weights are what the picks owe and cancel out (`Owed`); therefore
  who has gained most has gained something, nobody's debt reaches a round
  (`NobodyAhead`), and when a round is over everything is paid (`RoundOpen`).
  The bound on a delay is not inductive for one address: the invariant bounds
  what is owed to every group of them together, by half the product of its size
  and that of the rest, in picks (`NobodyBehind`). A pick from the group takes
  from it at least what the pick gave it; a pick from outside goes to one that
  had gained as much as anybody in the group, and the group together with that
  one is bounded too.
* **ServicesProofs**, retry (`RetryFits`: any attempts, delays and width):
  `RetryWaitsAsPromised`. `DelayFits` says that the delay carried from wait to
  wait is the one `Backoff` computes from the attempt's number. Powers and totals
  are recursive functions; that they are what their definitions say is proved
  from the existence of their finite parts, by induction over a set (`Induct`).

**Only model-checked.** The liveness properties, since fairness and ENABLED are
beyond the prover: `HealedCircuitCloses`, `RegisteredServiceReturns`,
`StaleKeysVanish`, `EventuallyCurrent`, `ClosingEndsWatches`,
`EveryCallIsServed`, `ShutdownReturns`, `ChecksReturn` and `LoopServes`. With
them stay the liveness halves of the two refinements: that a feed converges is
in `EventuallyCurrent`, that a book delivers in `EveryCallIsServed`.

## Not modelled, and why

* `Drain` of the shutdown manager keeps no state: it waits for a function of the
  program's. (It never reads `DrainConfig.Timeout`, `shutdown.go:307`.)
* A component that calls back into the framework waits for `lifecycleMu` for
  ever (`framework.go:453`); the components of the model call nothing.
* `StaticRegistry` is a locked map that nothing in the library reads back, and
  `StartKeepAlive` is deprecated and unused. The circuit breakers' manager only
  creates breakers.
* Tracing, metrics, endpoint reflection (`grpcep`), errors, JSON and validation
  helpers, configuration and middleware keep no state that several steps or
  goroutines share: they convert, register and wrap.
* The examples use the library; the drivers and SDKs behind it (etcd, gRPC,
  redis, gorm, mongodb) are external and appear only as
  what their calls may return and leave behind.
