# Site management: TLA+ models and proofs

Site management is a Go service that owns the external routes of the tenants of
a cloud project. It keeps one row per tenant in a PostgreSQL table, brings the
cluster's routes in line with that table, follows tenant-manager over a
websocket, and tells the identity provider which redirect URIs are allowed.
This directory holds TLA+ models of that behaviour, TLC configurations for small
instances, and proofs checked by TLAPS.

Paths below are relative to `src/site-management-service/`.

## 1. The system

| Component | State | Operations |
|---|---|---|
| Synchronizer (`synchronizer/synchronizer.go`) | the channel `bus` (16 signals), the locals of one pass | requests (`Upsert`, `DeleteRoutes`, `DeleteTenant`, `ChangeTenantStatus`, `RegisterTenant`), `Sync`, the auto-sync timer, `processSynchronization`, tenant sync, initial scheme, building realms; virtual services, which nothing calls |
| DAO (`dao/pg/dao.go`) | table `tenant_dns`, init information | `FindAll`, `FindByTenantId`, `Upsert`, `SaveTenant`, `Delete`, `AddRouteToTenants`, `DeleteRouteFromTenants` |
| HTTP controller (`controller/api.go`) | none | one handler per endpoint; `AwaitAction` makes some of them wait for a cache update |
| Domain and validator (`domain/`) | none | hosts, route names, flattening, the rules of a scheme, collisions |
| Tenant-manager client (`tm/watch.go`, `tm/client.go`) | `watchingActive`, `wsConnected`, `quit`, callbacks, `activeTenantsCache` | `StartWatching`, `StopWatching`, lookups that drop a row on a 404 |
| Websocket connector (`http/websocket/`) | `stompClient` (never assigned) | `ConnectAndSubscribe`, `Disconnect` |
| Identity provider client (`idp/`) | `hash`, `cancel`, one goroutine per request | `PostURI`, `Reset`, facade |
| Paas-mediation client (`paasMediationClient/`) | caches of routes, services and configmaps; time of the last update | calls with retries, write-through after own calls, websocket updates, snapshots |
| Baseline client (`composite/sm.go`) | none | one request to the baseline |
| Startup (`lib/runner.go`, `server.go`) | none | wiring |
| Mail, HTTP helpers, migrations, generated API docs, Helm charts | none | - |

**How they interact.** A handler calls the synchronizer, which writes a row
through the DAO and posts a signal on `bus` without blocking. One goroutine takes
signals and runs a pass: it reads the whole table, asks the paas-mediation client
for routes, deletes the ones nobody active has, removes rows marked `removed`,
creates what is missing, and sends mails. The timer posts signals as well. The
tenant watcher runs callbacks on its own goroutine: they update
`activeTenantsCache` and call `SendRoutesToIDP`; so do the timer, the route
callback and `POST /routes/sync-idp`. Table, cluster and identity provider
outlive the process; bus, pass and caches do not.

**What is hard.** Requests are read-modify-write sequences without a
transaction. The pass works from a snapshot while rows change under it. Signals
are dropped when the bus is full. Errors are swallowed in the pass, which relies
on the next one. Fields are shared by goroutines without locks in the tenant
client and in the retry client. Events are lost while a websocket is down. A
cancelled HTTP call is not stopped. Every such place is listed, at its line, under
`hazards` in `PROJECT.json`.

**What makes each component correct.**

- Synchronizer and table: a row once written is looked at by a pass (no lost
  signal); a clean pass leaves the cluster as its snapshot asks; what a pass
  does is never wrong for a row nobody touched; one route per host and namespace;
  after the last failure everything settles.
- Watcher: the cache equals tenant-manager's active tenants once events are
  consumed; the watcher comes back after every disconnect; stopping returns.
- Identity provider client: at most one goroutine keeps sending; a skipped request is really
  under way; the newest request arrives.
- Caches of the paas-mediation client: never overtaken for good by older data; what was
  asked for is cached; no event meets a namespace that is missing.
- Schemes: normalising loses no address and no namespace, and adds none; what
  is shown belongs to the tenant's realm; a tenant's route goes before a general one.
- Validator: verdicts do not depend on the order of Go's maps; no side of a
  duplicate is forgotten.
- Tenant sync and start: the table agrees with tenant-manager once everything heard is handled; the
  initial scheme forgets nobody; an operator's addresses survive.

## 2. Modules

### SiteSync: requests, table, bus and pass

| Model | Code |
|---|---|
| `db[t]` | the row of tenant `t`: active, removed, the addresses of its scheme; `NoRow` when absent |
| `routes` | managed routes in the cluster as `<<tenant, host>>` |
| `bus` | number of signals in `Synchronizer.bus`, capacity `BusCap` |
| `req[p]` | a request in flight: where it is, its operation, tenant, and the row it is going to write |
| `pc`, `snap`, `doomed`, `purging`, `todo`, `changed` | where `processSynchronization` is, `allSettings`, the routes it has still to delete, the rows it has still to remove, the addresses it has still to look at, `changedTenants` |
| `dirty`, `forgot`, `missed`, `clean` | history for the properties: rows upserted and rows dropped since the snapshot, a pass that was given up or died, nothing failed since the snapshot |

`Put` and `Ask` begin a request; `Find`, `Select`, `Update`, `Insert`, `Announce`
and `Answer` are its statements, each database statement a step of its own.
`RegisterTenant` inserts a row and does not signal; `ForgetTenant` is the row
dropped when tenant-manager answers 404. `Receive`, `FindAll`,
`GetManageableRoutes`, `DeleteRoute`, `PurgeTenant`, `CreateRoute` and `Notify`
are the pass, one call at a time. `FindFails`, `UpsertFails`, `GiveUp`,
`DeleteRouteFails`, `PurgeFails` and `CreateRouteFails` are the error branches,
`RouteLost` a route deleted by others, `Crash` the end of the process.

Left out of this module: sites and services (`Home[t]` is the namespace
`resolveNamespaceForService` finds for all services of `t`), GENERAL routes,
which the pass never touches, generated service names, the text of mails, and
staleness of the route cache, which here answers with the cluster's routes.

`Reconciler` is the abstract specification `SiteSync` implements (`Promise`,
`ReconcilesInOneStep`). It knows rows and the hosts served per namespace, and has
no lists, calls or routes: it looks at the table (`Look`), serves in one step what that look asked
for (`Reconcile`) and rests; a failure keeps one stale host (`Keep`) or loses one host
(`Lose`), and a crash or a pass given up (`Interrupt`) leaves any number of them. The
mapping serves what the pass has still to put up and does not serve what it has still to take down,
so the outcome of a pass is decided when routes are listed (`GetManageableRoutes`):
the deletions and creations that follow, in whatever order and with whatever requests in between,
change nothing of it, which is the point of working from a snapshot. That a pass without failures
ends with exactly what its snapshot asks (`PassReconciles`) is one thing this promises, and so no run
checks it on its own; `SiteSync_proofs` has the theorem.

### TenantWatch: watcher and cache of active tenants

`pc` is the place of the goroutine of `StartWatching` (`Loop`,
`ConnectAndSubscribe`, `ConnectFails`, `Retry`, `MarkConnected`, `HandleFrame`,
`SeeClosed`, `WakeUp`, `TakeQuit`, `Disconnect`), `stop` the place of the caller
of `StopWatching` (`StopWatching`, `CheckConnected`, `Wait`). `watchingActive`,
`wsConnected` and `activeTenantsCache` are the fields of `tm.Client`. The send on
the unbuffered `quit` and its receive are one step. Tenant-manager is external:
`ChangeTenant`, `ServerCloses` and `SendMalformed`. A frame carries the statuses
of its tenants at the time it was sent; a `SUBSCRIBED` frame with all tenants
opens each subscription. `lost` remembers the tenants whose deletion was sent to
nobody. Only tests call `StopWatching` today; the model shows what a caller gets.

### IdpRetry: redirect URIs to the identity provider

`current` is what `getRealms` would return now, `caller` the goroutines inside
`SendRoutesToIDP` and `PostURI`, with a step for each statement on the shared
fields `hash` and `cancel`; `sender` are the goroutines that `PostURI` starts,
numbered in order, `cancelled` those whose context is cancelled. `idp` is what the
provider holds. A failing post may or may not have been stored. `overtaken` remembers
who was still sending when the newest goroutine started. The service registers
`DummyRetryableClient` by default; `ClientWithRetry` is the implementation for
installations that have an identity provider.

### PaasCache and Mirror: the caches of the paas-mediation client

Routes, services and configmaps have a cache each, with the same code; `kind` says
which one a behaviour is about, for the code differs in two places: configmaps are filtered
(`FilterRequired`) and do not return when a namespace is missing (`TakeEvent`),
and only routes have a callback.

| Model | Code |
|---|---|
| `cluster[n][o]`, `past` | paas-mediation (external): the version of an object, 0 when absent; all contents a namespace has had |
| `conn[c]`, `feed[c]` | a `WebSocketClient`: down, connected but still about to post the INIT signal, up; events sent and not yet read |
| `bus` | the channel between the clients and `syncingCache` |
| `cached`, `cache` | the namespaces in the map and their objects |
| `loop` | the goroutine of `syncingCacheInternal`: taking, listing, installing, in the callback, polling in the callback |
| `write` | an own call that was answered and is not yet written through |
| `readers` | `GetRoutes`, `GetServices`, `GetConfigMaps` waiting for a namespace |
| `masked`, `raced` | history: namespaces whose last list failed; objects a write-through set back |

A list is two steps (`ListNamespace`, `InstallNamespace`), so that the cluster changes, events
arrive and own writes go through in between. `ListFails` is
`performRequestWithRetry` after its last attempt: its error is lost, and an
empty list is installed. `ReadFails` loses what the client had not read.
`CallbackMisses` starts a websocket client from the loop and then polls the
cache which only this loop fills, until it gives up.

`Mirror` is the abstract specification: a view that shows, object by object or namespace by
namespace, contents the source has had, never forgets a namespace, and never
shows anything else. `PaasCache` implements it under the mapping `source <-
Listed`, `shown <- cached`, `view <- cache` (property `MirrorsTheCluster`).

Because a failed list counts as an empty one, every INIT signal installs its namespace, and
that is why `updateConfigmapsCache` never meets a missing namespace
(`EventsFindNamespace`): its mutant shows that once failed lists were reported,
the dereference in line 216 would panic.

Left out: `GetLastCacheUpdateTime` and the filters readers pass.

### SchemeValidator: the verdicts on a scheme

One `Visit` per address in any order, three checkers one after the other
(`NextChecker`), one `result`. `ValidUrl`, `UniqueInTenant` and `UniqueInScheme` are the checks;
a host is the list of what `validatePart` looks at in each label, an address a protocol and
a host. `MCSchemeValidator` gives it a valid and a malformed host.

### SchemeOps and TenantScheme: normalising and showing a scheme

`SchemeOps` holds what the synchronizer computes, without variables: `RemovalLoop` is a Go
loop that removes elements of the slice it ranges over, with the array and the length apart
(`Whole` is the slice it begins with, `Removal` one turn of it), and both `FilterServices` (`filterGeneralRoutes`) and `HomeRemoved`
(`getCompositeNamespaceForTenant`) are uses of it; `Normalised` is all of `Upsert` but the
table; `AnnotatedRoutes`, `MergedSchemes`, `SitesOfHost` and `RealmHosts` are views.
Where the code takes the first element it gets from a map, the operator gives
the set of all it may take.

`TenantScheme` is the life of one row under these operators: `Put`,
`ChangeTenantStatus`, `DeleteRoutes`, `RestoreTenantAlias`, while general routes,
configmaps and service names change (`ClusterChanges`). Each request is one step;
interleaved requests are the subject of `SiteSync`. `request` keeps the last one for the properties.

### TenantSync: the table follows tenant-manager

Three actors write the rows of a satellite without a lock: the starter (`New`:
`buildSchemeIfRequired`, then `syncAllTenantsFromTM`), the watcher (`SyncTenantsWithTM` for
each frame) and a lookup that corrects a status (`GetServiceName`, `actualizeTenantStatus`).

| Model | Code |
|---|---|
| `status`, `conn`, `wire` | tenant-manager (external), the subscription and the frames not yet taken |
| `rows`, `initialised` | `tenant_dns`, and whether `inits` has its entry |
| `starter`, `todo`, `listed` | where `New` is, and its loop variable |
| `job[a]` | `upsertTenantFromTM` or `DeleteTenant` of starter or watcher, between reading and writing a row |
| `reader` | a lookup by external id, call by call |
| `owed`, `blind`, `outdated`, `overtaken` | history: rows the first build still owes; a build although there had been one; tenants whose last news was lost, failed or came too late; who read a row that was written since |

Of the addresses of a row only the origin is kept: none, an empty default site
(`bare`), generated, built from routes, or an operator's. `RowToWrite` is `upsertTenantFromTM`:
what a tenant already has stays, a tenant first heard of as active gets an empty default site.

### Proof modules and instances

The theorems about a module are in the module of its name with `_proofs`: `SiteSync_proofs`,
`IdpRetry_proofs`, `TenantWatch_proofs`, `PaasCache_proofs`, `TenantSync_proofs`,
`SchemeValidator_proofs` and `TenantScheme_proofs` (which also has the lemmas about
`SchemeOps`). `QueueLemmas` holds two facts about `Append` and `Tail` that proofs about
queues need. The modules named `MC...` give TLC its instances; the others need no
definitions beyond their `.cfg`.

## 3. What the runs check

| Run | Instance | Shows |
|---|---|---|
| `sitesync_safety` | 2 tenants in a child namespace that may claim one host, 2 request slots, bus of 1, 3 requests, 1 failure, 1 crash | `TypeOK`, `NoLostSync`, `RemovedRowsAreEmpty`, `HostOncePerNamespace`, `RouteChangesJustified`, `ReconcilesInOneStep` |
| `sitesync_converges` | 2 tenants in two namespaces, one host spelled in two cases, 1 slot, 3 requests, 1 failure, 1 crash | `Converges` |
| `watch_cache` | 2 tenants, 3 changes, 2 faults, a stop at any moment | `TypeOK`, `CacheCurrentWhenDrained`, `CacheSettles`, `StopReturns` |
| `idp_single` | 2 requests, 1 caller, 3 changes, 2 failing posts, 1 reset, 5 goroutines | `TypeOK`, `OneLiveSender`, `SkippedIsNewest`, `NewestArrives`, `ProviderCurrent` |
| `sitesync_purge_put` | 1 tenant, no failures | violates `PurgeOnlyRemoved` |
| `idp_race` | 2 callers, 3 goroutines | violates `SkippedWasSent` |
| `paas_cache` | routes and configmaps, 2 namespaces, 1 object, bus of 1, 2 websocket clients, 2 changes, 1 fault | `TypeOK`, `EventsFindNamespace`, `DrainedIsCurrent`, `MirrorsTheCluster`, `AskedIsCached`, `CacheSettles` |
| `cache_masked_list` | as `paas_cache`, routes only, no change | violates `FailedListChangesNothing` |
| `scheme_verdicts` | every scheme of up to 3 addresses over 2 sites, 2 services, 2 hosts and 3 protocols, every table with 1 address | `TypeOK`, `OrderIsIrrelevant`, `BothSidesReported`, `InvalidSticks` |
| `tenant_scheme` | 61 bodies, 2 general routes, 3 hierarchies, 3 namespaces, the shopping service public in one of them | `TypeOK`, `OwnHostsKept`, `NoForeignHost`, `NamespacesKept`, `TenantRouteFirst`, `ShownHostsAreInRealm`, `HostFindsItsSite`, `NormalisedOnce`, `ShoppingRenamed` |
| `scheme_deactivate` | as `tenant_scheme` | violates `StoredCanBeDeactivated` |
| `tenant_sync` | 2 exchangeable tenants with a shopping frontend, 2 inputs, 1 fault, 1 crash | `TypeOK`, `NoTenantIsOwed`, `RowsFollowManager`, `AnsweredIsCorrected`, `AddressesKept` |

**Bounds and why they are enough.** `BusCap = 1` makes a full bus, and so a
dropped signal, an everyday case; 16 only makes it rarer. Three requests are what
it takes to create, delete and re-create one tenant, or for one request to slip
between the two halves of another. One failure or crash at any place reaches
every error branch; the convergence run needs the failures to end anyway. Two
tenants are the least that can share a host. For the watcher three changes bring a tenant to suspended and back, or
delete it, and two faults allow a
refused connection after a closed one. For the retry client three changes with
two values make the provider's content go back and forth, and five goroutines
are enough for one initial request, three changes and one reset.
`sitesync_safety` treats its request slots as symmetric.

A bus of one message makes websocket clients wait for the cache loop, and `Polls = 1`
makes readers give up early; both only are rarer in the code (50 messages,
`attemptsInit` looks). Two changes are an object that is removed and comes
back, or two versions of it that overtake each other; two clients are one
per namespace, or two for the child namespace after two readers missed it. One
fault is a failed list, a lost connection or an own call whose answer is lost. One object is enough for
races, which are per object; that filtering drops other configmaps cannot be seen
with it. Services differ from routes only in having no callback, as configmaps
do, so the two kinds of the run cover the third.

Three addresses are the least for a verdict on one service that a second site
overwrites while a third address is the duplicate. The bodies of `tenant_scheme` have
lists with no, one and two general hosts in each place, two sites, the shopping service,
own and foreign namespaces in each order, the own one twice, and a service name that
is the name of another service or of the shopping service. In `tenant_sync` two
tenants are the least that an event or a list can handle in part; two inputs are a change
and a lookup, or two changes, while one job is under way.

`CHECK_DEADLOCK FALSE` is set where the system really ends: the watcher
and its stopper in `TenantWatch`, the validator, which is a function, and
`TenantSync`, where nothing happens once inputs, faults and
crashes are used up. Elsewhere the timer, the caller or a reader always has a step.

**Fairness.** Liveness is checked under weak fairness of each goroutine's own
steps, never of faults, requests, changes or the call of `StopWatching`: the Go
runtime runs every goroutine that can run, `time.Tick` fires for ever
(`AutoSync`, the callers of `SendRoutesToIDP`), sleeps and pauses end
(`Retry`, `WakeUp`, `PauseEnds`). `ConnectFails` and `PostFails` are not fair and
are bounded: connecting and posting succeed once faults end. In `PaasCache` the goroutines of the
websocket clients, of the loop and of an own call are fair; `ReadFails` and
`ListFails` are not, and a dial is refused only finitely often (a client dials
again at once, for ever). No fairness is given to readers, to the callback's choice of
a missing namespace, or to the cluster. `TenantScheme`, `SchemeValidator` and
`TenantSync` have safety properties only; that the starter of `TenantSync` ends needs
lists that succeed, and the repository promises no more.

**What the violations are.**

- `PurgeOnlyRemoved`: the pass removes rows by its snapshot's `removed` flag;
  a PUT that re-created the tenant since then, and was answered 201, is lost
  (`synchronizer.go:1413`).
- `SkippedWasSent`: two callers in `PostURI` at once can leave the hash of one
  request with the goroutine of the other cancelled or replaced.
- `FailedListChangesNothing`: `performRequestWithRetry` declares a second `err` in its
  loop and returns the outer one (`paasMediationClient.go:861`); a list that
  failed in every attempt becomes an empty namespace, until the next INIT signal.
- `StoredCanBeDeactivated`: the own namespace is removed in place from an array the
  row shares (`synchronizer.go:891`). `[home, n1]` is stored as `[n1, n1]`, and the next
  upsert, a deactivation say, takes it for a hierarchy nobody declared and fails.

**Further configurations.** These `.cfg` files each check one statement that
the code does not keep; they are not among the runs of `PROJECT.json`, and TLC finds each
violated. Run them as `tlc -config <name>.cfg <module>`.

| Configuration | Module | Statement | What happens |
|---|---|---|---|
| `sitesync_masked_error` | `MCSiteSync` | `UnwrittenDeletionFoundNothing` | `FindByTenantId` turns every database error into "not found" (`dao.go:98`), which deletions answer with success |
| `sitesync_shared_host` | `MCSiteSync` | `InactiveLosesRoutes` | the result of `CheckCollisions` is dropped (`synchronizer.go:840`), so two tenants can have one host; deactivating the owner of the route leaves it while the other is active |
| `watch_stop` | `TenantWatch` | `StopsGracefully` | a stop that comes while the goroutine is connecting sees `wsConnected` false and returns; the goroutine then stays in its inner loop |
| `watch_missed_delete` | `TenantWatch` | `DeletedTenantLeavesCache` | `SUBSCRIBED` never removes a tenant it does not name, so one deleted while the watcher was disconnected keeps its realm |
| `scheme_unique` | `MCSchemeValidator` | `UniqueAcrossTenants` | README says schemes are validated to be "unique across tenants" (`src/README.md:70`); rows are compared as stored, with a protocol or not, and services of one name may share an address |

The passing `StopReturns` marks another limit of stopping: it excepts a server
that closes the connection, for then the goroutine ends without taking from
`quit`, and the caller waits for ever. `RowsFollowManager` excepts what the code cannot repair
before the next start: news while the websocket is down (of a `SUBSCRIBED` frame only the first
tenant is handled), a failed upsert or deletion, a lookup that fails during a
deletion, and a job done from a status that has changed since, which includes a
newcomer the starter takes for absent. `AddressesKept` excepts a failed lookup
of the row, which writes an empty default site over an operator's addresses
(`synchronizer.go:1281`), a write between a lookup and its write, and a second build
after a failed lookup of the flag. `DrainedIsCurrent` and `CacheSettles` except a failed list, as
above, and an own call written through after a newer event of the same object.
`OwnHostsKept` excepts a list with two general hosts, for which the loop may delete the
service with an own host in it (`[G1, A, G2]`, `synchronizer.go:1000`: the removals before bring the
length down to one), and a
service called like the row's service name, whose hosts the shopping service takes over
(`StoredOver`). `NormalisedOnce` excepts what takes more than one upsert to settle: two general hosts in
a list, the own namespace twice in the list of namespaces, two sites with a shopping
service, whether both were asked for or one is generated for the default site of an inactive tenant
whose domain changed (`ShoppingPlaces`). `ShoppingRenamed` excepts two such sites, of which only one is changed, and a
tenant whose service name is that of the shopping service itself.

Further behaviour the models show and no run is about: the scheme of a tenant
deleted while an activation is under way comes back with the activation's write; an
upsert whose row vanishes between SELECT and UPDATE reports success; routes in a
child namespace whose row was dropped on a 404 are never scanned again; a host
with upper-case letters is "created", and its admin told, in every pass; the
connection of a stopped watcher stays open; a tenant first heard of as active gets an
empty default site, which then keeps default addresses from being generated; `GetServiceName`
can bring back a row that was deleted since it was read; a list with two general
hosts needs two upserts to lose both, and may lose its service with an own host.

## 4. What is proved

For every value of the constants that satisfies the modules' assumptions.

`SiteSync_proofs`, from `ConstantsAssumption` (lower-casing is idempotent, homes
are namespaces, the bus holds at least one signal):

| Theorem | Statement |
|---|---|
| `TypeCorrect` | `Spec => []TypeOK` |
| `NoSyncIsLost` | `Spec => []NoLostSync` |
| `RemovedStaysEmpty` | `Spec => []RemovedRowsAreEmpty` |
| `RouteChangesAreJustified` | `Spec => RouteChangesJustified` |
| `OneRoutePerHost` | `Spec => []HostOncePerNamespace`, when addresses are lower case |
| `PassReconcilesAlways` | `Spec => []PassReconciles` |
| `PassIsOneStep` | `Spec => ReconcilesInOneStep`: initial states map to initial states, every step to a step of `Reconciler` or a stutter |

The argument. Requests keep what they carry well formed (`RequestsWellFormed`).
`NoLostSync` is inductive over it: a write leaves its request about to
announce; announcing leaves a signal on the bus, its own or the one that made
the bus full; receiving moves to the load; loading empties `dirty`; giving up sets
`missed`. `RemovedRowsAreEmpty` needs that the rows requests carry, and the
snapshot, are empty when marked (`RemovedDataIsEmpty`), since rows travel through
a request before they are written. `RouteChangesJustified` needs
`SnapshotCurrent` (snapshot and table agree but for rows in `dirty` or `forgot`)
and `WorkFromSnapshot` (what is left to do follows from the snapshot); a purge
keeps the first because a row marked removed is empty. `PassReconciles` needs
`RemainderListed` (in a clean pass, what is not yet right is still listed) and
`HostsLowerCase`. `HostOncePerNamespace` holds by itself when spelling is unique,
because each creation looks the host up in the same step; with upper-case letters it
fails, which is why the theorem has that assumption. `PassIsOneStep` rests on the
same parts, and on one more: the routes still to be deleted lie in namespaces the pass scanned
(`DoomedScanned`). Deleting a route or creating one moves a host between what is done and what
is still listed, so the mapped state stutters; listing the routes is `Reconcile`; a
failed call takes its item off the list undone, which is `Keep` or `Lose`.

`IdpRetry_proofs`: `TypeCorrect` for any number of callers; `OneSenderTries`
(`OneLiveSender`) and `SkippedIsUnderWay` (`SkippedIsNewest`) assuming
`SingleCaller`, which `idp_race` shows to be needed. The invariant `IInv` says
that `cancel` always belongs to the newest goroutine, that all other goroutines that still try are
cancelled, and that outside a replacement a stored hash is that of
the newest, uncancelled goroutine.

`TenantWatch_proofs`, from `BoundsAssumption` (the bounds are natural numbers, there is at most
one stop), for any set of tenants:

| Theorem | Statement |
|---|---|
| `TypeCorrect` | `Spec => []TypeOK` |
| `CacheIsCurrent` | `Spec => []CacheCurrentWhenDrained` |

The property speaks of moments when no frame is left; between them the invariant
`WatchInv` follows each tenant through the frames. Over an open connection the last frame
that names a tenant has its status, and where none names it the cache is right (`Follows`).
Two further parts keep that true. A tenant that was never active has left no trace in
cache or frames (`NeverActive`): so a frame that does not mention it, and a
`SUBSCRIBED` that does not remove, do no harm. A deletion is final, and is in the last frame that
names the tenant, handled, or in `lost` (`Deletions`). `Reconnecting` says that each
connection begins with an empty subscription.

`PaasCache_proofs`, from `NamesAssumption` (the own namespace is one, the required configmaps
are objects, `INIT` is the name of none) and `BoundsAssumption`, for any number of
namespaces, objects, websocket clients and readers:

| Theorem | Statement |
|---|---|
| `TypeCorrect` | `Spec => []TypeOK` |
| `EventsFindTheirNamespace` | `Spec => []EventsFindNamespace` |
| `DrainedCacheIsCurrent` | `Spec => []DrainedIsCurrent` |
| `CacheIsAMirror` | `Spec => MirrorsTheCluster`: initial states map to initial states, every step to a step of `Mirror` or a stutter |

`CacheInv` has a part for each. `Arrivals`: until a namespace is cached, or in the hands of the loop,
an INIT signal precedes each of its events on the bus, and every client that may add one
has its signal there. `Truthful`: what is listed or told, wherever it is
underway, is something the namespace has held; this makes every step of the loop one of
the mirror's. `Tracks`: once all clients of a namespace have forwarded what they read of an object,
the last message about it on the bus, the answer the loop holds, or the cache
has the version of the cluster, but for `masked` and `raced`.

`TenantSync_proofs`, from `BoundsAssumption` (there are finitely many tenants), for any number of
inputs, failures and crashes:

| Theorem | Statement |
|---|---|
| `TypeCorrect` | `Spec => []TypeOK` |
| `NobodyIsOwed` | `Spec => []NoTenantIsOwed` |
| `RowsFollowTheManager` | `Spec => []RowsFollowManager` |
| `AnswersAreCorrected` | `Spec => []AnsweredIsCorrected` |
| `AddressesAreKept` | `Spec => AddressesKept` |

`SyncInv` separates what each actor relies on. `Built`: what is owed a row is what the
first build has left to do, so `inits` is written only when nothing is owed. `Jobs` and
`Lookup`: a row carried between a read and a write still says what its carrier was told, and keeps an
operator's addresses, unless somebody wrote in between (`overtaken`). `Frames` and `Follows`: news of a
tenant that was not lost is in its row, in a frame, in a job, or on the starter's
list. `Calm` says who may be at work when.

`SchemeValidator_proofs`, from `ValidatorAssumption`, for schemes and tables of any size:

| Theorem | Statement |
|---|---|
| `TypeCorrect` | `Spec => []TypeOK` |
| `OrderDoesNotMatter` | `Spec => []OrderIsIrrelevant` |
| `BothAreReported` | `Spec => []BothSidesReported` |
| `RejectionSticks` | `Spec => InvalidSticks` |

The verdicts in progress are the reference verdicts of what the checkers have seen so far, in whatever
order (`Answers`); at the end they have seen everything.

`TenantScheme_proofs`, from `SchemeAssumption` (bodies and general routes have their types, there
are at least two names to choose from and the first two differ):

| Theorem | Statement |
|---|---|
| `TypeCorrect` | `Spec => []TypeOK` |
| `OnlyHostsAskedFor` | `Spec => []NoForeignHost` |
| `OwnHostsSurvive` | `Spec => []OwnHostsKept` |
| `SameNamespaces` | `Spec => []NamespacesKept` |
| `ShownIsAllowed` | `Spec => []ShownHostsAreInRealm` |
| `OwnRouteWins` | `Spec => []TenantRouteFirst` |
| `EveryHostIsFound` | `Spec => []HostFindsItsSite` |
| `ShoppingUnderItsName` | `Spec => ShoppingRenamed` |
| `OneUpsertIsEnough` | `Spec => NormalisedOnce` |

What the loops compute is stated for lists of any length. `RemovalLoop` is a recursive
function, and the library's induction theorems cannot be used here; the loop's
invariant is proved from a least turn at which it would fail (`LoopKeeps`, from
`WFMin` of the library), which contradicts that one turn keeps it (`RemovalKeeps`):
every element that is not to be removed stays in the array, and with at most one bad
element the service is dropped only when it had nothing else (with two it may be dropped
with an own host, which is why `OwnHostsKept` has that premise). On top of that `SchemeInv` needs only one
fact beyond types: what is stored after an upsert is one of the outcomes for what was asked, before the cluster changes.

`OneUpsertIsEnough` compares two upserts in a row. With at most one bad element, what the loop
leaves has none, or has it in the last place, which no turn changes (`AtEnd`, `LoopSettles`);
a list like that a second run leaves alone (`LoopLeaves`); so the filter settles every service (`FilterSettles`), the
namespaces settle (`NamespacesSettle`), and renaming the shopping service, which moves a list
and changes none, keeps both (`RenamedSettled`). A settled row, upserted over itself, is
stored as it is (`SettledStays`): nothing is generated, removed or renamed.

**Only model-checked.** Liveness (`Converges`, `CacheSettles`, `StopReturns`,
`NewestArrives`, `ProviderCurrent`, `AskedIsCached`): TLAPS does not handle
fairness and ENABLED. Everything else the passing runs check is a theorem.

## 5. What is not modelled

- Mail, HTTP helpers with tokens, migrations, generated API documentation, Helm
  charts, wiring, the baseline client: no state of their own.
- Virtual services (`CreateVirtualService`, `UpdateOrCreateVirtualService`,
  `DeleteVirtualService`, `AddRouteToTenants`, `DeleteRouteFromTenants`) and
  `CheckPostURIFeature`: nothing in the repository calls them.
- `AwaitAction`: a wait for any cache update after its start. It changes no state and
  promises nothing that a property could name: an unrelated update ends the wait.
- The realms of all tenants that are sent to the identity provider: `IdpRetry` takes them as a
  value. Only the realm of one tenant (`GetRealm`) is an operator.
- Encodings: JSON, SQL arrays, annotations, URLs; a host is a value or a name with a zone.
