# Verification of TargetLib

TargetLib is a local proxy manager. A Go process (a desktop service, or a
library inside a Flutter application) keeps proxy *subscriptions* up to date,
collects their nodes in a *node pool*, and runs an embedded sing-box daemon with
a configuration built from the saved settings, the node selections and the
service routes. Clients drive it over gRPC on a local socket.

This directory holds TLA+ models of that process, TLC configurations that check
them on small instances, and TLAPS proofs of their safety properties for every
instance. Line numbers refer to the sources as they are in this repository.

## 1. The system

| Component | State it keeps | Operations | Interacts with |
|---|---|---|---|
| **Subscription manager** (`subscriptions/manager.go`, `coordinator.go`, `store.go`, `badger_store.go`, `grpc.go`) | the coordinator's map of subscriptions, published as an immutable snapshot; the store; the singleflight group of running updates | Load, Add/Remove/Rename/SetEnabled/ConfigureUpdates, Update, updateDue, Close | the store by transactions; providers over HTTP; handlers, scheduler and pipelines send commands to one coordinator goroutine |
| **Event stream** (`manager.go` `Subscribe`/`publish`) | a bounded channel per subscriber | subscribe, publish (drops when full), cancel | fed by the coordinator |
| **Update scheduler** (`manager.go` `Run`/`updateDue`) | ticker, errgroup of at most four updates | tick | starts updates through the same singleflight group |
| **Node pool** (`node_pool.go`, `endpoints.go`) | none: computed from the snapshot | NodePool | read by the runtime controller |
| **Runtime controller** (`manager/runtime_*.go`, `routes.go`, `node_selection.go`, `manager.go`) | `runtimeConfig`, the saved snapshot, the active configuration, `opMu` | UpdateRuntimeConfig, UpsertRoute, DeleteRoute, SelectNode, SelectRouteNode, start, restart, StopService, New, Close | the node pool; the daemon (check, apply, select, close); the metadata store |
| **Runtime model** (`config/`) | none: pure functions | normalise, plan outbounds and routes, validate settings | called by the runtime controller |
| **Provider exchange** (`fetcher.go`, `normalize.go`) | none | normalise an address, fetch with redirects and retries | called by AddSubscription and by the update pipeline |
| **Profile parser** (`profile/`) | none | parse, sanitize, identify, name the country, attach source | called by the update pipeline and, for the stored nodes, by Load |
| **Server** (`manager/server.go`) | listeners, the socket file | listen, Serve, Close | hosts the manager's handlers |
| **Authentication** (`manager/auth.go`) | the control token file | load or create, authenticate | interceptors of the server |
| **Hosts** (`cmd/TargetLib`, `ffi/native`, Android service, Flutter plugin) | the running server; the TUN descriptor | start, stop | start and stop the server |
| **Key ring** (`subscriptions/keyringstore`) | the encryption key of the database | find or make the key, open the database | the start of the desktop program |
| **Files, IP lookup, rule sets, build scripts, generated API** | none of their own | pure I/O or data | |

### Where it is hard

- *Copies written back.* An update copies a subscription, works for seconds
  without any lock and writes the whole copy back, while clients edit, remove
  and re-add the same subscription and other callers join the same update.
- *Giving up.* A caller's cancellation does not stop the pipeline it started; the
  handler rolls back while the pipeline goes on.
- *Two stores in step.* The snapshot in memory and the store must change together,
  also when a transaction fails, when the manager is closing and when the process
  dies.
- *Stop before start.* sing-box closes the running instance before it tries a new
  configuration, so every failed apply, and every save that fails after an apply,
  needs a rollback.
- *A moving pool.* Configurations are built for the pool of one moment, saved, and
  built again for another; nodes vanish under selectors in use.
- *Shutdown.* The coordinator, the scheduler, pipelines, handlers and the daemon
  are stopped in an order, with commands in flight.
- *Servers one after the other.* A stopped server has a goroutine that still cleans
  up, while the platform may start the next one on the same address, socket file,
  database and token.
- *Starting again.* A start makes a key, stores it, makes the database with it, saves
  a default configuration and decodes whatever earlier runs have stored; it can fail or
  die between any two of these.
- *Lossy events.* A client's view is a list and a stream of events that may overlap, be
  late or be dropped.
- *Time and a full group.* A round of automatic updates is decided at one moment and
  carried out over many, while clients update and edit the same subscriptions.
- *What providers send.* Redirects, retries, bodies at the limit, outbounds that are
  renamed, repeated, outdated or broken, whose nodes clients have chosen.
- *Rules in order.* Which outbound a connection takes depends on the order of rules
  that come from the mode, the routes of all services and the length of domains.

### What makes each component correct

- Subscription manager: one update of a subscription at a time; nothing stays
  "updating" without an update at work; memory and store agree; nodes never go
  back to older ones; validators belong to the nodes; automatic updates respect
  the minimum interval; updates end and handlers return; removed, rolled back and
  disabled subscriptions stay so.
- Event stream: a client that subscribes first and then lists ends with what the
  manager holds, unless it was too slow; nothing it waits for has silently ended.
- Scheduler: a due subscription is updated although others are slow; none is due before
  the outcome of its last update allows it; the scheduler ends when it is told to.
- Provider exchange: nothing is sent in clear; requests are bounded; a document is
  parsed whole or not at all; whatever is accepted can be fetched.
- Profile parser and node pool: an identity names one node and survives renaming; what
  is offered can be run; a restart brings back the same nodes.
- Runtime controller: the daemon enforces what is saved; a failed request has no
  effect; a saved configuration can always be started; no selector uses a node
  nobody chose; every operation ends; what is reported as in force is in force, up to section 3; a start never
  loses or overwrites what was saved.
- Runtime model: the plan only refers to what it defines, serves the mode that was asked
  for and sends a host to the service that names it; what is accepted once is accepted
  at every later start.
- Server and hosts: at most one server owns the socket; a stopped server does not
  disturb the next.
- Authentication: a token that was handed out is the one the next start reads.

## 2. Modules

| Module | Contents |
|---|---|
| `Subscriptions` | the subscription manager: coordinator, store, update pipelines, handlers, scheduler ticks, shutdown, crash, restart |
| `SubscriptionsMC` | symmetry of its instances |
| `SubscriptionsProofs` | what each step changes, and all its safety properties |
| `SubscriptionFeed` | `Subscriptions` composed with its event stream and a subscriber |
| `SubscriptionFeedProofs` | its properties for any number of subscribers, and that it implements `Subscriptions` |
| `UpdateScheduler`, `UpdateSchedulerMC` | automatic updates over time, and the documented interval with the history it speaks of |
| `UpdateSchedulerProofs` | that rounds respect the outcomes of updates |
| `ProviderExchange` | addresses, and an exchange with a provider, as functions of the answers |
| `CountryCode` | the country of a node from its name |
| `ProviderDocument`, `ProviderDocumentMC` | from an address to the node pool: exchange, parser, identities, endpoints, store and restart; the documents and answers it is checked on |
| `ProviderDocumentProofs` | all its properties |
| `RuntimeController` | the runtime controller with the daemon, the saved snapshot, the changing pool, crash and restart; also the abstract specification of `ManagerLife` |
| `RuntimeControllerMC` | symmetry of its instances |
| `RuntimeProofs` | all its safety properties |
| `ManagerLife` | `RuntimeController` with the start of the program step by step, the key ring, and the requests that only read |
| `ManagerLifeProofs` | its safety properties, and that it implements `RuntimeController` |
| `LocalService` | the local server under its two hosts, with the socket file, the control token, the TUN descriptor and the SDK client |
| `LocalServiceMC` | symmetry of its instances |
| `LocalServiceProofs` | all its safety properties |
| `RuntimeModel` | reading the settings, normalisation of a configuration and the plan that is built from it; its relation to `RuntimeController` |
| `RuntimeModelMC` | the inputs it is checked on |
| `RuntimeModelProofs` | all its properties |

Operators whose names end in `Mutant` are deliberate defects kept next to the
definition they replace; no specification uses them. They document which mistake
each property would reveal.

### Subscriptions

`items` is the coordinator's state and the published snapshot, `stored` the store,
`flight` the goroutines of the singleflight group with the copy `beginUpdate` gave
them, `caller` the RPC handlers, `phase` the life of the manager (`draining`: the
scheduler has been told to stop; `closing`: the coordinator's context is cancelled)
and `server` the version of the document each provider publishes. The parsed nodes
and the validator of a subscription are represented by the version of the document
they came from. A 304 is accepted whenever it comes, as in the code, also without a validator
in the request or with one from the client's own headers, and may bring a validator; the
history variable `blind` marks an entry that such an answer has made ready without regard to
its nodes, until a document fills it again.

| Actions | Code |
|---|---|
| `Load`, `StopScheduler`, `Close`, `Exit`, `Crash` | `Manager.Load` with the recovery of interrupted updates (manager.go:93), `manager.Manager.Close` (371), `Manager.Close` (483), the end of `runCoordinator` |
| `AddSubscription`, `RemoveSubscription`, `RenameSubscription`, `SetSubscriptionEnabled`, `ConfigureSubscriptionUpdates` | handlers of grpc.go with the manager method and the coordinator command each calls |
| `UpdateSubscription`, `UpdateAdded`, `UpdateDue`, `Cancel`, `Rollback` | `Manager.Update` (253) called by handlers and by `updateDue`, a caller that gives up (262), the rollback of `AddSubscription` (grpc.go:72) |
| `Claim`, `ClaimFails`, `Announce`, `FetchFails`, `FetchNotModified`, `FetchDocument`, `ParseFails`, `ParseDocument`, `Resolve`, `Commit` | the update pipeline, `beginUpdate` (390), `updateClaimed` (273), `setStage` (405), `commit` (417), `failUpdate` (432) |

One action is one coordinator command with the local work before it: everything two
goroutines can interleave is separated. A command during shutdown may be applied
although its caller is told that the manager is closed (`ReplyLost`), because both
sides of the coordinator's `select` can be chosen. A store transaction can fail in
any command.

### SubscriptionFeed

`said` is the event the coordinator is about to publish, `feed` the stream of each
subscriber with its channel and the list its client shows, `unsaid` the subscriptions
whose last change had no event. A step of `Subscriptions` that is a coordinator command
comes with its event; the next command waits for `PublishEvent`, since one goroutine does
both.

| Actions | Code |
|---|---|
| `ManagerStep` with `Says`, `Silent`, `Idles` | the coordinator's loop (coordinator.go:32): a command with an event, a refused commit, which changes the entry without one, and steps that change none |
| `PublishEvent` | `publish` (manager.go:471), which drops what does not fit |
| `Subscribe`, `Deliver`, `Unsubscribe` | `Manager.Subscribe` and the stream handler (grpc.go:159) |
| `List` | `ListSubscriptions`; the client's `Applied` is how a client uses events, external to the repository |
| `ServerStarts`, `ServerStops` | `Load`, and the end of the streams with the server |

### UpdateScheduler

Time is relative: `due` counts the ticks left to `NextUpdateAt`. `slot` are the
goroutines of the group, `todo` the rest of the round's list, `flight` the update that
runs for a subscription with its copy, `tick` the ticker's channel, `run` where `Run` is.
`rest` is a history variable: how long the last outcome asks to leave a subscription alone.

| Actions | Code |
|---|---|
| `Tick` | the clock and the ticker, which drops ticks |
| `TakeList`, `GroupGo` | `updateDue` (manager.go:459): the list is taken once, `group.Go` waits for a place |
| `LeaveLoop`, `Return`, `Cancel` | the end of `Run` (350-365) and its cause |
| `CallUpdate`, `GiveUp`, `UpdateSubscription` | `Update` with the singleflight group (253) |
| `FlightEnds` | success with or without a suggested interval, failure with `failureDelay` (533), or a refused commit |
| `Editing` | add, remove, enable, configure |

### ProviderDocument

`items` and `stored` are the subscriptions in memory and in the store, `pool` what
`NodePool` returns, `wire` the last exchange. An entry of a document has the fields the
parser looks at; a hash is the tuple that is hashed.

| Actions and operators | Code |
|---|---|
| `Accepts`, `Normalizes` | `AddRequest`, `NormalizeSubscriptionURL` (normalize.go:27) |
| `Fetch`, `LastTry`, `Requests`, `Follows` | `HTTPFetcher.Fetch` with retries, redirects and the limit of the body (fetcher.go): which request of which attempt is the last, and what is sent until then |
| `Parse`, `Sanitize`, `NodeOf` | `Parse` (profile/parser.go:24) and what it calls |
| `Identity`, `WithSource` | profile/identity.go |
| `InferCountryCodes` | `inferCountryCode` (country.go:49): any code the order of a Go map allows |
| `Endpoints`, `ResolvedEndpoints` | endpoints.go:22, manager.go:203 |
| `NodePool`, `IsAvailable` | node_pool.go, model.go:37 |
| `AddSubscription`, `RemoveSubscription`, `SetEnabled`, `Update` | the commands, each with its write to the store |
| `Stop`, `Load` | the end of the process; `BadgerStore.Load` with `restoreNodeOutbounds` |

What sing-box decodes is external: `Decodes` says what matters to the parser, that fields
it no longer knows and ports that are not numbers of 16 bits are refused.

### RuntimeController

`config` is `Manager.runtimeConfig`, `durable` the saved snapshot, `active` the last
activated configuration (`Manager.config`), `daemon` what sing-box runs and the live
choice of each of its selectors, `pool` the available nodes, `op` the operation that
holds `opMu` with where it is.

| Actions | Code |
|---|---|
| `UpdateRuntimeConfig`, `UpsertRoute`, `DeleteRoute` | the handlers, up to `applyDesired` (runtime_controller.go:101) |
| `Start`, `Restart`, `StopService` | `startRuntime`, `restartRuntime`, `StopService` (manager.go:214-251) |
| `SelectNode`, `SelectRouteNode` | node_selection.go:16, routes.go:115, up to `commitLiveSelector` |
| `Apply`, `Restore` | the apply and the rollback of `applySnapshot` (199-237) |
| `SelectLive`, `Revert` | the live switch of `commitLiveSelector` and its way back (255-273) |
| `Save` | `SaveSnapshot` and `swapRuntime` of both |
| `Open`, `Close`, `Crash` | `New`, `Close` (manager.go:79, 371) and the end of the process at any point |
| `PoolChanges` | any effect of the subscriptions on the pool |
| `State`, `ProxyStatus` | what `managerState` (manager.go:411) and `GetProxyStatus` (node_selection.go:85) answer |

`Reconciled`, `WithProxy`, `Normal` and `Built` are `reconcileRuntimeSelections`,
`normalizeDesired` and the acceptance conditions of `NormalizeRuntimeModel`.
`ServiceReload` is left out: nothing in the repository calls it (the server does not
register the daemon's own service).

The daemon is an external program, modelled from its use: loading a configuration
starts from the configuration's default selections, since no selection cache is
configured (config.go:41-43); selecting an outbound fails when the daemon is not
running or the selector does not have it. Loading can fail, closing can fail.

### ManagerLife

`boot` is the step of the start and the key it has, `ring` the key in the key ring, `disk`
the key the database was made with, `listing` a `ListRoutes` on its way, `unseen` whether
the saved default comes from a start that never came up.

| Actions | Code |
|---|---|
| `FindKey`, `SetKey`, `OpenDatabase` | `keyringstore.New` (store.go:18) and `OpenBadgerStore` |
| `LoadStore`, `SaveDefault`, `Ready` | `New` (manager.go:79) with `runtimeConfigStore` |
| `BootEnds` | a step returns an error and the program exits, or it dies |
| `ListRoutes`, `RouteInfo` | routes.go:90, 153: the routes are read, then each again |
| `Effective` | what `routeInfo` answers (routes.go:168) |
| `ControllerStep` | every other step of `RuntimeController` |

The refinement hides a default nobody has seen: `durable` of the abstract controller is
`Acknowledged`, which is `Absent` until a start with that default has come up. Then the
whole start is the one step `Open`.

### LocalService

`host` says which of the two hosts runs, `slot` is `program.server` or `activeServer`,
`pc` where the platform's callback thread and each server's goroutine are, `once` who
is in the body of `Server.Close`; `open`, `tcp` and `path` are the two listeners and
the socket file with the server it belongs to; `store`, `held` and `box` are the
database, the token and the sing-box service of each manager; `file` is the control
token on disk (missing, empty or written), `fd` the TUN descriptor that has been set,
`client` the SDK runtime with the token it has read. A record of `Servers` is used
again when its goroutine has ended and its manager is closed.

| Actions | Code |
|---|---|
| `Start` | `program.Start` up to `NewLocal` (cmd/TargetLib/main.go:88), or `onStartCommand` and `targetlib_start` (ffi/native/main.go:53), which hold their lock to the end |
| `LoadToken`, `WriteToken` | `loadControlToken` (auth.go:31): a crash can fall between the creation of the file and its content |
| `ListenTCP`, `Unlink`, `ListenUnix` | `listen` (server.go:46), then the publication of the server and the start of its goroutine |
| `ServeReturns`, `ServeFails`, `CloseUnix`, `CloseTCP`, `ListenersClosed`, `RemoveSocket` | `Serve` and `stopListeners` (79-112), step by step, by the goroutine and by whoever is in `Close` |
| `EnterClose`, `CloseManager` | `Server.Close` with its `sync.Once`, and `Manager.Close` |
| `Release`, `ServeEnds` | the library's `serve` (ffi/native/main.go:115) |
| `Stop`, `StopEnds` | `program.Stop`, which waits for the goroutine, or `onDestroy` and `targetlib_stop`, which do not |
| `StartBox`, `Reload` | requests that make sing-box open the TUN interface (mobile_platform.go:38); they can go on while the server is stopped, until `Manager.Close`, which waits for `opMu` (371): `Answering` |
| `ReadToken`, `Connects`, `TimesOut`, `Disconnects` | `TargetLibConnection.connect` and `ensureConnected` of the SDK |
| `Authenticated` | the interceptors (auth.go): which methods need the token, and which token they take |
| `Crash` | the end of the process at any point; socket file and token stay on disk |

That closing a Unix listener removes the file of its name, whoever created it since, is
Go's `net` package. gRPC's `Stop` closes the two listeners in no particular order.

### RuntimeModel

A behaviour has three steps. `ReadSettings` is `buildSettings` (manager/config.go:33), on
a desktop or a phone; `Normalize` is `NormalizeRuntimeModel` (runtime_validation.go:11):
the default selector is filled with the pool, selectors and routes are checked, domains
are brought to one spelling and sorted. `Build` is `planRuntimeModel` (build.go:121):
inbounds, outbounds with their selectors, DNS, and the rules in the order in which
sing-box tries them. A domain is a sequence of labels with a flag for its spelling. What
sing-box does with the rules (the first match decides, a suffix matches by labels) is in
`Routed` and `Intercepted`, the property's side. Whatever the code sorts is a set with a
relation here: `Ordered` puts an element where the number of its predecessors says, which
is what any sorting algorithm does when no two elements are equal, and which can be
reasoned about without recursion.

`ControllerAgrees` ties this module to `RuntimeController`: a configuration that the
detailed conditions accept is `Normal` there, and a daemon that loads the plan begins with
the selections `Loaded` has there, so that the controller's theorems are about what the
code builds. That two services competing for one domain are kept apart is in the
controller's conditions and in its proof of `SavedStarts`, for any number of services.

## 3. What the checks show

Passing runs:

| Run | Instance | Shows |
|---|---|---|
| `subscriptions_safety` | 1 subscription, 1 handler, 2 pipelines, 2 document versions, intervals below and at the minimum | `TypeOK`; `OneUpdatePerSubscription`; `NoOrphanUpdating`; `NothingDurableIsHidden`; `ReadyMeansContent`; `AutoUpdatesRateLimited`; `NodesNeverRegress` |
| `subscriptions_liveness` | 1 subscription, 1 handler, 1 pipeline, fair | `UpdatingEnds`; `HandlersReturn` |
| `subscription_feed` | the same manager, 1 subscriber, room for 1 event | `ListFollowsSnapshot`; `SilentEntriesAreSettled` |
| `update_scheduler` | 2 subscriptions, 1 goroutine in the group, fair | `RoundsRespectOutcomes`; `DueIsUpdated`; `CancelledReturns` |
| `provider_document` | 2 subscriptions, 6 documents, 20 exchanges, 21 addresses | `IdentityIsUnique`; `AvailableIsUsable`; `RestartRestores`; `EndpointsFollowPool`; `ExchangesAreSound`; `RenamingKeepsIdentity` |
| `runtime_nodes` | 2 nodes, 1 service, 1 domain, 2 settings | `TypeOK`; `NoOtherNode`; `RunningIsSaved`; `FailureKeepsRunning` |
| `manager_life` | 1 node, 1 service, 2 keys, 2 settings, fair | `SavedStarts`; `KeyFits`; `ReportsAreTrue`; `ImplementsController`; `OperationsEnd` |
| `local_service` | 2 servers, 2 tokens, either host, 1 client, fair | `TypeOK`; `ServiceReachable`; `StoppedIsReleased`; `TokenStillValid`; `StopReturns`; `ManagersEnd` |
| `runtime_model` | 2 nodes, 2 services, 2 nested domains, 4 hosts | `ClosestServiceWins`; `PlanIsClosed`; `AcceptedStaysAccepted`; `ModeIsServed`; `ControllerAgrees` |

*Bounds.* Subscriptions do not share anything but the coordinator, which runs one
command at a time, so one subscription meets every race. The handler and the
scheduler are two initiators, which start, join and give up updates; a second
pipeline is there to be started too early, which only a defect does (the liveness
and the feed run have one). Two document versions are enough to be older or newer
(`MaxVersion`). The feed's channel holds one event (32 in the code, grpc.go:160): it is full, empty, and
with the event being published there are two that can overlap with a list. In the scheduler
what subscriptions share is the group: two of them compete for one place (four in the
code), and whoever waits behind a full group waits the same way; intervals and delays are
one tick, their order is what matters. The documents of `ProviderDocument` pair every kind
of entry with another one that is renamed, repeated, outdated or broken; its answers stand
at the limits of the code, which are the real ones (two retries, five requests, eight
levels); a body is one unit below, at and above its limit. In the controller two nodes
distinguish the node in use from the one asked for and from direct; a pool is any set of
nodes at any moment. In `manager_life` one node is enough, since a start and the list of routes
do not depend on which node is selected: a route's node can be in use or not; the status of the
default proxy is checked with two nodes, in `runtime_nodes`. Two servers are the one that is being cleaned up and the one that is started
meanwhile; a record is used again when its server has ended, so that servers follow
each other without end. Two tokens, or keys, are one and another one. The inputs of
`RuntimeModel` are three families: pairs of routes of up to two spelled domains;
selectors over pools of two nodes, available or not, repeated or not; settings of both platforms
at the limits of the port. No check or rule of the code relates what one family
fixes to what another one varies, except the pool, which is in all three. Handlers,
pipelines, nodes, services and domains are symmetric in the runs without liveness
properties. The invariants and action properties of all modules are proved for all sizes and
inputs (section 4), so these bounds matter for the liveness properties only; for the other
ones the runs show that the cases they speak of do occur, and which defect each would reveal.

*Fairness.* Goroutines are scheduled, so the pipelines' steps, the coordinator's
exit, the request of an added subscription's update and its rollback are weakly
fair; a fetch ends because the HTTP client has a timeout (fetcher.go:55-60). A
provider need not publish and clients need not call. In the scheduler time passes, its
steps and the goroutines are weakly fair, and an update ends for the same reason; leaving
the loop is strongly fair, because `select` chooses among its ready cases at random, so
that a context that is done is not overlooked for ever while ticks arrive. In the controller the steps of
the operation that holds `opMu` are weakly fair: none of them waits for a client,
and the saves run with a context without cancellation (runtime_controller.go:228,
264). In the local service the goroutines and the steps of a callback that has begun
are weakly fair: they wait for each other, never for a client. Nothing is assumed
about crashes, starts of the program, pool changes or requests.

*Deadlock* is checked in every run except two: `runtime_model`, whose behaviours end with
the plan, and the runs of `ProviderDocument`, where a store that cannot be loaded stops the
program for good (below).

### Where the code and its documentation differ

Three runs show the code doing what a document rules out.

| Run | Behaviour |
|---|---|
| `subscriptions_removed` | A subscription removed while its update is in flight is written back when the update ends, also when it fails (manager.go:421). |
| `scheduler_rest` | A subscription on the list of a round that waits for a full group is updated again although a later update has just succeeded: the list is not looked at again (manager.go:461). |
| `provider_restart` | An outbound that sing-box does not decode, such as one whose port is text, is kept as a failed node and stored; the next start decodes it, and fails with all subscriptions (badger_store.go:168). |

Three more contradictions with `docs/GRPC.md` have no run of their own. The properties named
here say what the code does:

- *The status of the default proxy* (GRPC.md:105-106: `actual_node_id` is read back from the
  runtime, `effective` is selected = actual). The code copies the saved selection, and
  `effective` only says that the service runs (node_selection.go:123-130). They differ:
  switching one selector saves the reconciled selections of all of them but switches one in
  the daemon, so the default proxy is reported as direct, and effective, while the daemon
  still uses the node that left the pool. `NoOtherNode` says when the reported node is
  the daemon's: whenever the status also reports it as available.
- *China first* (GRPC.md:158-164: hosts in China go direct before the routes of services are
  looked at). The code, and the flow chart of the same document (260-269), look at the services
  first (`ClosestServiceWins`).
- *The mode ALL* (GRPC.md:254-258: everything goes through the default proxy, and only RULE has
  the layer of services). In the code the routes of services also apply in ALL
  (`ClosestServiceWins`).

The models show more behaviour of this kind, which no line of the documentation rules out:

- A subscription that is rolled back by `AddSubscription(update_now)`, or disabled, while
  its update is in flight is written back by it, like the removed one (grpc.go:73).
- A 304 that nobody asked for (no validator was sent, or one from the headers that the client
  has given the subscription, fetcher.go:100-108) makes a subscription ready without nodes, and
  its validator replaces the one of the stored nodes (manager.go:280-292), so that the next
  answer can be "not modified" for nodes that are not there.
- A switch that cannot be saved goes back to the reported selection, which need not be the
  node that was in use (runtime_controller.go:267).
- The goroutine of a library server that was stopped removes, late, the socket file of the
  server started after it (server.go:111). The desktop program waits for the goroutine.
- A client that starts the service for the first time reads no token and keeps the
  connection without one (target_lib_connection.dart:62).
- On Android a reload stops the service, and neither the new nor the old configuration gets
  a TUN descriptor (mobile_platform.go:39).
- A commit that the store refuses changes what the manager shows and sends no event
  (coordinator.go:51).

These are why some properties are stated as they are. `NoOtherNode` and `ReportsAreTrue`: a
live selector may be behind where the manager has fallen back to direct, and only there; the
settings and the routes in force are always the saved ones. `ReadyMeansContent` excepts the
entries that are `blind`, which only a document ends. `ServiceReachable` is about the
desktop program. `ListFollowsSnapshot` leaves out entries whose last change was a refused
commit, and `SilentEntriesAreSettled` says of those that they have settled.
`RoundsRespectOutcomes` is about the moment a round begins. `RestartRestores` is about starts
that succeed.

## 4. What is proved

All theorems follow from the specification of their module and the named assumptions on the
constants (`ConstantsAssumption`: the sentinels are distinct from the values they stand
beside, the minimum interval is positive, the bounds of the retry delay are in order;
`FeedAssumption`: channels have room for an event; `LifeAssumption`: there is a key). No instance is
fixed. The two modules about data need more of their constants:

- `ProviderDocument`: documents, answers and addresses are of their types, `Absent` is no
  subscription (`InputsAssumption`); every name that occurs has its country codes
  (`NamesAssumption`), at least one each, as `countryFromTag` always answers; the node types
  contain no group; the texts the code writes are texts (`TextsAssumption`). Nothing is
  assumed about what a document contains.
- `RuntimeModel`: services are finitely many, as the list of a configuration is; the list
  `Lexical` names each domain once; the built-in tags, node identifiers (hashes) and services'
  tags (with the prefix `route-`) differ; what stands for nothing or for an error is none of
  the values beside it (`SentinelsAssumption`); inputs are of their types (`InputsAssumption`).
  The host names, the China rule set, the models and the settings are arbitrary.

| Theorem | Property | Inductive argument |
|---|---|---|
| `TypeCorrect` | `TypeOK` | inductive as it stands: a pipeline at work holds a copy |
| `OneUpdateTheorem` | `OneUpdatePerSubscription` | a pipeline is launched only when the key is idle, and keeps its key |
| `RateTheorem` | `AutoUpdatesRateLimited` | `RateInv`: the copies the pipelines may write back are limited too; this is where a stale copy could break it |
| `HiddenTheorem` | `NothingDurableIsHidden` | each write changes both maps or neither |
| `DownTheorem` | `DownIsEmpty` | used by the next three: a new manager starts without pipelines |
| `OrphanTheorem` | `NoOrphanUpdating` | `OrphanInv`: the copy a failed commit falls back to is not marked updating |
| `ContentTheorem` | `ReadyMeansContent` | `ContentInv`, `NoEarlyOutcome`: copies are backed, and a successful outcome carries the version that was published, so that what a document fills in is backed, and a 304 leaves what was backed or marks it `blind` |
| `ForwardTheorem` | `NodesNeverRegress` | `VersionInv`: store <= snapshot <= copy of the pipeline at work <= document; uses `OneUpdatePerSubscription` |
| `FeedImplementsManager` | `FeedSpec => Spec` | every step of the composition is a step of the manager or leaves its variables alone; the theorems above hold for it |
| `SilentTheorem` | `SilentEntriesAreSettled` | `SettledInv`, with `OrphanInv`: what a refused commit publishes is a copy that is not marked updating |
| `FollowTheorem` | `ListFollowsSnapshot` | `FollowInv`: what waits for a subscriber that has lost nothing is up to date even before it lists; a step changes one entry, with an event that is appended, or a silent one |
| `RoundsRespectOutcomesTheorem` | `RoundsRespectOutcomes` | `RestInv`: neither an entry nor the copy of a running update is due before its rest ends; the copy matters because a commit publishes it |
| `RuntimeTypeTheorem` | `TypeOK` of the controller | part of `Ind` |
| `SavedStartsTheorem` | `SavedStarts` | `FormInv`: every configuration kept anywhere is `WellFormed`, which does not mention a pool; `WellFormedStarts` builds it for any pool |
| `RunningIsSavedTheorem`, `NoOtherNodeTheorem` | the properties of these names | `SyncInv`: the daemon is in step with the manager when nothing is under way, and each stage of an operation keeps what either of its ends needs; a reported node that is available is no fallback, so the default proxy's status names the node in use |
| `FailureTheorem` | `FailureKeepsRunning` | from the same invariant: a rollback of a running service has a last good configuration, and a switch can only be reverted while the service runs |
| `KeyFitsTheorem` | `KeyFits` | `LifeInv`: at each step of a start, where its key already is; the database is never ahead of the key ring |
| `LifeSavedStartsTheorem` | `SavedStarts` of `ManagerLife` | `Ind` holds while the program starts as well: a default that is saved is well formed |
| `ReportsAreTrueTheorem` | `ReportsAreTrue` | `SyncInv` gives the routes and the live nodes of the daemon, `FormInv` that a route is never without its selector, at every moment and not only between operations |
| `ImplementsControllerTheorem` | `ImplementsController` | step simulation: `UnseenInv` says that an unseen default is still the default and that nobody is up; with a manager `Acknowledged` is `durable` and every step is the abstract step; a start stutters until `Ready`, which is `Open` |
| `LocalTypeTheorem` | `TypeOK` of the local service | part of `LocalInv`; that a listening server has an open manager needs `ListenInv` |
| `ServiceReachableTheorem` | `ServiceReachable` | `ServiceInv`: the desktop program has one server at a time, and nobody but the host closes it |
| `StoppedIsReleasedTheorem` | `StoppedIsReleased` | `ListenInv`: only the server in the slot or in the host's hand has listeners or the socket file, and who is past a part of the cleanup has done it, whoever did it; `BoxInv`: a sing-box service that runs has a manager that is not closed, and closing it stops the service |
| `TokenStillValidTheorem` | `TokenStillValid` | `TokenInv`: the tokens of clients and servers are the one on the disk, which is never replaced |
| `TypeTheorem` (`ProviderDocumentProofs`) | `TypeOK` | part of `IInv` |
| `IdentityTheorem` | `IdentityIsUnique` | `SoundItem`: the nodes of a subscription have the identities of their settings under its id, each once; two subscriptions share none because the id is hashed too (`IdentityNamesSubscription`) |
| `AvailableTheorem` | `AvailableIsUsable` | `Sound`: what the parser marks available is sanitized, decodes and has an endpoint, and neither the store nor a restart changes that |
| `RestartTheorem` | `RestartRestores` | `StoreInv`, `MemoryInv`: what is stored decodes to what is in memory, up to what `Decoded` recomputes (`EncodedIsRecovered`, `DecodedIsRecovered`) |
| `EndpointsTheorem` | `EndpointsFollowPool` | from `pool = NodePool(items)` and `Sound` |
| `ExchangesTheorem` | `ExchangesAreSound` | `WireInv`: `FetchIsSound`, over the requests of all attempts |
| `RenamingTheorem` | `RenamingKeepsIdentity` | `KeptIdentities`: the set of identities depends on the set of connection settings, not on names, order or repetition |
| `TypeTheorem` (`RuntimeModelProofs`) | `TypeOK` | part of `IInv` |
| `ClosestTheorem` | `ClosestServiceWins` | `RulePlan`: the rules of a plan are, in this order, sniffing, the interception of DNS, the rules of the services by their specificity and the China rule; `ClaimsAreRules`: the rules that match a host are the claims to it |
| `ClosedTheorem` | `PlanIsClosed` | `OutboundPlan`: all tags of a plan are different, and groups, rules and routes name only them |
| `AcceptedTheorem` | `AcceptedStaysAccepted` | `NormalizedIsNormal`, `NormalStaysNormal`: what normalising returns is in `NormalForm`, and on that form it is the identity; `BuildFacts`: a model in that form is refused only for an address |
| `ModeTheorem` | `ModeIsServed` | `RulePlan` and `BuildSettingsFacts`: no rule that ends the evaluation of a query is in front of the interception |
| `ControllerTheorem` | `ControllerAgrees` | `NormalForm` implies `Normal` of the abstract configuration, and the default of a group is the selected member (`OutboundPlan`) |

`SubscriptionsProofs` first shows, per action, what it does to the entries and the
copies (the *Effect* and *Frame* lemmas); the invariant proofs cite those instead of
the actions. `RuntimeProofs` does the same with `Begins`, which describes what every
request leaves in `op`; the lemmas on `Built` (`BuiltFacts`, `WellFormedStarts`) carry
the properties of building a configuration. `ManagerLifeProofs` uses the invariant `Ind` of
`RuntimeProofs` as it is: `Ready` is an `Open`, the other steps of a start do not touch what
it is about. Its refinement first shows that the operators of the abstract instance are
those of the module (the *Same* lemmas), then maps requests, progress, end and start.
`SubscriptionFeedProofs` first has facts about appending an event to a queue and taking one
from it, and `ManagerEffect`, which sums up the steps of the manager in one sentence.
`LocalServiceProofs` has one lemma per conjunct of `LocalInv` and one step per action.

In `ProviderDocumentProofs` and `RuntimeModelProofs` most of the work is in the operators, not
in the steps: lemmas say what parsing, identities and the store's encoding keep, what a sorted
list is (`OrderedFacts`, `SortedFacts`, `SortedAgain`), what three lists put together are
(`ThreeParts`, `JoinedTags`), and what each section of a plan contains; the invariant then says
in which form the data is at each stage, and every step is one of those lemmas. An exchange is
not a recursion over attempts but a function of how the answers begin (`ProviderExchange`), so
that the number of retries and redirects is arbitrary in its proof.

The inductive invariants were checked by TLC on the instances above before they were proved.

*Only model-checked:* the liveness properties (`UpdatingEnds`, `HandlersReturn`,
`OperationsEnd`, `StopReturns`, `ManagersEnd`, `DueIsUpdated`, `CancelledReturns`), which need
fairness and ENABLED, beyond the prover. `CountryCode` is given to the proofs only as a
function of names with at least one code each: what it computes for a text is looked at on the
names of the instance. The three runs that expect a violation are counterexamples, and prove
themselves.

## 5. What is not modelled

- *Metadata of a response* (titles, links, traffic, expiry): it is shown and decides
  nothing, except the interval, which `Subscriptions` and `UpdateScheduler` have. A traffic
  header without one of its keys sets that count to zero.
- *The views of the API* (the conversions of grpc.go) beyond what a subscriber can tell
  apart, and the streams of logs, traffic and connections, which pass on what the daemon says.
- *`MemoryStore`*, which the mobile library uses: the store of `Subscriptions`, except that
  it is empty again after the process has ended.
- *Incarnations of an id*, which would be needed to see a rollback remove a subscription that
  was added again.
- *Handlers after Close:* gRPC does not wait for them; what they do then fails on closed
  components: a request to start the service cannot read the status any more.
- *A service manager* that restarts the desktop program, and what the platform does
  with a VPN service whose server has ended: starts and stops come at any time.
- *Several clients at once*, the SDK's own concurrency, and two programs on one key ring.
- *`ServiceReload`* and *probe runtimes:* nothing but a test uses them.
- *File manager, IP lookup, generated code, rule sets, build scripts, the command line, the
  widgets of the Flutter client:* no state of the system.

Known hazards that no property covers, because no document says what should happen or
because the models lack the actor: a caller that joined an update whose starter was
cancelled gets that cancellation as its own failure (manager.go:259); the rollback of an
addition removes by id what another client has added since (grpc.go:73); `Start`, `Restart`
and `Stop` read the status for their answer after they have released `opMu`
(manager/manager.go:197), and `GetProxyStatus` reads three things at three moments
(node_selection.go:85); a desktop program whose `Serve` has failed stays up without listening
(cmd/TargetLib/main.go:92), and `nativeStarted` stays true on Android
(TargetlibVpnService.kt:26); two concurrent `ensureConnected` share one flag
(target_lib_runtime.dart:75); `New` leaves the store open on several errors
(manager/manager.go:103); two programs that start at once both make a key
(keyringstore/store.go:23); a name with two countries gets either code (country.go:57).

## 6. Plan

In order of what matters most to the system; the first nine are done.

1. `Subscriptions` with its proofs.
2. `RuntimeController` with its proofs.
3. `LocalService` with its proofs: servers, hosts, socket file, token and TUN descriptor, and the
   client that connects.
4. `RuntimeModel`: settings, normalisation and plan.
5. `SubscriptionFeed`, `UpdateScheduler` and `ProviderDocument` with `ProviderExchange` and
   `CountryCode`.
6. `ManagerLife` with its proofs and its refinement of `RuntimeController`.
7. Proofs about `UpdateScheduler` and `SubscriptionFeed`.
8. Proofs about `ProviderDocument`: identities, restarts, endpoints and exchanges.
9. Proofs about `RuntimeModel`: normal forms, plans, routes and its agreement with the
   controller.
10. `SubscriptionBook`: the abstract specification (a set of subscriptions with atomic
   operations and updates that settle once), implemented by `Subscriptions` up to the
   differences of section 3.
