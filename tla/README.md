# Verification project for the envoy ingress controller

TLA+ models of this repository (a fork of KubeEdge), the TLC configurations
that check them and TLAPS proofs about them. The models follow the envoy
ingress path from the API server to envoy on the edge node, and two parts of
KubeEdge it shares its transport with: acknowledged delivery of objects to the
edge, and the device twin. `PROJECT.json` lists components, runs, mutants, the
map from definitions to source lines, findings, hazards and theorems.

## The system

Kubernetes ingresses whose class is the controller's are turned into envoy
configuration and brought to the edge nodes of the node groups they name:

    API server -> informers -> event handlers -> queue -> ingress workers
       -> resourceStore -> resourceQueue -> dispatch workers
       -> beehive -> cloudhub (list queue) == connection ==> edgehub -> beehive
       -> envoy control plane (maps, sqlite, xDS snapshots) -> envoy

Pods, config maps, secrets and services take an acknowledged way over the same
connection, and a controller looks after what was not delivered:

    API server -> edge controller -> cloudhub (queue and store) ==> metaManager
         ^                               |                              |
         +------- ObjectSync <-----------+<======= acknowledgement =====+
         +-> sync controller (compares ObjectSync and object, sends again)

| Part | Source | Modules |
|---|---|---|
| work queues | `vendor/k8s.io/client-go/util/workqueue` | `KeyedWork` (promise), `WorkQueue` (code), `WorkQueueProofs` |
| ingress and dispatch workers, resource stores | `cloud/pkg/envoyingresscontroller/envoyingresscontroller.go` | `IngressSync`; `IngressSyncOwners`, `IngressSyncProofs` |
| node handlers, location cache, routing to nodes | same, and `cache/location.go` | `NodeDispatch`, `NodeDispatchProofs` |
| ingress, service, endpoints and secret handlers | same | `InformerEvents`, `InformerEventsProofs` |
| envoy control plane of the edge, SendToGroup | `edge/pkg/envoycontrolplane`, beehive | `EnvoyControlPlane`, `EnvoyControlPlaneProofs` |
| cloudhub: sessions, keepalive, list queue | `cloud/pkg/cloudhub` | `HubConnection`, `NodeSession` |
| edgehub: connection loop, fifo | `edge/pkg/edgehub`, its clients, viaduct | `HubConnection`, `EdgeHub` |
| the envoy resources' way, end to end | the two above | `EnvoyLink`, `EnvoyLinkProofs` |
| cloudhub: acknowledged delivery | `cloud/pkg/cloudhub` | `ObjectMessages`, `CloudHub` |
| edge controller, sync controller, metaManager | `cloud/pkg/edgecontroller`, `cloud/pkg/synccontroller`, `edge/pkg/metamanager` | `EdgeController`, `SyncController`, `EdgeStore` |
| delivery end to end | all of the above | `ObjectDelivery` |
| device twin | `edge/pkg/devicetwin` | `TwinState` (what a message does to a twin), `DeviceTwin` (goroutines, locks, sqlite) |

`MC*` modules hold the small sets and the constraint of a run.

## Modules

**KeyedWork** is what the controller relies on in a client-go queue: a set of
keys that need work, at most one holder per key, and a key added while it is
held is worked on again. **WorkQueue** is the code: `queue`, `dirty`,
`processing` and the keys the rate limiter holds back, with the controller's
worker loop (`Get`, `AddRateLimited` on failure, `Done`) around it. It
implements KeyedWork (`ImplementsKeyedWork`); IngressSync, NodeDispatch and
InformerEvents are built on KeyedWork's actions.

**IngressSync** has `resourceStore` (with `IngressRef`, `Spec`, `NodeGroup` of
each resource), `ingressToResourceNameStore` (`names`, `named`), and
`resourceStoreLock` (`writer`, `readers`, `leaked`) as a Go RWMutex: a waiting
writer keeps new readers out. An ingress worker goes through the branches of
`syncEnvoyIngress` (deleted, other class, envoy), one step per critical
section of `resourceStoreLock`; a dispatch worker goes through
`syncEnvoyResource`, reading under the lock and sending after it.
`initiateEnvoyResources` runs first. What an ingress builds is a set of
resource keys with one spec value.

**NodeDispatch** keeps the dispatch workers and replaces the ingress workers by
writes and drops of resources. It adds the nodes: the informer's store, the
handlers `addNode`, `updateNode`, `deleteNode` step by step, the location cache
(`Node2group`, `Group2node`, `EdgeNodes`), `initCache` running beside the
handlers, and `syncAllResourcesToEdgeNodes` one resource at a time: the range
statement yields a pointer, which is sent later.

**InformerEvents** has the API server's ingresses, a store per informer, the
queue of notifications of each, the handlers that map a changed object to the
ingresses to sync, and workers that read one lister after the other.

**EnvoyControlPlane** has the way into the edge module (ordered connection,
one goroutine per message, bounded channel), the processing goroutine with the
map update and the sqlite write as two steps, the flush goroutine reading the
five maps one after the other, and the loss of all but sqlite in a crash.
Envoy itself and go-control-plane's cache are outside.

**NodeSession** is cloudhub's side of a node's connection. A session is a
`ServeConn` goroutine with its loops; `OnRegister` is two steps (the keepalive
channel, then the tables), `UnregisterNode` one step per table it clears,
`KeepaliveCheckLoop` two (look the connection up, close it and delete the
entry), because other goroutines run in between. The list queue carries the
messages that are sent once: `ListMessageWriteLoop` takes one, looks the
connection up, and writes. **EdgeHub** is the goroutine of `Start` with the
three goroutines of each connection, `reconnectChan` and the fifo of the
websocket client. Both share the connections of **HubConnection**. **EnvoyLink**
composes them with a small controller and a small store on the edge (the full
ones are NodeDispatch and EnvoyControlPlane), with broken connections, new
certificates, crashes and panics of either side, and the deletion of the node.
What the controller sends was read earlier: a dispatch worker copies the
resource (`ReadResource`), looks the node's status up (`Route`) and sends the
copy (`Send`), and the node handler picks a pointer (`SyncPick`) and sends what
it leads to by then (`SyncSend`). On the edge `dispatch` hands a message to a
goroutine of `SendToGroup` (`EdgeRoute`), and the goroutines come to the control
plane in any order (`EdgeApply`).
Abstractions: beehive's channel and the list queue behind it are one queue; the
panic of a heartbeat on a closed channel is one step; a new client is made only
after the reader and the heartbeat of the old one have failed, for which the
code waits two heartbeats; the second half of `OnRegister` is atomic.

**ObjectDelivery** composes **EdgeController** (informers, `PodManager.merge`,
location cache, one goroutine per kind), **CloudHub** (`AddMessageToQueue` with
its version check, the queue and its store, `MessageWriteLoop` with repetitions
and `saveSuccessPoint`), **EdgeStore** (the goroutines of SendToGroup, the meta
table, the answer) and **SyncController** (`manageObject`). Connections break
unnoticed, acknowledgements come late or twice, calls of the API server fail,
cloudcore and edgecore restart.

**TwinState** is what a twin, attribute or state message does to one device, as
operators: version comparison, type check, deletion, answer to the cloud.
**DeviceTwin** runs it in the three workers: membership changes, the locks of
`DTContext`, the single transaction of the shared ormer with its retries, and
restarts from sqlite. A transaction is written row by row, and whoever is in it
is named in it (`tx.by`). `Begin`, `Commit` and `Rollback` may fail and the code
goes on: without a transaction, or with one that is over and that makes every
statement fail (`Over`). A worker is a set of goroutines, since `runDeviceTwin`
starts one again whose last answer to a heartbeat is old: it has panicked, or it
is slow and goes on beside its successor. One that panicked before its first
answer is not started again, and its heartbeats block `runDeviceTwin` once their
channel is full. When a worker answered is chosen when it matters (`Answered`),
not in a step of its own.

### Exceptions named in the state

Where the code loses something, a property that ignored it would be false, and
one that left the trigger out would say little. The models record each such
event in a variable, and the properties hold for the rest. Of these variables
only `leaked` is read by guards, since a lock that is not given back does block
others (in DeviceTwin `locked` and `readers` do that):

| Variable | Records |
|---|---|
| `leaked` (IngressSync) | a dispatch worker returned with the read lock held, because a queued resource was gone |
| `overtaken` (EnvoyControlPlane) | two messages about a resource entered the channel in the wrong order |
| `lost` (ObjectDelivery) | keys that repetitions were used up for, whose record could not be saved, that a stored deletion kept out, ... |
| `moved`, `dropped` (NodeDispatch) | nodes that got another label or were deleted before `initCache` was done; resources that were dropped (and may come back) |
| `raced`, `unsaved` (DeviceTwin) | devices that a membership change and another worker had at once, or a write of which was lost (a failed `Commit`, a rollback by another worker, a panic, a device that could not be read or deleted) |
| `lost` (DeviceTwin) | mutexes that nobody will unlock, and a read lock with each: the worker panicked, or `Unlock` found no mutex for a device removed meanwhile |
| `doubt` (EnvoyLink) | resources whose newest message was dropped, was lost with a connection, a queue, a full fifo or a process, or was overtaken by an older one |
| `overtaken` (EnvoyLink) | resources with a message that was sent, or handed on by `SendToGroup`, after a newer one |
| `raced` (EnvoyLink) | a connection came in the middle of `ServeConn`'s registration, of `UnregisterNode` or of an expiry |

The disjuncts that add to these variables are the list of ways in which the
code gives something up. `hazards` in `PROJECT.json` has them with their lines.

## Runs

| Run | Properties | Shows |
|---|---|---|
| `work_queue` | `TypeOK`, `QueueIsDirtyIdle`, `OneHolder`, `NoStarvation`, `Drains`, `ImplementsKeyedWork` | no item is lost, queued twice, held twice or starved; shutdown drains the queue; KeyedWork is implemented |
| `ingress_sync` | `LockReleased`, `MapAllocated`, `DispatchedOrQueued`, `SyncedOrQueued`, `InductiveInv` | with shared resources, deletions, both API versions at start and failing dispatches, the lock is released, no nil map is written, no ingress or update is lost |
| `ingress_sync_converges` | `Converges`, `WorkersReturn` | ingresses appear, change and are deleted: each reaches the edge and every worker comes back, unless a read lock leaked |
| `node_dispatch` | `TypeOK`, `MembersUpToDate`, `MembersRecorded` | ready members of a group have, or are about to be sent, the current resources, unless they moved; no labelled node is missing from its group, however handlers and `initCache` interleave |
| `informer_events` | `TypeOK`, `BuiltFromStores`, `EventuallyFresh` | resources are built from the current objects once informers and queue are quiet, and they do become quiet |
| `control_plane` | `TypeOK`, `SnapshotIsRecent`, `DbIsStore`, `LatestWins`, `SnapshotFollows` | a snapshot holds only contents the maps had during its flush, sqlite agrees with the maps until a fault, the last message wins unless it was overtaken, snapshots catch up |
| `envoy_link` | `TypeOK`, `InSync`, `OneLoop`, `InOrder` | across reconnections, crashes and the node's deletion: a ready node has the controller's resources but for messages given up or overtaken, one loop serves the list queue, an older state replaces a newer one only where the code lets it overtake |
| `envoy_link_reconnects` | `Reconnects` | after a fault of any kind the node ends up connected and served |
| `delivery` | `TypeOK`, `PersistedAsRecorded`, `StoredIsPending`, `RecordGrows`, `Converges` | the records of what the edge has are true and do not go back, no stored message is forgotten, the edge catches up |
| `delivery_kinds` | `Converges` | the same for objects of every kind, where the location cache decides who gets them |
| `device_twin` | `TypeOK`, `MemoryIsSqlite`, `LocksHeld`, `VersionsGrow`, `WorkersFinish` | memory and sqlite agree on devices nobody deals with, locks are given back, versions do not go back, and when nothing can go on every worker is at the end of its message |

One run ends in a violation: `control_plane_restart` checks what the
repository's README says, that a node recovers its configuration from the edge
after a restart (`Recovered`). The control plane writes sqlite and never reads
it, so nothing is served until the cloud sends again (`findings`).

`informer_events` has constants that leave a behaviour of the code out; the
model has it, and it is in `hazards`: the run changes selectors, not ports alone
(`updateService` ignores those), has no service without a selector (it enqueues
nothing) and serves v1 beside v1beta1 (`updateV1beta1Ingress` swaps old and
new). In `node_dispatch` nodes have a Ready condition from the start:
`UpdateNodeGroup` ignores a node without one and is not called again when it
appears, so that `MembersRecorded` would not hold.

### Bounds

* Two ingresses and two resources are enough for sharing, taking over and
  dropping a resource; two workers of a kind for every race between workers (a
  third would hold a third key).
* Two nodes give a group a member that stays while the other changes, and two
  groups let a node move; three changes of nodes are enough for one to be
  deleted and added again while `initCache` runs.
* Two devices in `device_twin`, so that workers that do not race share a
  transaction; two goroutines of each worker (`MaxGoroutines`), the one that
  is gone or slow and its successor; two messages, each of any kind.
* `MaxChanges`, `MaxNodeChanges`, `MaxWrites`, `MaxVersion`, `MaxMessages`
  bound the environment's changes: one to four, enough for delete, recreate and
  change again. `MaxFaults` is one fault at any moment.
  `envoy_link_reconnects` has no change, since `Reconnects` is about the
  connection only.
* Three connections, sessions and queues in `envoy_link`: the one in use, its
  successor, and one that an old goroutine still holds. A connection is only
  made when an id of `Conns` is free. `FifoSize` is 1 instead
  of 100 and `ChannelSize` 1 instead of 1024, so that both fill.
* `MaxRetry` is one repetition instead of four, `RetryTimes` two instead of five;
  `LinkSize` bounds the messages under way.
* `VersionBound` wraps the snapshot version, which no property uses.
* `MaxMutex` bounds the mutexes made for devices added again.

`NothingLost` (delivery runs) and `RacedEarly` (the runs of EnvoyLink) are
constraints: what follows once an exception is recorded is explored partly or
not at all. Both variables only grow, so the properties that except them,
`RecordGrows` among them, lose nothing by it. `TypeOK` makes no exception and is
checked up to there; for two versions of the pod instead of three, all safety
properties of `delivery` were also explored without the constraint, and hold. In
`delivery_kinds` the other objects are not followed once one is lost.
`RaceOrFault` leaves out of `device_twin` what follows once both a device was
raced and a fault happened. Nodes are symmetric in `node_dispatch`, devices in
`device_twin` and ingresses in `ingress_sync` (with the ingress workers);
liveness runs use no symmetry. `CHECK_DEADLOCK FALSE` is set where the environment's
changes are bounded and the program then waits for events.

### Fairness

Weak fairness on each goroutine's next step: Go's scheduler lets a runnable
goroutine run, and a worker's critical sections end. RWMutex hands the lock on
to waiters, hence fairness of acquiring it. Strong fairness is used only for
taking a given key from a queue: the queue is FIFO, so a key in it is taken
even though workers are at times busy (`NoStarvation` of `work_queue` is the
justification). Delayed items come back because their timer fires. In
EnvoyControlPlane a supervisor restarts an ended process. In EnvoyLink the
dispatch workers, the node handler, each session, the registration and the keepalive timers of cloudhub
go on, and so does edgecore as a whole. Nothing is assumed about the
environment: neither changes nor faults have to happen.

DeviceTwin needs no fairness: `WorkersFinish` is an invariant, about the states
in which no worker can take a step (`Quiet`). Messages and attempts are bounded,
so every behaviour in which enabled workers go on comes to such a state.

## Proofs

| Theorem | For every value of the constants |
|---|---|
| `QueueCorrect`, `QueueHoldsDirty` | the queue is exactly the dirty items not being processed, each once (`QueueIsDirtyIdle`), and no item has two holders (`OneHolder`) |
| `QueueImplementsKeyedWork` | WorkQueue implements KeyedWork |
| `SyncInductive`, `LockAlwaysReleased`, `MapAlwaysAllocated`, `NoUpdateLost`, `NoIngressLost` | the invariants of `ingress_sync` |
| `DispatchTypes`, `LabelsRecorded`, `ReadyMembersServed` | `TypeOK`, `MembersRecorded` and `MembersUpToDate` of NodeDispatch |
| `EventTypesHold`, `NoChangeLost` | `TypeOK` and `BuiltFromStores` of InformerEvents |
| `ControlPlaneTypes`, `SnapshotsAreRecent`, `TablesFollowMaps`, `LastMessageWins` | `TypeOK`, `SnapshotIsRecent`, `DbIsStore` and `LatestWins` of the control plane |
| `OneLoopHolds`, `InOrderHolds`, `InSyncHolds` | `OneLoop`, the action property `InOrder` and `InSync` of EnvoyLink |
| `DeliveryTypes` (`ObjectDeliveryTypes`) | `TypeOK` of ObjectDelivery |

Together the rows between the first two and the last follow a change from an informer's event to the
control plane's maps and snapshots: each says that one stage loses nothing, or
names what it loses.

**WorkQueueProofs** assumes that `None` is no item.

**IngressSyncProofs**: none of the four invariants is inductive alone.

* `TypeOK` and `WorkerInv` (`IngressSyncOwners`) tie a worker's step to the key
  it holds, the lock and its list.
* `OwnerInv` (`IngressSyncOwners`) is the key to the lock: a resource has at
  most one owner, the ingress that recorded its name, and an owned resource is
  stored with a reference. An ingress that shares a resource with its owner
  does not record the name, so its reference is never dropped, and this is what
  keeps owned resources in the store.
* `DispatchInv` and `SyncInv` (`IngressSyncProofs`) extend the two no-loss
  invariants to the steps of the worker that has the key: `Told` says of a
  resource, and `Kept` of an ingress, that it is queued, or that its worker
  will finish with the right result, or that all is done.

The strengthened invariant is also an invariant of the run `ingress_sync`. The
proofs use only the named assumptions of `IngressSync` (changes are objects or
deletions, specs not empty, `None` is no key, the bound is a number).

**NodeDispatchProofs** has two inductive invariants above the types.

* `EventInv`, for `MembersRecorded`: the waiting events of a node form a chain
  that ends in what the informer's store has (`Chained`), the handler works on
  the head of that chain (`HandlerInv`), and unless the handler is at it a node
  is in the groups it had when the handler last looked (`RecordedInv`).
* `DispatchInv`, for `MembersUpToDate`: a ready member has the current contents
  of a resource, or a dispatch worker will still come to it (`WorkerSends`), or
  the handler of its return will (`HandlerSends`). A worker that passed the
  node over while it was not ready is covered by the handler, and a handler
  that passed a resource before it was stored by the worker; the proof shows
  that no interleaving falls between the two.

`LabelsRecorded` has the hypothesis `Conditioned` (labelled nodes have a Ready
condition), without which it is false of the code. `ReadyMembersServed` has no
hypothesis: `moved` and `dropped` name what is excepted. Of any other node the
invariant says that no event relabels it (`MovedInv`), that until the workers
run every event and everything `initCache` has listed shows the label it has
(`EarlyInv`), and that it is in its groups once its readiness is known
(`JoinedInv`).

**InformerEventsProofs**: `BuiltInv` says of every ingress that it belongs to
another controller, or the v1 informer lags behind v1beta1, or it is queued, or
a waiting event will enqueue it (`Awaited`), or all that its worker has read so
far is still what the stores have (`Settled`). The proof is that a store never
changes without leaving an event whose handler enqueues each ingress that the
change concerns, by the object the stores have *when the handler runs*. That
needs `Telling`: `updateService` ignores a change that leaves the selector as it
is, and a service without a selector enqueues nothing; with v1beta1 alone
`updateV1beta1Ingress` takes the old object for the new one, which matters when
the class changes and the UID does not.

**EnvoyControlPlaneProofs**: `RecentInv` strengthens `SnapshotIsRecent` to the
middle of a flush: of the types read so far the collection has contents that
the map had since the flush began, and the map's contents now are among them.
`DbInv` extends `DbIsStore` to a message in process, when the map is one message
ahead of the table. For `LatestWins`, `OrderInv` says that of a resource no
message of which was overtaken, what is on the wire, what `SendToGroup`'s
goroutines hold and what the channel holds is in the order of sending, and
`LatestInv` that the last of these, or else the map, has the last contents sent.
Assumptions: every resource has one of the five types, `None` is no message,
bounds are numbers.

**EnvoyLinkProofs**: the inductive invariant `LinkInv` has a part that always
holds and a part that holds until a connection has raced (`raced`, the one
exception the three properties make).

* `SessionInv` with `Solo` says why `OnRegister` finds no other session when the
  node is not registered: without a race at most one session is busy, a session
  that serves has `nodeRegistered` set, and loops run only in one that serves.
* `LinkOK` ties the two ends together: a loop serves the queue that
  `DispatchMessage` fills, only the connection of `chClient` is open, and
  `messageFifo` is empty once `routeToEdge` has ended.
* `CopyInv`: a dispatch worker's copy is what the store has, unless the
  resource is in the queue again, and what the node handler's pointer leads to is
  older once it has left the store. It holds after races as well.
* `OrderInv`: read from the edge's store back over the goroutines of
  `SendToGroup`, the fifo, the connection, the message in the loop's hand and
  the queue to the newest that `dispatchResource` has sent, the messages of a
  resource that was not `overtaken` are sorted (`Chain`). Each action takes from
  the front of a part, adds at its end, or drops a part.
* `CarryInv`: the newest message of a resource that the node is not in doubt
  about is somewhere on that way, or it has been applied, unless a worker or the
  node handler is still to send it (`Claimed`).

Assumptions: there is a session and a queue, `None` is no connection or queue,
`Stop` is no message, `None` no copy of a resource, `FifoSize` is positive.

Only model-checked: all liveness (fairness is beyond the prover); `TypeOK` of
EnvoyLink (after a race, that an id is free rests on the size of the run's
sets); the other properties of ObjectDelivery; DeviceTwin as a whole.

## Not modelled

* Translation of an ingress to listeners, routes, clusters and endpoints, with
  the names of `contour.go`: sequential construction of strings and protobuf
  objects. IngressSync and InformerEvents take its result as given.
* A deletion that an informer learns of from a list: `deleteV1beta1Ingress`
  panics on the tombstone, which ends cloudcore. InformerEvents has deletions
  that are watched.
* A failing sqlite of metaManager: the message is not acknowledged then, as if
  it had been lost, which ObjectDelivery has.
* The device controller of the cloud; the messages it sends are the
  environment of DeviceTwin.
* In cloudhub the limit on nodes, QUIC, certificates and the token server; in
  edgehub the requests for certificates and synchronous answers.
* The upstream controller, nodes, rules and service lists of the edge
  controller; ClusterObjectSyncs; metaManager's queries and metaserver; the
  documents the device twin publishes to MQTT.
* The Go runtime's reaction to unsynchronised map accesses; map accesses are
  atomic steps. The places are in `hazards`.
* Log output, configuration, the gRPC server, functions without a caller
  (`getIngressesForPod`, `enqueueEnvoyIngressAfter`, the queries of
  `dao/sql.go`).
* The other KubeEdge modules and the command line tools, which this repository
  inherits unchanged.
