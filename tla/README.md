# Verification of pole

TLA+ modules, TLC configurations and TLAPS proofs for pole, a server for service
discovery and configuration written in Go. Every definition is translated from
the code under `src/`, and `PROJECT.json` maps it to its lines. Code outside
`src/` that a module needs (the Go runtime, badger, SQLite, dragonboat, fsnotify)
is modelled by how the code uses it.

## 1. Inventory

A pole server keeps a table of the members of its cluster, a registry of service
instances and a registry of watches on configuration files. Clients reach the
two registries over rpc streams. Inside the server, changes travel as events
through the notify package. Everything is goroutines and callbacks: one handler
per topic, a pool of workers for jobs and timers, one goroutine per request.

| part | source | state | operations |
|---|---|---|---|
| fast event publishers | `notify/msg_notify_center.go` | per topic: a bounded channel, a `sync.Map` of subscribers, `lastSequence`, one handler | RegisterPublisher, AddSubscriber, PublishEvent, the handler's loop |
| shared publisher | same file | one channel, one handler, a locked set of listeners per topic | Add/RemoveSubscriber, PublishEvent, close, the handler's loop |
| event centre | same file | the two above | RegisterPublisher, PublishEvent(Wait), RegisterSubscriber, DeregisterSubscriber, Shutdown |
| cached clock | `utils/common_util.go` | the value of the last tick | the ticker, GetCurrentTimeMs |
| member table | `server/cluster/member_manager.go`, `member_utils.go` | `memberList` and its size, the status of Member objects, a mutex, the reporting task | MemberChange, UpdateMember, GetMemberList, KRandomMember, OnSuccess, OnFail |
| member lookup | `server/cluster/member_lookup.go` | the current lookup, the polling task of an address-server lookup | start, switch and stop a lookup |
| instance registry | `server/discovery/discovery_core.go`, `discovery_model.go`, `discovery_server.go` | services, clusters and instances in memory | register, deregister |
| instances of a service | `server/discovery/discovery_model.go` | per cluster: a map of instances, its count, the type of its instances | addInstance, RemoveInstance, findAllInstance |
| discovery storage | `server/discovery/discovery_storage.go` | badger on disk, a memory store | Save, BatchUpdate, Remove and Read of services, clusters and instances |
| leases | `server/discovery/discovery_less.go` | expiries by key, tasks on a time wheel, watchers, two locks | GrantLess, RenewLess, RevokeLess, AddExpireWatcher, a task's Run, notifyExpire |
| start and life cycle | `pole.go`, `server/config/config_server.go`, `server/discovery/discovery_server.go` | contexts, transports | Start, Init, Shutdown |
| context tree | `common/pole_ctx.go` | contexts with a parent | NewCtxPole, NewSubCtx, Cancel |
| config watches | `server/config/config_core.go`, `config_server.go`, `config_model.go` | watchers by namespace and client, two kinds of lock, jobs in the pool | watchConfig, AddWatcher, merge, OnEvent, onConfigChange |
| config operations | `server/config/config_core.go`, `config_server.go`, `config_actor.go` | the stored file | publish, create, modify and delete, the filter chain |
| key tree | `server/storage/kv.go` | a binary tree of keys and a size | Insert, Delete, the finders |
| memory store | same file | a map, hooks, one lock | Write, Read and Delete, single and batch, RegisterHook, Destroy |
| relational store, transactions | `server/storage/rds.go`, `server/config/config_storage.go` | a SQLite database | ExecuteQuery, ExecuteModify, Transaction; Begin, Run and Commit of ConfigOpContext |
| health checks | `client/healthcheck/` | tasks by address, a time wheel per plugin | AddTask, RemoveTask, a task's Run |
| plugin centre | `plugin/plugin_center.go` | plugins by name | RegisterPlugin, DeregisterPlugin |
| raft protocol | `server/core/raft_protocol.go` | servers by group, each with a NodeHost of dragonboat; a state machine wrapper per replica | AddProcessor, Shutdown; Update, Lookup, SaveSnapshot, RecoverFromSnapshot, Close |
| file watchers | `notify/watch_file_center.go` | watchers by directory | register, deliver, deregister |
| routine pool, time wheel | vendored `pole-rpc/scheduler.go` | 16 workers and 128 places; slots of tasks | Go, DelayExec |
| consistent hash | `utils/consistency.go` | positions and the node at each | AddNode, RemoveNode, GetNode |

How they interact: the lookups tell the member table who belongs to the
cluster, one of them as a watcher of the file-watch centre. The member table and
the config watches are a publisher and a subscriber of the notify package.
MemberChange publishes with its mutex held, so the fate of a handler goroutine decides whether the member table can change at
all. The registry writes to the stores while other requests work on the same
services. A watch is made by the goroutine of a request, found by the handler
goroutine of a topic and answered by a pool worker. The discovery storage is a
badger store and a memory store behind one interface, and the memory store keeps its key tree
through a hook of its own. The modules' transports and the leases hang on
contexts that the start of the process makes.

What makes this code hard to test, and where each shows up in `hazards`:
subscribers that come and go during a dispatch; a handler that dies and is never
restarted; an answer of a member that arrives after the list has changed; stores
that fail or lose their last writes in a crash between two steps of a
registration; maps read without the lock that guards their writes; operations
that panic half way and leave their partial effect; a task removed while it runs;
a lease granted, renewed or revoked while its task looks at it; a transaction that
fails at one of several statements; a replica restarted from a snapshot.

## 2. Modules

Each component has one module. Its variables are the fields named in the comments
of the VARIABLES section, and its actions keep the names of the methods. A method
that other goroutines can interleave with is several actions, cut where it takes
or drops a lock, blocks, calls back or touches shared state without a lock. One
that holds a lock throughout is one action. History variables (marked
`history`) record what has happened and guard no action but through a bound.

**`Publisher`** (fast publishers). `Send` is the accepting branch of PublishEvent.
`Receive` and `ReceiveDies` are the top of the handler's loop: with a logger and a
set clock the handler goes on, else it panics twice and the goroutine ends.
`Notify` is one callback of `sync.Map.Range`; a subscriber stored during the Range
may be reached or not, and a panic of OnEvent (`Faulty`) ends the Range: `cut` has
the events of which the subscribers not yet reached hear nothing. `EndNotify` updates `lastSequence` through float64, which
`Float64` models with its rounding above 2^53 (`ExactLimit`).

**`SharePublisher`** (slow events). `BeginOnEvent` and `EndOnEvent` bracket a
callback, because `ConcurrentSet.Range` holds the read lock through it, and
`PanicOnEvent` ends the handler. After `SlowShutdown`, the handler drains the channel and
then meets nil.

**`NotifyCenter`** composes both (`P == INSTANCE Publisher`, `S == INSTANCE
SharePublisher`) under the exported functions. Each caller executes a list of
steps; a step uses the action of the publisher it concerns, and one for a slow topic
on the way through the fast publishers does nothing. `alone` and `settled` are the
history that `RegistrationHolds` needs: which calls about a subscriber overlapped,
and what the last one that none overlapped has left.

**`ClusterManager`** composes the member table with the `Publisher` of its topic.
Members are pointers, so an object is an address together with the list that
brought it. `MemberChange` and `NotifyChange` are the two halves of MemberChange
around the publication that may block; the reporting task reads the size, then the
table (`ReadSize`, `Select`), asks a member (`Report`) and writes back
(`UpdateMember`, `NotifyUpdate`). `KRandom` is the selection of KRandomMember.

**`FileWatch`** is the file-watch centre for the directory that the repository
registers. `watcherMap` holds a Go slice; `slots` is its backing array, which the
loop shares while it calls watchers, so that it sees what `removeElement` and
`append` write. fsnotify's queue may overflow, and loses the names of pending
events when its watch is removed (`Forget`).

**`MemberLookup`** EXTENDS `FileWatch`: a file lookup is one of its watchers. The
switch handler is `Switch`, the two Shutdowns (`ShutdownFile`, or `Cancel` and
`MarkShutdown`), the ways to fail or start, and `Assign`; several requests may be
in it at once. `ReadConf` and `Deliver` are OnEvent of a file lookup, `Tick` and
`Answer` the poll of an address-server lookup.

**`Discovery`** is the way of register and deregister requests through
discovery_server, ServiceManager and storage. Services and clusters are pointers,
numbered as they are made: two requests may hold different clusters of one name.
`recent` is the sequence of disk contents since the last sync and `Crash` returns
to any of them.

**`ServiceRepository`** is what a Service does with the maps of its clusters.
`AddInstance` reads the type of a cluster without the lock and `SetType` is the
critical section that follows; nothing in the repository calls Cluster.addInstance
yet, as Service.addInstance (`ServiceAddInstance`) goes past it. findAllInstance is `FindAllInstance`, one `SumSize`
and one `Fill` per cluster and `MakeSlice` between them, because each reads a
count or holds a read lock for itself only.

**`DiscoveryStorage`** has every operation of kvDiscoveryStorage, called in any
order, where `Discovery` has the two that its requests use. Stored values are the
number of the call that wrote them. A batch of badger is one write, which it is
below the limit at which badger splits one; what the properties say does not
depend on it.

**`Lessor`** INSTANCEs `ContextPole` for the contexts of the leases. The wheel is
that of the vendored scheduler: `Pos` is getSlots, with a 32-bit sum that may be
negative and then panics as an index, and `NegativeCircle` is what the scan of a slot
asks for, since it counts down a copy. A task on the wheel is `Fire`, `RunLock` and
one of `RunDue`, `RunRevoked` and `RunAgain`, on the one worker of its slot; the
reporting goroutine is `Receive`, `NotifyLock` and `NotifyExpire`. `Wrap` is the
overflow of time.Duration and of int32, with `Half` and `Half32` in place of 2^63
and 2^31. A map read without the lock of its writers is `MapRace`, the end of the
process. `watch` is the history of which task a lease relies on.

**`Lifecycle`** INSTANCEs `ContextPole` too: which context each console, API and
transport is made from, and which of them a Shutdown cancels. `ShutdownReach` is what
the code does, `ShutdownCloses` what its comments say.

**`ConfigWatch`** has the steps of a watch request, of the handler's selectWatcher
and of the jobs. A map access without its lock while another goroutine writes is a
choice between going on and `fatal`, the end of the process by the Go runtime.

**`ConfigOperations`** has the steps of an operation on a file: `Operate` takes the
version, `Filter` is the chain and the branch on BetaInfo, `SaveConfig` the call of
the storage.

**`KeyTree`** names a node by its path. A Delete that panics is an action with the
effect it had before the panic. It deliberately follows the code in losing
subtrees and keys; the properties say what holds nevertheless. The operations that
only read the tree are in **`KeyTreeReaders`**, apart because two of them are
recursive operators, which no module with a proof may reach.

**`KvStorage`** EXTENDS `KeyTree`: the tree is used by the tests or by the store
(`user`), which inserts through the hook of `BeforeWrite`. A write takes one step
per hook and entry, since Destroy takes no lock.

**`Rds`** has one call per goroutine, of one of the four kinds, cut at every
statement; each statement, commit and scan has the way in which it fails. `OpRun` is
a function of a ConfigOpContext, which has no result: `OpRunFails` passes the failing
statement over and goes on.
`results` holds pointers, as ExecuteQuery hands out, and `Deref` follows them.
`Together` is true of two rows if every batch that writes one of them writes the
other: it is of such rows that the property asks for one writer, unless a
Transaction or a ConfigOpContext has written over one of them.

**`RaftProtocol`** and **`RaftGroup`** are the two halves of raft_protocol.go: who
opens and stops the NodeHosts, and what one group's state machines get to see. In
the second, dragonboat's part (log, snapshot, compaction, restart) is external.
`RaftProtocol` has every start with members refused, as the code stands;
`RaftGroup` says what the wrapper would do once one is accepted (`StartAccepted`).

**`ConsistentHash`** has one step per call; `spins` is an AddNode that never ends.

**`HealthCheck`** covers the four plugins, which are the same program around
different checks, and the plugin centre that registers them. `Fire`, `Check`,
`Finish` and `ReAdd` are the steps of Run and its deferred function. A wheel has a list
of tasks and one worker per slot, so that a check that waits for ever holds up the
tasks of its slot and no others.

`MC*` modules give the small values TLC uses. `MCPublishers`, `MCDiscoveryServer`,
`MCConfigServer`, `MCStorage`, `MCMemberLookup` and `MCRaft` put components that
share no state into one run: `part` is chosen initially and says whose steps a
behaviour takes, so that the states are the sum of the components' and not their
product. Fairness is that of each component, for its own behaviours. The modules
`*Proofs` hold the proofs (section 4), each for the components that it EXTENDS.

### Premises

The repository has defects that stop whole components before anything
interesting happens. Where one assignment or call is missing, a constant turns the
premise on: FALSE is the code as it stands, TRUE the same code with that one thing
in place. The properties of the other lines are then worth checking.

| constant | module | what is missing in the code |
|---|---|---|
| `LogInstalled` | Publisher and its users | `msgPublisherCenter.log` is assigned nowhere (msg_notify_center.go:308) |
| `OwnerSet` | SharePublisher | `SharePublisher.owner` is assigned nowhere (56-64, 408) |
| `ZeroMapUsable` | ClusterManager, Discovery | a zero `ConcurrentMap` panics at its first Put in the vendored pole-rpc |
| `LogInstalled` | FileWatch | `WatcherCenter.log` is assigned nowhere (watch_file_center.go:91, 133) |
| `CleanParse` | MemberLookup | ReadAllLines puts ten empty lines first (io_util.go:25), on which SingParse panics, and MultiParse leaves nil members (member_utils.go:47) |
| `Reporting` | ClusterManager | openReportSelfInfoToOtherWork has no caller |
| `StartAccepted` | RaftGroup | start passes join together with the members, because init has made the directory whose absence it takes for a first start, and dragonboat refuses that (raft_protocol.go) |
| `ValuesSpread` | ConfigWatch | a `[]string` is passed as one value of a variadic (config_core.go:186, 253) |

Further premises stand in the headers of the modules: `DiscoverySdkAPI.core`,
`lessHolder` and `ConfigCore.watcherMgn` are set, the memory store's init returns
and a function can be put into a polerpc.Set, InitWatcherCenter has been called,
the health checks' time wheel runs its tasks, ConfigCore has a filter chain and a
storage operator (config_core.go leaves both nil) and the map of raft servers has
been made. For the leases, the constructor of the wheel returns, somebody starts the
wheel, which nothing does, and the channel of expired keys exists, which is nil as
shipped; no fairness is assumed there, so that what is shown holds of a wheel that
stands still, too.

go.mod and vendor/modules.txt name the same version of pole-rpc, and yet these
calls do not compile against the vendored copy. The modules take the meaning that
the calling code gives them:
functions with a context passed to `Go` (discovery_less.go:46,
member_lookup.go:172, watch_file_center.go:84, plugin_center.go:36),
discovery_server.go:107, watch_file_center.go:61 and 83, discovery_storage.go:102,
and `NewTimeWheel` and `AddTask` in health_core.go.

## 3. Runs

| run | instance | distinct states | checks |
|---|---|---|---|
| `publisher` | fast: 1 topic with the cached clock, 2 subscribers (1 ignores expired events and may panic), capacities 1 and 2, sequence numbers around the limit of exact floats, 3 events; shared: 2 topics, 2 listeners (1 may panic), capacity 1, 2 events, shutdown | 527,522 | DeliveredOnceInOrder, NoExpiredDelivery, NothingLost, SlowInOrderNoneLost, NoCallbackAfterRemove, AcceptedIsDispatched |
| `publisher_shipped` | the fast one with LogInstalled = FALSE | | violates AcceptedIsDispatched |
| `notify_center` | 2 fast topics and 1 slow, 2 single subscribers and a multi-subscriber, 2 callers with 2 calls each | 76,402 | RegistrationHolds, CallsReturn |
| `cluster` | 2 addresses, 2 lists and a report, 2 subscribers (1 may panic), a channel of 1 | 663,031 | TableIsLatestList, AdditionsTold, SubscribersConverge |
| `member_lookup` | 2 switching requests, 3 lookups, 2 changes of cluster.conf, a queue of 1; a ring of 3 nodes, 5 checksums | 216,606 | SettledIsLive, LateListAtMostOne, FileChangeDelivered, RingMovesLittle |
| `discovery` | 2 requests, 2 addresses, one service and cluster, failures, 1 crash; 2 clusters, 2 adders, 1 findAllInstance, 3 changes; 1 lease key granted twice, 3 slots, a late watcher, 3 contexts, 4-bit durations and 2-bit slot numbers; the whole start of the process | 184,209 | InstanceHasService, OneService, FindAnswers, TypeSetOnce, ReportsBounded, LeaseIsWatched, ShutdownReach |
| `discovery_uniform` | the requests without a crash | | violates ClusterUniform |
| `shutdown` | the start, Init and Shutdown of the modules | | violates ShutdownCloses |
| `config_watch` | 2 watch requests out of 4 asks, 2 events, clients that leave; 2 operations, a clock of 3 | 109,227 | ToldOnceWhatIsWatched, WatchersTold, NewerLostOnlyToOverlap |
| `config_shipped` | the watches with ValuesSpread = FALSE | | violates WatchersTold |
| `storage` | the tree with 5 keys and a size between -7 and 7; 2 callers, 2 calls on batches of one and two keys; 1 service and cluster, 2 instances, 1 reader, 1 crash; 3 sessions on 2 rows | 352,412 | TreeKeepsKeys, TreeCoversStore, BatchSeenWhole, ListNotNewer, RemovedIsGone, ModifiesAreWhole, LockComesFree |
| `raft` | 2 groups, 2 callers with 2 calls, 2 shutdowns; 2 replicas, 3 entries, a snapshot after each, 2 starts; health checks: TCP and HTTP, 2 addresses, 2 slots, 2 tasks | 167,606 | OrphanForEver, MissingOnlyBelowSnapshot, NothingBehindAFailure, CommittedIsReached, AcceptedIsScheduled, AtMostOneMoreRun, CheckedUntilRemoved |

Each property is stated in words above its definition. Each one of a passing run
has a mutant in `PROJECT.json`, a plausible bug in the code it is about, under
which TLC finds it violated.

Why these bounds are enough to meet the hard cases:

- *Events and capacities.* With three events and a channel of one or two, one
  event can be in the handler's hands, the channel full and a third one waiting;
  sequence numbers 4, 5 and 7 around `ExactLimit = 4` include two that rounding
  confuses. Two subscribers give one that is reached and one that joins meanwhile.
- *Callers.* Two callers with two calls let a registration, a removal, a
  publication and a shutdown meet in any pair.
- *Lists.* `SmallLists` has lists that grow, shrink, repeat a member and contain
  the nil that MultiParse leaves; with two lists a report can straddle a change of
  list, and the events of both and of the report fill the channel and the handler's
  hands.
- *Requests.* Two registrations are what it takes to replace a cluster or to race
  for a service. One crash after any number of writes reaches every prefix of
  them. Two watch requests may be of one client for overlapping groups, of two
  clients, or of two namespaces.
- *Instances.* Three changes under a finder let one cluster gain and another lose
  an instance between the sum and the fill, and an overwrite or a removal in vain
  put the counts off before the finder begins.
- *Leases.* Two grants of one key give two tasks for one lease, in one slot or in
  two. With 4 bits and a clock of two values, a grant overflows or does not, so that
  circles that are negative and others occur; the 2 bits of the slot make indices
  that are in range and out of it.
- *Lookups.* Two requests that overlap in any way, each with every outcome, on
  top of a first file lookup; the second change of the file meets a full queue.
- *Rings.* Three nodes give a position before, between and behind others, and all
  coincidences of checksums.
- *Stores.* Five keys allow the node with two children whose successor is deep, and
  every shape that lost subtrees leave. Two callers of batches of two keys let a
  reader fall between the two writes; three sessions are a writer, one that waits
  for its lock and a reader that holds off the commit. The statement list has
  two statements for one row, in an order that the sort has to repair.
- *Replicas.* Two replicas, one of which lags behind the other's compaction, and a
  restart of either; three entries put a failing one before, at and behind a
  snapshot.
- *Health checks.* Two tasks may share a slot of a wheel, be in two slots, or belong
  to two plugins.

Deadlock is checked for `publisher` and `publisher_shipped`. The other instances
really stop: requests, calls and tasks are bounded and are used up.

### Fairness

Weak fairness of a handler, a job, a request in progress or a plugin's goroutine
says that the Go scheduler runs a goroutine that can run. Strong fairness is
assumed where a goroutine waits for a resource that becomes free again and again:
a sender on a full channel (Go queues senders in order) and a waiter for a mutex
(Go's mutex hands over to a waiter that starves). Clients, callers, lookups, the
clock, failures and crashes have none: nobody has to call. The read of a TCP check
has no deadline, so no fairness covers it (`MayBlock`), and neither has the request
to an address server. The worker of each slot of a health-check wheel goes on, and
the wheel of the leases has no fairness. A session of the relational store goes on
with its call: every wait ends with the busy timeout. A replica that runs applies
the entries it has and gets those it can reach; nobody has to start one that is
down, so that `CommittedIsReached` speaks of entries that a running replica can
reach.

### Disagreements found

The four violation runs show code that does something else than a test, comment or
document says; `findings` quotes the lines.

- `publisher_shipped`: no accepted event is ever dispatched, although the
  package's tests wait for it.
- `discovery_uniform`: a cluster may hold persistent and ephemeral instances,
  which the design document excludes. The trace needs `ZeroMapUsable`, since the first
  Put into the cluster's map panics otherwise (discovery_core.go:198).
- `shutdown`: after Shutdown of the config module its transport goes on taking
  requests, although the comments say that it closes the server and its API
  (config_server.go:49, 190).
- `config_shipped`: no client of a watched namespace is ever told of a change.

Others were met while modelling and have no run of their own: a member list of
another length is taken over without an event, although the comment calls it
certainly a change (member_manager.go:226-227); a switch of lookup that fails
leaves the old one shut down and current (member_lookup.go:71); each registration
replaces the cluster of the earlier ones (discovery_core.go:184, 198, against the
comment at 77); KRandomMember may return k + 1 members (member_utils.go:82);
`ConcurrentMap.size` counts replaced entries again; FindNearbyRight returns what
FindMin returns (kv.go:224-228); FindNearbyLeft disagrees with the comment at
kv.go:193; AddWatcher always returns false, so
that every watch is answered "add config watch failed" (config_core.go:88, 151);
DeregisterPlugin (plugin_center.go:46) tests the opposite of what it needs;
AddNode of the consistent hash does not end for a second virtual node or an equal
checksum, RemoveNode removes nothing that was added, and keys behind the last
position but one do not go to the next node (consistency.go:33-98);
findAllInstance sizes its slice by counts that overwriting and removing in vain
put off, so that it panics or returns empty instances (discovery_model.go:70-85);
the expiry of a lease multiplies a time in milliseconds by a second, so that it
overflows (discovery_less.go:62, 75), and the vendored wheel runs only tasks whose
delay has done so; an
older configuration may replace a newer one (config_core.go:42-67); every
processor's NodeHost wants the same address, so that one that was refused its
start keeps all later ones out (raft_protocol.go); snapshots hold nothing, so that
a replica that recovers from one misses what lies below it; all rows that one
ExecuteQuery returns are the last one read (rds.go); RegisterHook of the stores
panics; removeElement keeps
what it should remove (watch_file_center.go:192); RegisterHealthCheckTask adds no
task; the vendored time wheel panics in its constructor, counts down a copy of a
task's circle and so fires only tasks whose circle is negative; a function of a
ConfigOpContext that fails is passed over and the rest committed
(config_storage.go:14).

Some hazards in `PROJECT.json` have no property, because the code does go wrong there
and nothing is promised: a publisher blocked for ever behind a dead handler, with the
lock of the member table held; a client that reconnects and is answered on its old
stream; a health-check task stranded between the two assignments of Init; the
standstill of a lease's task, AddExpireWatcher and the reporting goroutine; the
NodeHost that a refused start leaves behind; and the part that a failing Transaction
or ConfigOpContext leaves. The modules have all of these behaviours, and the
properties beside them say in their comments that they leave them out.

## 4. Proofs

Each theorem is for all values of the constants that satisfy the assumptions named
in its module (an empty cell: the same as above), and for any value of the bounds.
The specifications are those of the single components; a behaviour of a run is one
of them while the others stand still.

| module | theorem | statement | assumptions |
|---|---|---|---|
| `PublisherProofs` | TypeCorrect | Spec => []TypeOK | PublisherAssumption, SequenceAssumption, SequenceRange |
| | OnceInOrder | Spec => []DeliveredOnceInOrder | the same |
| | NoExpired | Spec => []NoExpiredDelivery |  |
| | NoLoss | Spec => []NothingLost |  |
| | Backlog | Spec => []AcceptedBounded |  |
| | ShippedBound | without a logger no topic accepts more than its capacity and one |  |
| | SlowDelivery | SlowSpec => []SlowInOrderNoneLost | SharePublisherAssumption |
| | RemovalIsFinal | SlowSpec => []NoCallbackAfterRemove |  |
| `StorageNotifyProofs` | ListFollowsService | DsSpec => []ListNotNewer | none |
| | RemovalIsComplete | DsSpec => []RemovedIsGone |  |
| | RegistrationsHold | Spec => []RegistrationHolds | NotifyCenterAssumption |
| `ClusterProofs` | DroppedStaysDropped | Spec => []TableIsLatestList | ClusterAssumption |
| | MembersAreTold | Spec => []AdditionsTold |  |
| | OrphanTheorem | RegistrySpec => OrphanForEver | BatchesAssumption |
| | FailureStopsTheGroup | GroupSpec => []NothingBehindAFailure | GroupAssumption |
| | OnlySnapshotsLeaveOut | GroupSpec => []MissingOnlyBelowSnapshot |  |
| `ConfigProofs` | NewerSurvives | OperationsSpec => []NewerLostOnlyToOverlap | none |
| | ClientsAreToldOnce | Spec => []ToldOnceWhatIsWatched | none |
| `DiscoveryProofs` | InstancesHaveServices | Spec => []InstanceHasService | none |
| | ServicesAreUnique | Spec => []OneService |  |
| | LeasesReportOnce | LessorSpec => []ReportsBounded | LessorAssumption |
| | LeasesAreWatched | LessorSpec => []LeaseIsWatched |  |
| | ShutdownIsLocal | LifeSpec => []ShutdownReach | none |
| `RepositoryProofs` | OneTypePerCluster | RepositorySpec => TypeSetOnce | none |
| | FindsWhatStays | RepositorySpec => []FindAnswers | RepositoryAssumption |
| `RdsHealthProofs` | Scheduling | Spec => []AcceptedIsScheduled | none |
| | Removal | Spec => []AtMostOneMoreRun |  |
| | ModifiesStayWhole | RdsSpec => []ModifiesAreWhole | RdsAssumption |
| `KvLookupProofs` | StoreIsCovered | KvSpec => []TreeCoversStore | KvAssumption |
| | BatchesAreAtomic | KvSpec => []BatchSeenWhole |  |
| | OneLateList | Spec => []LateListAtMostOne | LookupAssumption |
| | ASettledLookupWorks | Spec => []SettledIsLive |  |

Hardly any of these properties is inductive; the strengthenings are as follows.
Each proof has a lemma per action, or per group of actions with the same effect,
and where the components of the state are indexed (topics, calls, sessions,
replicas) a lemma that a step of one leaves what is known of another alone.

*Publisher.* That deliveries are in order, for
example, depends on the channel holding consecutive events and on the handler
holding the one before them. `IInv` adds, per topic: the channel holds the events
after the last one taken (`QueueInv`); everything taken is done with, but for the
one in hand or the one the handler died of (`HandlerInv`); what a subscriber has
got was taken, and is older than the event in hand unless the Range has reached
the subscriber (`SeenInv`); `lastSequence` bounds the delivered sequence numbers but for
those of the event in hand, and is itself a float (`SequenceInv`); a subscriber
that is not a key of the Range joined after the event was accepted, and one
that was reached got it (`RangeInv`); a Range that is cut short is so by a subscriber
that may panic and got the event (`CutInv`).

*Shared publisher.* `ShareInv`: the channel holds the last events accepted, in
order (`SlowNumbered`); the event of a Range is the last one taken, the listeners it
has reached have it and the others have only earlier ones (`Ranging`); nothing
heard or done is later than the last one taken (`SlowPast`), so that a listener added
now has joined behind all of it; a callback belongs to a Range over a set that
lists it (`Calling`), which the lock then keeps from changing.

*Event centre.* `CentreInv`: a registration that no other call about its subscriber has
overlapped has, for every topic, put the subscriber where the topic delivers from or
has the right stop still ahead of it, and a deregistration has left it in no set that
is behind it (`AboutSound`); what is settled of a subscriber is so (`SettledSound`); and
OnEvent runs only for a listener of the topic in hand, listeners have asked for their
topics and a topic without a set has none (`ListenersSound`), so that a deregistration
that visits the subscriber's own topics misses none. That a call overlapped by another
is no longer `alone` is what keeps a half-done registration from counting.

*Member table.* `ClusterInv`: the table has the addresses of the last list; every
object that a report may still write to was made by some list; and if nobody holds
the lock, the last event told names the whole table.

*Raft.* `RegistryInv`: at most one NodeHost runs, as they share an address, and a
call between NewNodeHost and the map of servers owns one that neither a server nor
another call has. So a NodeHost whose call has failed is owned by no one for ever.
`GroupInv`: what a replica has and what it can still get reach without a gap from
its snapshot to the end of what it applied (`Reach`), and what an open wrapper has
handed on since it was opened is ascending and complete above the snapshot
(`Handed`).

*Lookups.* `LookupInv`: a lookup whose late list was delivered is shut down and does
not ask again (`LateInv`); a request that overlapped no other is the only one under
way, and what it has started is live, also while the loop of the file watchers
works on a slice that has been changed under it (`SwitchInv`).

*Operations.* `OperationsInv`: no version is later than the clock, and an operation
that had ended when another began has a version that is not later.

*Config watches.* `WatchInv`: whatever is listed under a client's id was asked for
under it (`RepositoryInv`); one request at a time inserts a namespace
(`InsertInv`); events wait in the order of their versions, above all that were
selected (`QueueInv`); a job has a watcher and its event is not yet on the
watcher's stream (`JobInv`); what is on a stream lies below the versions that wait
(`SentInv`). That each event is told once follows from the last three.

*Registration.* `DiscoveryInv`: every disk content since the last sync has the
service of each of its instances, a service in the map is on the disk, and a
request past createServiceIfAbsent works on the service in the map.

*Types of clusters.* `RepositoryInv`: an adder that found the type unknown and is
past the critical section adds an instance of the cluster's type. The unchecked
read before the lock matters to no step, because the lock is where the type is
read again.

*findAllInstance.* `FindInv`: a call has every instance that stayed in the clusters
it has visited; while nothing changes, its sum is the number of instances of those
clusters plus their drift. `Drift` is a recursive function on sets of clusters, whose
value depends on the choice of an element at each step. That it is the sum in any
order, and that one cluster more adds its own share (`SumsExist`, `SumsAdd`,
`DriftAdds`), is proved by induction over the cardinality, which the lemma
`AllNumbers` draws from the well-foundedness of the order on the numbers.

*Leases.* `LessorInv`: the reports of a key that were told, are in hand or may still
come from a task are no more than its grants; those since a revocation, told or under
way, are no more than were under way then, and none counts as late while the key has
a lease; and the task that a lease relies on is one
of the key and was not dropped, because a task gives up only where it finds no lease,
and then no lease relies on it.

*Life cycle.* `LifeInv`: contexts are numbered in the order of the start, and none is
made from that of a console or an API; so cancelling one of these reaches it alone.

*Health checks.* `HealthInv`: a task leaves for good only when it was cancelled and
its connection closed, and one that has run after its cancellation is still in
that run or has left.

*Discovery storage.* `DsInv` says of every content the disk may fall back to what the
properties say of the last one, and that an instance is in a store only if it was
once passed with the kind of that store, or behind one of that kind.

*Relational store.* `RdsInv`: a transaction that can still commit has executed the
first k statements of one order of its batch, and a row it has written is as the
last of these on that row says (`Executed`); a query has read the rows in the state
it began in, which no commit can change while it reads (`InQuery`); a row
that an ExecuteModify wrote has a writer that committed, and rows written together
have one writer but for those that a Transaction or a ConfigOpContext wrote over
(`RowsSound`).
The statement with the highest No stands because the sorted one that is last on a
row has it (`LastIsHighest`).

*Memory store.* `KvInv`: a write under way holds the lock, is the last call and has
written its keys up to the one it is at, and nobody has seen it (`UnderWay`); the
tree has the keys of the map and the one about to be put (`Covered`). That an Insert
finds a place for a key that is not in the tree (`PlaceExists`), by the longest
path that the comparisons take, is what makes the hook keep `Covered`.

Only model-checked:

- all liveness properties (AcceptedIsDispatched, CallsReturn, SubscribersConverge,
  WatchersTold, CheckedUntilRemoved, FileChangeDelivered, CommittedIsReached and LockComesFree), which this prover does not handle;
- TreeKeepsKeys, which says what the finders, the walks and a Delete do with every
  tree: some of them are recursive operators, which the prover cannot reach;
- RingMovesLittle, which compares the owners of every key before and after a change
  of the ring, for all checksums within a bound.

## 5. Not modelled

`components` lists every part with its status and the reason. Left out are:

- *Code that does nothing or is never reached*: the subscriptions of discovery, the
  distro protocol, the eventual store, Read and Write of RaftProtocol and with
  them RaftKvStorage, whose operations return nothing; the client API's empty
  types; the kubernetes listener, whose Start panics before it runs;
  RegisterHealthCheckTask, which can add no task; metadata of members, whose every
  writer panics.
- *Pure functions that nothing calls*: the label selector of discovery, a parser.
- *Code without state of its own*: generated protocol buffers, constants,
  interfaces, reading of settings, logging, formatting, file and network helpers,
  the read-only HTTP handlers of the member table.
- *The vendored routine pool and time wheel*. A job of the pool is one step of a
  worker in `ConfigWatch`; its 16 workers and 128 places are not counted, so
  that nothing is said of a pool whose workers are all blocked. The wheel panics in
  its constructor; `Lessor` and `HealthCheck` take the meaning that their code
  gives it.
- *Libraries*: dragonboat, badger, SQLite and its driver, fsnotify and the transports of
  pole-rpc. They are
  external definitions, by how the code uses them.
