# Formal models of docker-net-dhcp

TLA+ models of the Docker network plugin in `src/pkg`: they say what the plugin
does to its shared state in every interleaving of Docker's requests, its own
goroutines, the DHCP client processes and its own death. TLC checks them on
small instances; every safety property that holds without an assumption on Docker, and every refinement, is also proved with
TLAPS for instances of any size. Paths below are relative to `src/`, and `network.go`, `plugin.go`,
`cache.go`, `dhcp_manager.go` are in `pkg/plugin`, `client.go` in `pkg/udhcpc`.

    tlasany M.tla                               parse a module
    tlc -workers 2 -config X.cfg MCx.tla        check an instance
    tlapm M.tla                                 check the proofs of a module:
                                                EndpointLifecycleProofs, EndpointCleanupProofs,
                                                PendingQueueProofs, ContainerIdentityProofs,
                                                NetworkCacheProofs, DhcpManagerProofs,
                                                UdhcpcClientProofs, SubsequenceLemmas

`PROJECT.json` lists the components, the runs, a mutant of the code for each
property, the source lines behind each definition, the findings, the hazards and the
theorems.

## The system

Docker drives the plugin by HTTP requests; net/http runs each in a goroutine of
its own. The plugin keeps three things: who manages the DHCP client of which
endpoint, what it must remember across a restart, and who the next endpoint is
for, which Docker does not tell it.

| Component | State | Operations | Interacts by |
|---|---|---|---|
| Network handlers (`network.go:26-89`) | none of their own | CreateNetwork, DeleteNetwork, netOptions | NetworkList and NetworkInspect of Docker; the cache |
| Endpoint handlers (`network.go:91-745`) | `joinHints`, `persistentDHCP`, the host veths | CreateEndpoint, EndpointOperInfo, Join and the goroutine it leaves, Leave, DeleteEndpoint, Recover | the plugin's mutex, `createMu`, the kernel, managers, the cache |
| Pending queue and metadata (`plugin.go:205-327, 446-505`) | `pendingQueue`, `pendingMeta` | push, pop, upsert, prune | the plugin's mutex; filled by listener and Leave, emptied by CreateEndpoint and the scavenger |
| Event listener (`plugin.go:333-444`) | none | create, start, die, connect events | Docker's event stream, ContainerInspect |
| Cache (`cache.go`) | `networks`, the file `networks.json` | Set, SetEndpoint, SetMetadata, Delete, DeleteEndpoint, Reconcile, load, save | its own lock; Docker's NetworkList |
| dhcpManager (`dhcp_manager.go`) | last addresses, stop channel, handles, a supervisor goroutine for each family | Start, setupClient, processEvents, renew, Stop | the udhcpc client's channel, netlink |
| udhcpc client (`client.go`) | a process, its pipe, a scanner, a channel | Start, Reap, Release, GetIP | os/exec, goroutines |
| udhcpc-handler (`cmd/udhcpc-handler`) | none | one event per process | udhcpc's environment and pipe |
| Entry point, HTTP wrappers (`cmd/net-dhcp`, `endpoints.go`) | none | answer a request, end the process on a signal | net/http, one goroutine for each request |
| macgen, helpers | none | pure functions and I/O | |

What is hard, and what would make each part correct:

* **Endpoint handlers.** Join answers before its goroutine has found the namespace,
  started udhcpc and registered the manager; Leave and DeleteEndpoint may come first,
  may overlap, and may be cut off by a crash. A manager must be stopped once
  (a second `close` panics the whole plugin), a running client must stay reachable,
  a deleted endpoint must be forgotten, and failures must not leak veths.
* **Cache.** Reconcile acts on a listing taken without the lock, most
  errors of `save` are ignored, start events and goroutines arrive late. Live entries must
  not be lost, dead ones must go, the file must follow the memory.
* **Identity.** The name comes from a queue whose order need not be that of
  the requests. In the end each container must have its own MAC, and the
  cache must remember its own name.
* **dhcpManager, udhcpc.** Stop may come in a sleep, in the retry loop or while a client
  starts; pipes, channels and deadlines race. Stop must end everything, a dead client
  must be replaced, calls must return, events must arrive in order, a lease that was obtained must not be lost.

## Modules

| Module | Models | Checked by |
|---|---|---|
| `EndpointLifecycle` | endpoint handlers, Join's goroutine, Recover, entries of the cache and Reconcile for one network, crash and restart | `MCEndpointLifecycle`: 4 runs; `EndpointLifecycleProofs`, `EndpointCleanupProofs` |
| `Subsequences` | filtering a slice in place, the loop behind every operation on the queue | `SubsequenceLemmas` |
| `PendingOps` | the operations on the queue as a sequence | through its users; `SubsequenceLemmas` |
| `PendingQueue` | queue and metadata with their locks and the clock | `MCPendingQueue`; `PendingQueueProofs` |
| `TwoClassQueue` | abstract: what CreateEndpoint may expect of the queue | refined by `PendingQueue` |
| `ContainerIdentity` | listener, queue, CreateEndpoint's identification, hints, correction, Leave, cached identity | `MCContainerIdentity`: 2 runs; `ContainerIdentityProofs` |
| `NetworkCache` | all of the cache, network handlers, netOptions, EndpointOperInfo | `MCNetworkCache`; `NetworkCacheProofs` |
| `DhcpManager` | Start, setupClient, supervisors, events, Stop | `MCDhcpManager`: 2 runs; `DhcpManagerProofs` |
| `SupervisedClient` | abstract: one family of a manager, as `EndpointLifecycle` uses it | refined by `DhcpManager`, twice |
| `UdhcpcClient` | the client process and all goroutines around its pipe | `MCUdhcpcClient`: 2 runs; `UdhcpcClientProofs` |
| `EventStream` | abstract: the events as their reader may count on them | refined by `UdhcpcClient` |

How they fit together: `EndpointLifecycle` knows of a supervisor only that it runs
until its manager is stopped or the namespace is gone. That is
`SupervisedClient`, and `DhcpManager` is shown to implement it for IPv4 and IPv6, by TLC and by proof.
`DhcpManager` takes from a client that its events come in order through a one-place channel,
that the channel is closed after the process has ended and that Release returns;
`UdhcpcClient` shows this (`DeliversInOrder`, the refinement of `EventStream`; `CallReturns`,
`ProcessEnds`). `ContainerIdentity` and `PendingQueue` share the
queue operations of `PendingOps`; the former leaves the clock out and lets the
oldest entry expire at any time, which `PendingQueue!OrderedByAge` and the
refinement of `TwoClassQueue` justify.

### EndpointLifecycle

`call[h][e]` is where handler `h` for endpoint `e` stands; the steps end where the
code takes or leaves a lock or touches the kernel. CreateEndpoint: `CreateReject`,
`CreateStoreHint` (under `createMu`), `CreateLinkAdd`, `CreateSetupFails`,
`CreateDone`. Join: `JoinTakeHint` starts the goroutine, `JoinReturn` answers. The
goroutine, for Join and for resumeDHCP: `WorkerStart`, `WorkerSetup`,
`WorkerRegister`, and for Join `WorkerPersist`. Leave and DeleteEndpoint:
`DeleteUnlink`, `TakeManager` (the map lookup), `StopManager`, `Uncache`. A manager is the pair of its
endpoint and its origin, and `persistentDHCP[e]` holds the origin.

The code ignores the errors of LinkByName and LinkDel (`network.go:399, 443-446`), of most saves, and of the first
listing: `Faults` says which of them may occur. `mishaps` is a history variable, read by properties only: for each endpoint, which
of these happened to it, whether the process died in its CreateEndpoint, whether Docker gave its DeleteEndpoint up, and whether a
goroutine registered or cached it after that call. The properties name them instead of assuming them away.

`WorkerPersist` leaves out that SetEndpoint fails when the network has no entry; that is
in `NetworkCache`. `Crash` clears memory, keeps Docker's record, the veths and the
file; `Restart` loads, reconciles and starts `Recover`, which ranges over the
live map because GetAll does not copy it. A signal to the process is a `Crash`, too: Close
closes the socket and the clients of Docker, it saves and stops nothing. `Answer` is the end of a wrapper in
`endpoints.go`: a result or an error.

Docker is external. `Caller` says how it spaces its calls: `"spaced"` waits for the
background work to end, `"ordered"` only for the previous answer,
`"forced"` also sends DeleteEndpoint while Leave is running. The kinds are
separated because the code is correct in different ways under each.

### PendingQueue, TwoClassQueue

A registration takes the lock twice: `Register` pushes into the queue, `Upsert`
writes the metadata. `registering` is the name in between. `UpsertOnly` is the
connect or start event. `Kept` is the loop that filters a slice in place, as a recursive function; `Forward`, `Without` and
`Fresh` are its three uses in the code. Times are ticks; an unset time is 0, like Go's zero `time.Time`.

### ContainerIdentity

A label is the name, hostname, endpoint ID or chosen MAC of a container, and a generated MAC is the
label it was made from: macgen is injective up to the md5 prefix. CreateEndpoint goes
`Begin`, `Lookup` (proactive, with a MAC), `Pop` or `PopGivesUp`, `List`,
`Eliminate` (deep fallback), `StoreHint`, `SetupSucceeds` or `SetupFails`.
`FixHostname` is the hostname goroutine of the fallback. `Identify` and `NotIdentified` are
the ten attempts after Join, `Persist` the SetEndpoint. Leave's two lock sections, the push and the removal of the entry, are
`Leave` and `LeaveDrops`; `Persist` may come in between. An endpoint is named by its
container: a container starts again only when its previous endpoint's goroutine is done.
`ghosts` are the entries persisted after their endpoint left.

`asked` is the MAC in the request, and `recorded` the one Docker recorded of the last endpoint: the one CreateEndpoint applied,
for nobody tells Docker of a correction. A request names the MAC of a user's choice (`Static`), the recorded one, or none
(ADR-004 says Docker passes the old one at a restart); the code cannot tell the first two apart and sets `UserSpecifiedMAC` for
both (`network.go:134, 279-293`). So what the code means an endpoint to have (`IntendedMac`) is the MAC it was asked for, else the one of
the container's *hostname*. That is what the code (`network.go:297-308, 595-598`) and `docs/DETERMINISTIC-MAC-SPEC.md:11-12` say;
`README.md:177, 186` says the MAC is derived from the *name*, and `:170` that `--hostname` changes the hostname sent to the DHCP
server only. For a container with a hostname of its own (`Custom`) the README is wrong: two containers with one
hostname get one MAC, and renaming such a container leaves its MAC as it is.

### NetworkCache

Operations of the cache are operators on a record of four sets: networks with an
entry, networks with their options, endpoints, and the endpoints in the ContainerMaps. `Store` saves or (bounded) fails to.
Reconcile rewrites the ContainerMaps and saves only if something else changed (`cache.go:345, 364-367`), so that the map in the file may be
of an older listing; nothing reads it, and `Alike` says what `DiskIsCurrent` compares. `load` may find a file it cannot read or parse
(fault "load"), at the first start or a later one: the plugin goes on with an empty cache. `Undecodable` are networks of an
earlier version whose options decodeOpts refuses: Reconcile skips them (`cache.go:324-327`), CreateNetwork rejects them, and
netOptions caches empty options for them (`network.go:86`). `unseen` is a history variable: the networks whose bridge
was not compared with that of every other. A
network in `known` and not in `options` is the placeholder of SetMetadata.
Metadata is written and never read by any caller, so the model keeps only the placeholder.
CreateNetwork, netOptions and Reconcile are cut where they ask Docker. `asking` is where the
netOptions of an endpoint's request is: `OptionsGet` is the lookup; after a miss `OptionsSet` is the
inspection with the Set that follows it, whatever the cache holds by then, and `OptionsFail` an inspection
that fails. EndpointOperInfo asks in the same way for an attached endpoint, any number of times, and may overlap
its detachment.

### DhcpManager, SupervisedClient

`start` is where Start is: `OpenHandles` (awaitNetNS found the sandbox's file, or the one of the
container's PID), `LinkFound`, `StartGivesUp`. `nsPath` says which file it was, because the retry loop
looks at it again before it replaces a client: after the container is dead its PID may be given to
another process (`PidReused`), and the file is back. For each family: the supervisor's place, the number of live udhcpc processes, the
one-place channel, the consecutive collisions. `HandleLease` is renew,
with the addresses and the route of the interface; `Routed` adds that the kernel drops the
default route with the last address, before the new one comes. `ipv6` is the network option,
`origin` says whether Join or Recover made the manager, or (`"pinned"`) a Join for a container whose address Docker chose
(`r.Interface.Address`, `network.go:371-378`). Any of them may find the namespace by PID.

The kernel may refuse any of renew's calls (`dhcp_manager.go:75-78, 89-94`): `HandleLease` then leaves out any of their effects, in at most `MaxRefused`
renewals, and `refused` counts them. The code ignores these errors and sets `LastIP` whatever came of the calls (`81-85`). So one refused
call parts interface and lease, for example when a route to a gateway that is not on the link cannot be added, or the old address
not removed; and the next renewal of the same lease makes no call for the address, because LastIP has it already (`72`): they stay parted
until the server grants another lease. No document of the repository says otherwise, and the properties have it as their exception.
 The events `deconfig`,
`leasefail` and `nak` are only logged and are left out. A lease may name no router, and an IPv6 one never
does; `NoMask` is a lease for which the handler falls back on a dotted mask, so that ParseAddr refuses the
address and renew changes nothing. Secondary addresses, which the kernel makes of a second lease in the subnet of the first, are not
told apart from primary ones. When Stop has closed the
handles while renew runs, the kernel calls no longer reach the container; what they do to the
plugin's own namespace is not modelled.

### UdhcpcClient

The process, a handler that may outlive it, the pipe, the scanner, the channel, the reader,
the goroutine in `cmd.Wait` and the caller. `mode` is `"once"` (GetIP with
Reap) or `"persistent"` (the supervisor with Release). A handler may exit without a line
(`HandlerSilent`). A line the scanner cannot decode is logged and skipped (`StrayLine` writes one, `ScanLine` skips it, `client.go:138-141`). In terms of `EventStream` the stream is what the channel, the scanner's
variable and the pipe hold, in this order and without such lines, and it is cut when the read end is closed. os/exec is external: Wait
returns when the process has exited and closes the read end of StdoutPipe.

## Runs

All runs are exhaustive for their instance.

| Run | Instance | Question |
|---|---|---|
| `lifecycle` | 1 endpoint, `forced`, 1 crash; failing saves, listings and links | Types; NoDoubleStop, SingleOwner, ClientIsReachable, SparedIsForgotten, NoLeakedVeth; GhostsPruned. One endpoint is enough for these: no step relates two endpoints but Recover, Crash and the listing. |
| `lifecycle_spaced` | 2 endpoints, `spaced`, 1 crash | DeletedIsForgotten holds without exception when Docker leaves time between its calls; CallsAreAnswered: two endpoints contend for `createMu` and Recover, without symmetry because it is a liveness property. |
| `lifecycle_leak` | 1 endpoint, `ordered`, no fault | DeletedIsForgotten fails (finding). |
| `lifecycle_prune_race` | 1 endpoint, `ordered`, no fault | AttachedStaysCached fails (finding). |
| `pending_queue` | 3 containers, 2 registrars, a clock that passes the maximal age twice | UniqueNames, ForwardFirst, OrderedByAge, MetaCoversQueue; the queue implements TwoClassQueue. Three names are needed to tell a swap from a rotation. |
| `dhcp_manager` | Join, both families, 2 servers, one of which names no router; 3 events, the first 2 of which may be leases, 1 exit, 1 reused PID, 1 renewal with refused calls | ClientIsSupervised, AddressFollowsLease, AgreementLasts; StopEndsAll, ClientReplaced; SupervisedClient for both families. Three events reach the back-off, two leases change the address and change it back. |
| `dhcp_manager_dual_stack` | Join, 1 event | DualStackFollowsLease fails (finding). |
| `udhcpc_client` | 4 lines: channel, scanner and pipe are full | OnceLeavesNothing, ReapNeverSignals; CallReturns, ProcessEnds; the client implements EventStream (DeliversInOrder). |
| `udhcpc_client_lost_lease` | 1 line | BoundIsReturned fails (finding). |
| `container_identity` | 2 containers, one with a chosen MAC, one with its own hostname, 2 starts, all failures | IdentifiedMacIsIntended, CachedIsOwn. Two starts are two concurrent ones or a restart, with or without the recorded MAC. |
| `container_identity_restart` | 2 containers, one at a time, 5 starts, no failure | IdentifiedMacIsDeterministic fails (finding). |
| `network_cache` | 3 networks on one bridge, one with options that cannot be decoded, 1 endpoint, overlapping creations, skipped checks, failing listings, an unreadable file, 1 crash, 1 failed write | DiskIsCurrent, OnlyUnseenShare, AttachedIsKept, OptionsAreKept; ExistingGetsCached, GoneIsForgotten. Three networks are one too old to be compared and two that are. The requests of one endpoint already race with Reconcile, its start event and its goroutine; several endpoints are in the proof of AttachedKept. |

The managers that Recover makes, and those of a container whose address Docker chose, are left to the proofs of `DhcpManagerProofs`, which
hold for every origin: with them the liveness check of `dhcp_manager` takes longer than the run is worth.

`lifecycle` needs no deadlock exception: Reconcile always can run. In the other runs with
`CHECK_DEADLOCK FALSE` the system really ends: a manager that was stopped, a client
that was released, containers that have no starts left, networks that are
gone (IDs are fresh and finite here).

### What the failing runs show

1. **A deleted endpoint comes back** (`lifecycle_leak`, `network.go:649`). Join's goroutine
   does not look whether its endpoint was left or deleted meanwhile; it registers a manager nobody
   will stop and caches the endpoint. The openspec for leaks says both MUST be cleaned up.
   Reconcile removes the cached entry later (`GhostsPruned`); the manager stays in the map
   until the process dies, and its supervisor ends with the namespace.
2. **A live endpoint is pruned** (`lifecycle_prune_race`, `cache.go:294-362`): Reconcile's listing is
   older than the join.
3. **No IPv4 address on dual-stack networks** (`dhcp_manager_dual_stack`, `network.go:362, 370`):
   `initialIP(v6)` never reads its argument.
4. **A lease is lost** (`udhcpc_client_lost_lease`, `client.go:162`): `cmd.Wait` runs while the
   scanner still reads from StdoutPipe. os/exec documents this as incorrect use.
5. **A wrong MAC sticks** (`container_identity_restart`, `plugin.go:386-406`, `network.go:291`). Two halves. A die
   event that is handled late leaves a stale entry for the next container that restarts, although the MAC specification calls the sequential restart
   correct: it gets the first one's name and MAC until the goroutine of Join corrects it. But Docker has recorded the wrong MAC. When it names it at
   the next restart, the code takes it for the user's choice and skips the correction, which ADR-004 calls unconditional.

### What holds only with exceptions

* `SparedIsForgotten` and `NoLeakedVeth` name what must have gone wrong for the endpoint (`mishaps`). `SparedIsForgotten` excepts the late goroutine
  of finding 1, a failed write and a DeleteEndpoint that was given up; `NoLeakedVeth` a refused LinkDel, a CreateEndpoint the process died in
  (the code has no clean-up for it) and a DeleteEndpoint that was given up.
* `DeletedIsForgotten`, without exceptions, holds only when Docker waits for the plugin's background work (`lifecycle_spaced`), which nothing
  makes Docker do. That run, without failing writes, shows that nothing but the overlaps is to blame; it is not a promise.
* `ClientIsReachable` excepts a client whose endpoint has a second manager, of the other of Join's goroutine and Recover: the map
  has room for one. This happens without a crash, too: Recover, which every start of the plugin runs, meets an endpoint that has just joined.
* `IdentifiedMacIsIntended` and `CachedIsOwn` are about containers whose identification succeeded. If
  ContainerInspect fails, the name is taken for the hostname (`network.go:572-597`). The first one takes a MAC in the request for intended,
  as the code does; finding 5 shows what comes of it.
* `AddressFollowsLease` is about managers made by Join, until the first renewal with a refused call; one made by Recover does not know the
  address on the interface. For all of them `AgreementLasts` says that interface and lease, once they agree, are parted only by
  such a renewal, at any time.
* `DiskIsCurrent` is about a file whose last read or write succeeded, and not about the ContainerMaps.
* `OnlyUnseenShare`: two networks share a bridge if the check of one was skipped (NetworkList failed, or `ignore_conflicts`), could
  not decode the other's options, or overlapped the other's CreateNetwork. The last one needs no failure: CreateNetwork holds
  no lock, and Docker lists a network only when it has been answered (`network.go:43-57`).
* `ExistingGetsCached` leaves out the networks whose options cannot be decoded.
* `DeliversInOrder` ends where cmd.Wait cuts the stream, as finding 4 says.
* `ClientReplaced` stops asking once the container's namespace is gone, even if its PID comes back.

## Fairness

Safety is checked without fairness. For liveness:

* Goroutines that can run do run (weak fairness on handlers, workers, supervisors, scanner, reader):
  the Go scheduler. Nothing is assumed of Docker: no request is ever due.
* `NetworkCache` needs less: only the ticker of ReconcileLoop and the restart. Late goroutines and events may stay late
  for ever; that they are finite in number is enough for what goes away to stay away.
* ReconcileLoop ticks (weak fairness on listing and applying), the plugin is restarted by Docker, deadlines pass.
* `DhcpManager` assumes strong fairness of `StopSeen`, because Go's `select` picks among ready cases at random,
  so that a closed stop channel is not passed over for ever; and of `StartClient`, that a client that can be
  started is started in the end, without which no retry loop makes sense.
* `UdhcpcClient` assumes nothing of a udhcpc that was not killed, nor of the handler; only that a killed process dies.

Liveness is stated as `[]<>` (always again) or `<>[]` (for good): `CallsAreAnswered` and `ExistingGetsCached` must hold
again after each disturbance, `GhostsPruned` and `GoneIsForgotten` hold from some point on because
requests, crashes and late events are finite in number.

## Proofs

Each theorem holds for every value of the constants that satisfies the `ASSUME`s of its module, unless it names a
hypothesis of its own. The only safety property of a passing run that is left to model checking is `DeletedIsForgotten` of `lifecycle_spaced`; what holds of
it whatever Docker does is `SparedIsForgotten`, and that is proved. All proofs have the same shape: an
inductive invariant, one lemma for each group of actions with one case per action, and frame lemmas for the actions that do not
touch what the invariant speaks of.

### EndpointLifecycleProofs, EndpointCleanupProofs

| Theorem | States |
|---|---|
| `TypeCorrect` | `Spec => []TypeOK` |
| `OneOwner` | `Spec => []SingleOwner`: a manager is reachable from the map or from one handler, and from none once it is stopped |
| `StoppedOnce` | `Spec => []NoDoubleStop`: the stop channel is closed at most once |
| `VethsAreRemoved` | `Spec => []NoLeakedVeth` |
| `ClientsAreOwned` | `Spec => []ClientIsReachable` |
| `DeletedLeavesNothing` | `Spec => []SparedIsForgotten` |

The only assumption is `ConstantsAssumption`: every caller, every fault, any number of crashes and endpoints. `SingleOwner` is not inductive: a worker that ran twice could
register a manager again after it was stopped. `OwnershipInv` adds why it cannot:

* `HeldOnlyAtStop`: a handler holds a manager only between the lookup and Stop;
* `UnregisteredIsPrivate`: a manager whose worker has not registered it is known to nobody and not stopped;
* `CallsAwaited`: Docker waits for the handlers that run, but for a Leave it has overtaken;
* `JoinOnce`, `RecoverOnce`: each of the two goroutines of an endpoint starts at most once in a process;
* `DeadIsIdle`: nothing runs in a dead process.

The argument: `TakeManager` removes from the map what it hands to the handler under one lock, so that
two handlers never hold the same manager; `StopManager` drops it; `WorkerRegister` enters a manager nobody knew; a
crash forgets all of them.

`EndpointCleanupProofs` builds on it. `VethPlace` says for each step of the handlers whether the host veth is there, and what went
wrong if it is there too long. `Clients` adds to `ClientIsReachable` that a client runs only once its goroutine has set it up
(`ClientIsSetUp`). `ForgetInv` adds to `SparedIsForgotten` that an endpoint that has not joined yet has no manager and no
entry (`NewIsUntouched`), and that DeleteEndpoint has emptied the map once it has taken the manager (`TakenIsNone`), unless a
goroutine registered after the call: what is registered or cached from then on is the mishap "late".

### PendingQueueProofs, SubsequenceLemmas

| Theorem | States |
|---|---|
| `TypeCorrect` | `Spec => []TypeOK` |
| `NamesUnique`, `AnnouncedFirst`, `AgeOrdered` | `Spec => []UniqueNames`, `[]ForwardFirst`, `[]OrderedByAge` |
| `MetaCovers` | `Spec => []MetaCoversQueue` |
| `QueueServesInOrder` | `Spec => ServesInOrder`: the slice implements `TwoClassQueue` |

Assumed are a positive age and clock (`ClockAssumption`) and that the marker of an idle registrar is no name
(`NameAssumption`). The invariant `QueueInv` is the types, the order (`InTurn`, the three properties for a
pair of entries) and the metadata; none of them is inductive without the types, which say that no entry is younger than the clock.

The slices have any length, so that what the filter loop computes needs induction. The library's induction theorems take an
operator as their parameter, which the provers cannot instantiate; `SubsequenceLemmas` derives induction over a *set* of numbers or
sequences from `WFMin` (`SetInduction`, `SeqInduction`), and with it shows that `Kept` runs the loop to its end (`LoopRounds`,
`LoopExists`, `KeptRuns`), that filters compose (`KeptTwice`) and so commute, what they do to a prefix, a suffix and the head
(`KeptPrefix`, `KeptRest`, `KeptTail`), that they commute with a function on the elements (`KeptMapped`), and what a push is
(`PushedShape`). The refinement needs `QueueInv`: the head of the queue is the first announced container only
because of `ForwardFirst`, and the scavenger takes a prefix of both classes only because of `OrderedByAge` as well.

### ContainerIdentityProofs

| Theorem | States |
|---|---|
| `TypeCorrect` | `Spec => []TypeOK` |
| `MacIsIntended` | `Spec => []IdentifiedMacIsIntended` |
| `CacheIsOwn` | `Spec => []CachedIsOwn` |

The properties speak of the end of Join's goroutine only. `Traced(c)` follows one container from CreateEndpoint to
there: the MAC is the one of the seed in the hint, or the one the request named and the hint marks as the user's, as long as the worker has a copy of it, the late hostname goroutine
leaves the seed alone, and the entry is written by a worker that is done and removed by Leave before the next start. A step of one
container leaves `Traced` of the others alone (`OneContainer`). Nothing is assumed of the order of events, of the queue's content or of the
number of containers and starts.

### NetworkCacheProofs

| Theorem | States |
|---|---|
| `TypeCorrect`, `DiskCurrent` | `Spec => []TypeOK`, `Spec => []DiskIsCurrent` |
| `AttachedKept`, `OptionsKept` | `Spec => AttachedIsKept`, `Spec => OptionsAreKept`: what no step but an old listing or a crash takes from the cache |
| `SharedOnlyUnseen` | `Spec => []OnlyUnseenShare` |

`CacheInv` adds to the types that an entry comes before its options and endpoints, in memory and on disk, that a dead process has
no memory and no calls, that Docker keeps the network of a living endpoint, and that a listing shows it with its endpoints.
Without the last one Reconcile could drop a network and keep its endpoint. `BridgeInv` takes in the networks whose check has passed and
that Docker does not list yet (`PassedApart`). No theorem has a hypothesis of its own: overlapping creations, skipped checks
and unreadable files are all allowed.

### DhcpManagerProofs

| Theorem | States |
|---|---|
| `ManagerTypes` | `Spec => []TypeOK` |
| `NoStrayClient` | `Spec => []ClientIsSupervised` |
| `InterfaceFollows` | `Spec => []AddressFollowsLease` |
| `AgreementKept` | `Spec => AgreementLasts` |
| `ImplementsV4`, `ImplementsV6` | `Spec => SupervisedV4`, `Spec => SupervisedV6`: every step of the manager is one of `SupervisedClient`, or none |

It assumes that the lease of CreateEndpoint is one of the leases, and that no address is the nil address (`LeaseAssumption`). The inductive
invariant `ManagerInv` adds to the types:

* `NotSetUpEarly`: nothing is set up before Start has returned;
* `ForeignIsLate`: another process is only met under the PID when both set-ups are over, so that a set-up finds the container's own namespace;
* `TracksLease`: interface and lease agree also before the handles are open, which is what opening them needs.

All of it holds for the three origins and any number of refused renewals. `LeaseAgrees` is the heart of `InterfaceFollows`: renew, one case for the leased family and one for the other; `PromisedStep` says once
what both refinements need.

### UdhcpcClientProofs

| Theorem | States |
|---|---|
| `TypeCorrect` | `Spec => []TypeOK` |
| `ReapLetsFinish` | `Spec => []ReapNeverSignals` |
| `NothingLeft` | `Spec => []OnceLeavesNothing` |
| `EventsInOrder` | `Spec => DeliversInOrder`: every step implements `EventStream`, or none |

`ClientInv` adds to the types where caller, waiter and reader may be relative to each other (`Progress`): cmd.Wait alone closes the
pipe, GetIP's reader ends after the scanner, GetIP returns after its reader and signals only after its deadline.
The lines that are no events are filtered out of the stream with `Kept`, so that its lemmas are those of `SubsequenceLemmas`.

### Only model-checked

The liveness properties (`CallsAreAnswered`, `GhostsPruned`, `StopEndsAll`, `ClientReplaced`, `CallReturns`, `ProcessEnds`,
`ExistingGetsCached`, `GoneIsForgotten`): fairness and ENABLED are out of the prover's reach. `DeletedIsForgotten` when Docker spaces its calls (`lifecycle_spaced`). The five properties of
the failing runs have no proof because they do not hold.

## Not modelled

* `macgen`: a pure function; names stand for the MACs made from them.
* What Docker lists: the listings show containers and networks as the code expects them, late but not wrong. A networks.json of which
  json.Unmarshal fills a part before it fails is taken for an empty one.
* The ARP and DAD probes of `udhcpc-handler` and its GARP: frames on the wire. `net.ListenPacket` knows no network "arp", so that
  today the probe never finds a collision; the models take the event as possible.
* `addRoutes`: it reads the kernel for the answer of Join.
* HTTP decoding, JSON, logging, flags, the polling helpers; the spike of Recover in `spikes/`.
* Data races on Go maps (Recover ranging over a map others write), which are outside the memory model used here.
* The plugin's own namespace, which renew reaches when Stop deletes the handles under it.
* PruneMetadata and GetMetadata, which nothing calls, and the content of MetadataMap, which nothing reads.

Two leaks are in the models and no property forbids them: Start drops a manager without closing the handles it has opened
(`StartGivesUp` leaves `handles` as it is), and Recover skips a sandbox path it cannot see, although awaitNetNS would find the container by
PID (`RecoverEndpoint`, `OpenHandles`).

## Plan

Done first, because a mistake there takes the plugin or a container's network down: lifecycle, queue, manager, client,
identity, cache, and the abstract specifications between them; then the proofs of their safety properties. In order of
importance, what is left:

1. What the failing runs leave of their properties, stated and proved: the right guess when the listener has caught up before
   each start, `BoundIsReturned` when the scanner has read the line before udhcpc exits.
2. A composition of `ContainerIdentity` with several networks.
