# Verification of mesh-cni

TLA+ specifications of mesh-cni, TLC runs that check them on small instances,
and proofs of the central theorems for TLAPS. Line numbers are those of the
commit this directory stands beside; `PROJECT.json` maps every definition to
the lines it models.

## 1. The system

mesh-cni is a Kubernetes network plugin. Each node runs an **agent**
(`mesh-cni agent`) that loads eBPF programs, answers the CNI plugin over a Unix
socket and keeps the pinned BPF maps in step with the Kubernetes API. The
control plane runs a **controller** (`mesh-cni controller`), which generates
identities. The **data plane** is two kinds of eBPF program: one on
`connect(2)`, which replaces a ClusterIP by an endpoint, and a tc program on
every pod's veth, which tracks connections.

    API server --watch--> reflector stores --> controllers --> BPF state --> pinned maps
         ^                                                        |              ^
         +--- identities: identity-gen controller            caches, ids      connect4, tc
    container runtime --> cni plugin --socket--> agent: pins and unpins links
    agent: cleanup task --walks and removes--> conntrack map <--writes-- tc programs

### Components

| component | state | operations | what is hard | what makes it correct |
|---|---|---|---|---|
| service tables (`bpf/service/state.rs`) | per family a service map and an endpoint map, a cache of each, an id counter | `update`, `remove`, `state_from_map` | many system calls per call, failures between them, ids that wrap, caches lost on restart, readers with no lock | the cache says what is in the map; no two services share an id; a call does what its caller thinks |
| connect4 (`service-ebpf`) | none between connections | service lookup, endpoint lookup, reads of the endpoint | the table changes between them; the endpoint is not copied, and its element reused | a connection is sent to an endpoint of its service |
| service controllers (`service-bpf-controller`) | four stores, two work queues | reconcile, requeue | stores lag behind each other and behind the object; two controllers, one table; an error abandons the other keys | lists never go back; keys end up current |
| endpoint lists (`crds/meshendpoint.rs`) | none | pure functions | ports, protocols, families, readiness | every ready backend of the port, once for each route to it |
| connection tracking (`policy-ebpf`, `bpf/conntrack.rs`) | one LRU map | packet, cleanup pass | CPUs interleave; the kernel evicts; a pass reads and removes at different times | one entry per TCP connection, fresh; silent entries go, live ones stay |
| loader (`bpf/loader.rs`) | files of bpffs | init, reset | crashes between pins; pins outlive agents | an agent that serves has all pins, of one load |
| CNI service (`http/grpc/cni.rs`) | pinned links of pods | ADD, DEL | crash in the middle, ADD again without DEL, clean-up after a failure | a pod that was added stays attached |
| CNI plugin (`mesh-cni-plugin`) | none | ADD, DEL; the others panic | several interfaces, an agent that is down or crashes, error replies with exit code 0 | an answer of success is true, and there is always an answer |
| identity generation (`identity-gen-controller`) | three stores | reconcile a namespace | store lags behind own patches; namespaces run concurrently; a subscriber nobody polls | ids stay; the identities are those of the pods |
| identity controller and ip map (`identity-controller`, `bpf/ip/state.rs`) | stores, ip maps, cache | reconcile pods and nodes | addresses are reused, identities come late, restarts | an address maps to the identity of the pod that has it |
| policy map (`bpf/policy/state.rs`) | map, cache rebuilt from it | update, delete | failing calls, restarts; nothing writes it yet | cache equals map |
| policy controller (`policy-controller/selector.rs`) | stores | selector functions, whose result reconcile drops | absent, empty and unreadable selectors | to ask for more selects no more, to allow more no less |
| start of the agent (`main.rs`, `agent.rs`, `cni.rs`, `node.rs`) | CNI configuration, tasks, taint, readiness | start, shutdown | files and a Node that others write, crashes, what is visible to the kubelet before what | no pod is let in before there is a configuration and programs; the agent serves or ends |
| object stores (`k8s-utils`) | kube reflectors | sync, dispatch | bounded channels | the store catches up |
| service controller (`service-controller`) | three stores | reconcile a Service | lags of the stores, a watch that is not the store; it is never started | the MeshEndpoint ends up as the Service and its slices say |
| controller binary, cluster controller | – | – | the second is never started | – |
| listings, command line, byte orders, eBPF logger | – | format what they read | – | – |

## 2. The modules

| module | models | composed with |
|---|---|---|
| `ServiceEndpoints` | the service tables and connect4, one BPF system call a step | |
| `ServiceTable` | what the tables promise: a call takes effect in one step, when it begins | |
| `ServiceRefinement` | the refinement mapping from the first to the second | `INSTANCE ServiceTable` |
| `MeshServices` | both service controllers, their stores and the cluster | `INSTANCE ServiceTable` |
| `Conntrack` | tc programs, LRU map, cleanup task, time | |
| `BpfPins` | loader, ADD and DEL, crashes and reboots | |
| `IdentityGen` | identity generation, its stores, the API server | |
| `CniPlugin` | the plugin's processes and the answers to the runtime | extends `BpfPins` |
| `PodIdentity` | identity controllers of the agent and the ip map | identity generation as its promise |
| `AgentStartup` | the agent's process, CNI configuration, taint, tasks | |
| `MeshEndpointSpec` | the endpoint lists as functions, and what they should be | |
| `MeshEndpoints` | service controller of the control plane | lists as values |
| `PolicyMap`, `PolicySelectors` | the policy map; the selector functions | |
| `ServiceEndpoints_proofs`, `CniPlugin_proofs`, ... | theorems about the module of that name and those it extends; `ServiceEndpoints_proofs` holds the refinement, `Policies_proofs` both policy modules, `MeshServices_proofs` also `MeshEndpoints` (as the instance `Publisher`) | |
| `MC*` | constants of the runs | |

### ServiceEndpoints, ServiceTable, ServiceRefinement

`serviceMap`/`endpointMap` are the pinned maps of both families,
`serviceCache`/`endpointCache` the `HashMap` beside each, `nextId` is
`State::id` and `op` the call that holds the mutex. `update` of a new key is
`BeginInsert`, `WriteEndpoint`*, `FinishInsert`; of a known key
`BeginOverwrite`, `WriteEndpoint`*, `FinishOverwrite` and, when the recorded
count is larger than the list, `DeleteEndpoint`* and `FinishTrim`. `remove` is
`BeginRemove`, `DeleteEndpoint`*, `FinishRemove`. `DeleteAbsent` is the error
of the BPF `delete` of a key that is not there, `UpdateFails` a failing map
update (a full map), `Restart` the end of the agent: its caches go, the counter
starts over, the maps stay. connect4 is `LookupService`, `LookupEndpoint` and
`Redirect`, interleaved with every step of the agent. The second lookup gives a
reference to the map's own element, whose ip and port are read later
(`service.rs:69`, `:77-78`), and the maps are preallocated (`lib.rs:17`), so
that the kernel hands out an element again as soon as its entry is deleted or
overwritten. `pending[c]` has the values that may be read from the element:
the one that was found and, once it is free, what later writes to the map may
have put there (`ElementsAfter`); ip and port may come from two of them
(`Targets`).

What the code does, the model does, also where it surprises: a key keeps the
count of its first list (`state.rs:101` writes it nowhere), so a longer list is
shown clipped; two short lists in a row make `update` fail after its effect; a
short list makes `remove` fail for good. `ServiceTable` states this promise:
one call at a time, which takes effect in one step when it begins and in no
other until it returns. `ServiceRefinement` shows that the system calls keep
it: the mapping shows, from the moment a call has the mutex until its end, the
outcome it is bound to reach, and the call and its argument are part of it, so
that a leftover which appears later cannot pass for another call. What
`state_from_map` reads is written by positions: the endpoint at place `i` is
the one with `i - 1` endpoints before it (`Nth`, `Filled`). `MeshServices`
uses the effects alone (`call <- None`): there a call is a step.

### MeshServices

`cluster` is the API server; `objectStore`, `checkStore` and `sliceStore` are
the stores, each of which takes over the cluster's state at a time of its own;
`queue` and `run` are kube's scheduler and the reconcile of each object.
A reconcile is `Start`, the `is_current` check (`CheckFails` requeues),
`Generate` and one `RemoveKey` or `UpdateKey` per key, where an error abandons the
rest and requeues. The content of an object is a version; `ListOf` gives the
endpoints of a version. A labelled Service is left to its MeshEndpoint, which
may claim the same key.

### Conntrack

A flow has two keys, one per direction. A program is `Receive`, `FindOwn`,
`FindReverse`, `Write`; the task is `StartPass`, `Visit`*, `RemoveExpired`*
and an end. The kernel's walk restarts when the key it stands at is gone
(`Rewind`), and a full map gives up some entry in `Write`. Times are kept as
ages: code and kernel only ever take differences, so the state space is finite
without bounding the history. `MaxLag` bounds how long a program or a pass is
at work.

### BpfPins

`pins` gives for each file the load its object comes from (0: no file).
`init_bpf` is one action per pin; a file in the way is an error, and an error
or a crash (`Crash`) sends the agent back to `down`. `Reboot` empties bpffs.
ADD and DEL are the pins and unpins of two links, per interface at most one
call at a time, as the runtime guarantees. Attaching can fail at any time
(`IngressFails`, `EgressFails`).

### IdentityGen

A reconcile of a namespace is `Start` (the pods in the store, the labels of
the namespace), one `Generate` per pod, one `PatchOne` per identity, `Collect`
and one `DeleteOne` per identity that is no pod's. An identity taken from the
store is patched with its uid and resource version and so conflicts when the
object has changed; a generated one overwrites what it finds, also an id that
the store did not show yet. `CallFails` is a call that fails before or after
its effect. The identity store has a subscriber that is bound to `_`
(`runtime.rs:33`), kept and never polled; kube's channel of 1000 events then
blocks the reflector for good: `Stuck`.

### CniPlugin

`proc` is the process of a container, `answer` what the runtime was told last.
ADD of a chained container asks for every host interface of the previous
result, one after the other; the first error ends it and leaves the interfaces
before it attached, which the DEL that the runtime owes must take off.
`Ask` begins a call of `BpfPins`; `Replied`, `Fails`, `Unreachable` and
`AgentCrash` are the ways it ends. That a crash may come between the agent's
work and its reply makes "it failed" weaker than "it did nothing", and the
properties are about answers of success. A container without other plugins
(unchained) can be added but not deleted: its DEL finds no previous result.

### PodIdentity

`ipMap` is the pinned map of both families, `ipCache` the cache before it.
A pod's reconcile is `StartPod`, `MatchIdentity`, `WritePodAddress`*,
`FinishPod`; it reads the stores as they are at each step. The Node controller
is a task of its own. `Generate` and `Collect` are what `IdentityGen` promises.
`due` is kube's scheduler, with the requeues after 5 and 300 seconds as one
`Timer`. Restart keeps the map and loses the cache; a start of the
controllers that fails is lost with its task (`bpf/ip/mod.rs:30`), which leaves
`running` FALSE.

### AgentStartup

`phase` is the program counter of `main` and `agent::start`, with `Fail` at
any point of it. `others` are the files of other plugins in the order of their
paths, each absent, cut short or whole; `meshConf` is the agent's own file,
which `OpenConf` empties and `WriteConf` fills. `GetNode` and `PutNode` are the
read and the replace of the Node, whose version makes a conflict of a change in
between; the startup taint goes, and with it Cilium's (`node.rs:14`). `tasks` are
the two servers and the cleanup; `Signal` is SIGTERM, which has no effect before
`main` watches for it: the agent is process 1 of its container (`Dockerfile:45`).
Files and Node outlive the process.

### MeshEndpointSpec

Operators of a Service and of the sequence of slices that the store has. A loop
of the code that pushes to a list is `ForEach`: what each round pushes, flattened.
`AreRoutes` compares the result with `Routes`: a route goes from a position in
the Service's addresses and one in its ports to an address of an endpoint of a
slice, and is said without the loops of the code. The casts of port numbers to a
u16 are `U16`. `ListsAreExact` says so of `input`, a Service and a store that
stays (`InputSpec`); the run enumerates them.

### MeshEndpoints

The three stores of a reconcile and the watch that makes the Service due are
four views of the cluster, each late by itself. A reconcile is `Start`, which
reads and decides, and one `Call` at most; `NothingToDelete` and `CallFails`
end it with an error and a requeue. `misled` remembers whether the last
reconcile read what was out of date.

### PolicyMap, PolicySelectors

`PolicyMap`: `update` is skipped when the cache has the value, `delete` always
asks the map, and the cache is built from the map at the start.
`PolicySelectors`: a policy and its rules as users edit them, where `Absent` is
an absent field, which is not an empty one, and a requirement with an operator
that kube does not know spoils its selector.

## 3. The runs

| run | instance | checks |
|---|---|---|
| `service_faults` | two IPv4 services, one endpoint each, one socket, three ids, failing updates and restarts | `TypeOK`, `CacheMatchesMap`, `NoForeignEndpoint`; `IdsInv`, the inductive strengthening of the last and of `DistinctIds`; `SuccessIsExact` |
| `service_reuse` | the same without failures and restarts | `NoJunkEndpoint`, which the code violates |
| `service_table` | one IPv4 and one IPv6 service, lists up to two, four ids | `ImplementsTable` (refinement), `ListsInv`, the invariant it rests on, `ErrorsAsPromised`, `WholeServiceIsRemoved` |
| `mesh_services` | a Service with two ports, a labelled Service and its MeshEndpoint on one key, two changes; or the first Service alone and three, with lists of 2, 1, 2 | `TypeOK`, `NeverBackToAnOlderList`, `EventuallyCurrent` |
| `conntrack` | one TCP flow on two CPUs; or on one, with two UDP flows, in a map for two keys | `TcpEntryIsTheClients`, `LastSeenIsRecent`, `CleanupSparesTheLiving`, `SilentFlowsGo` |
| `cni_plugin` | two maps per list, a container with two host interfaces, one without other plugins, three crashes or reboots | of the agent: `AgentServesOneLoad`, `AddedPodsStayAttached`, `PinsInv`, their inductive strengthening with the types, `AgentComesUp`; of the plugin: `AnsweredAddIsAttached`, `DeletedIsDetached`, `EveryCommandAnswered` |
| `failed_add` | the agent alone, two pods | `FailedAddLeavesNoPins`, which the code violates |
| `identity_gen` | two namespaces of two pods and one pod, two label sets of each kind, two changes, a failed call | `FirmIdsStay`, `EventuallyExact` |
| `pod_identity` | two pods that have one address one after the other; or a node, a pod of the host network and a dual-stack pod; two changes, a failure | `CacheInMap`, `NodeAddressesAreNodes`, `SettledStays`, `EventuallyIdentified` |
| `agent_start` | two conflists of others and a file that is none, three changes, two failures; or the policy map with three keys, two values, room for two, four failures; or a policy with one label of two values, four requirements, five edits | `MeshComesLastOnce`, `TaintGoesLast`, `ReadyServes`, `SignalEnds`, `AgentGetsReady`; `CacheIsMap`; `TighteningNarrows`, `AddingWidens` |
| `agent_conf` | one `.conf` file, no failure | `KeepsExistingConfig`, which the code violates |
| `mesh_endpoints` | a Service, two lists, three changes, a failing call or restart; beside it every sequence of two slices, up to two endpoints each, five addresses of two families, four port lists | `EventuallyPublished`, `SettledStays`, `ListsAreExact` |

A run with an "or" explores two instances of one module, or modules that
nothing in the code connects: its state constraint (`LongHistoryAlone`,
`TwoCpusOrEvictions`, `TwoClusters`) or its steps (`MCNext`) say which, so that
the sum of the instances is explored and not their product.

The inductive invariants of the proofs that are in the modules hold in the runs
as well: `IdsInv`, `ListsInv` and `PinsInv` are listed there; `PluginInv` and
`StartupInv`, which have the properties listed as their consequences, can be
added to `MCCniPlugin.cfg` and `MCAgent.cfg`. The type
invariants of `MeshEndpoints` and of the policy modules are in no run; they are
theorems (`PublisherTypeCorrect`, `PolicyTypeCorrect`) and a lemma. What the proofs about `IdentityGen`,
`PodIdentity` and `Conntrack` need of the types is in their inductive invariants
(`GenInv`, `IpInv`, `CtInv`).

### Bounds, and why they are enough

* **Services.** Two services are what it takes for one to be taken for the
  other; a list of two shrinks to one and to none, and grows. Three ids in
  `service_faults` let the counter reach the last id and stick there, and let
  ids be handed out again after an abandoned insert or a restart. Accidents
  are not counted: any number may happen. `service_table` stops before ids run
  out (the constraint `IdsRemain`), as the promise holds only until then, and
  with four ids a key is published, withdrawn and published again. One socket is
  enough for `NoForeignEndpoint`, as connections do not meet.
* **Cluster changes** (`MaxVersion`). An older list can overtake a newer one
  with two versions; three let a list shrink and grow again.
* **Conntrack.** Timeouts of two ticks and of one, and a lag of one make every
  order of "expired", "read", "refreshed" and "removed" possible; ages beyond
  `Old` are alike for every comparison in the code. Two CPUs write one entry
  in any order; a map with one key fewer than the flows need evicts.
* **Pins.** Two maps per list, so that a list can be pinned by half; two pods,
  so that one is added while another is deleted; three failures interrupt a
  load, the reset that follows and the load after that. `CniPlugin_proofs`
  drops all these bounds.
* **Identities.** Two pods with equal or different labels, and a relabelled
  namespace, which renames all of its identities; `Capacity` 3 lets a store
  get stuck in some executions and catch up in the others; ids are as many as
  keys, so every choice of an id that is not in use can collide with one that
  the store does not show.

* **Plugin.** Two host interfaces let an ADD fail between them; two crashes
  interrupt an ADD and the DEL that should repair it, a third the load between.
* **Addresses.** Two pods are what it takes for an address to change hands; a
  pod can be relabelled, end, and be replaced. `Capacity` is small enough for a
  store to get stuck and large enough to catch up.
* **Start.** Two conflists, so that a first file can appear before the one an
  earlier start chose; each takes two writes to be whole. Two failures let a
  start be interrupted and the next one, too. `MaxAttempts` is the code's 3.
* **Lists.** Ports with equal numbers and different protocols, equal names
  with and without a number, no names, unknown protocols; addresses that are
  in two slices, or unreadable; numbers beyond a u16; every value of the
  conditions.
* **Control plane.** Three changes let a list change and change back, and a
  Service be deleted and created again, with one call of the controller late.
* **Selectors.** The properties compare a policy with its successor, so one
  edit more than it takes to build a peer is enough; the proofs drop the bound.
* **Policy map.** Three keys and room for two fill it; four failures interrupt
  what came after the one before.

Deadlock is checked in the runs of `ServiceEndpoints`, `Conntrack`, `BpfPins`,
`CniPlugin` and `IdentityGen`. In the others a cluster that has used up its
changes, and whose objects are reconciled, really stops, and so does a policy
whose edits are used up: nothing further is owed.

### Fairness

| specification | assumed | because |
|---|---|---|
| `ServiceEndpoints` | a call that began goes on; a connection does its second lookup and its reads | no await in a call, BPF programs terminate |
| `MeshServices` | each store catches up, each reconcile goes on | kube restarts watches with backoff, tokio polls tasks, timers fire; no change of the cluster is owed |
| `Conntrack` | a program runs to its end, the task and time go on | BPF programs terminate, the task is an endless interval; no packet is owed |
| `BpfPins` | the loader goes on (in `AgentComesUp` itself) | the kubelet restarts the container; crashes are finitely many (`MaxFailures`) |
| `IdentityGen` | stores catch up, the requeue fires, reconciles go on | as for `MeshServices`; failing calls are finitely many |

| `CniPlugin` | processes go on, the agent works on a call it has | a process has no wait but for the agent, and a broken connection is an error; that there is an agent is not assumed |
| `PodIdentity` | as for `IdentityGen`; strong fairness for the start of each object's reconcile, but for pods of the host network, on which nothing depends | a controller runs one pod after the other, and kube's queue does not pass over one for ever |
| `AgentStartup` | the process goes on, the container is started again | every await of the start is answered or has a timeout of 30 seconds (`k8s-utils/lib.rs:58-61`); failures are finitely many; that another plugin writes its file is not assumed |
| `MeshEndpoints` | stores catch up, the reconcile goes on, the requeue fires, Kubernetes collects | as for `MeshServices` |

A conflict of one store with the other cannot starve a reconcile: fairness is
on each store's own step.

### What the properties leave open, because the code does

* Ids are distinct only while `IdsIntact`: no insert was abandoned half-way,
  the agent was not restarted, the counter is below its last value. After a
  restart the ids do start over above maps that persist (`state.rs:65`), and
  connections may meet another service's endpoints until the controllers have
  written the tables again. `NoForeignEndpoint` says what holds before.
* `NoForeignEndpoint` excepts a connection whose entry is deleted or overwritten
  between the lookup and the reads of ip and port: that one may be sent to
  another service's endpoint, or to the ip of one and the port of another, also
  while ids are intact (`NoJunkEndpoint`, see below).
* `EventuallyCurrent` is about objects with ready endpoints that are not being
  deleted, and shows a list as far as the key's capacity allows: an empty list
  changes nothing (`controller.rs:134`), a deletion without finalizers is never
  reconciled, and capacities do not grow.
* `FirmIdsStay` is about ids every reconcile knows of: one that the store did
  not show yet may be replaced (`controller.rs:95-118`). Nothing keeps two
  namespaces from choosing one id at the same time.
* `EventuallyExact` excepts executions in which the identity store gets stuck;
  from then on reconciles plan from the store as it was.
* `CleanupSparesTheLiving` excepts an entry refreshed between the walk and its
  removal (`conntrack.rs:46-64`).
* `SettledStays` and `EventuallyIdentified` leave out addresses that the object
  of a pod that has ended claims as well: it is reconciled every 300 seconds
  and writes its identity in turn with the pod that runs (`pod.rs:57`).
  `EventuallyIdentified` also excepts controllers that never started and stores
  that got stuck.
* No property asks that an address leaves the ip map when its pod goes. The
  controllers never delete: `delete` (`ip/state.rs:98`) has no caller, although
  the comment above the state (`ip/state.rs:24-26`) has entries left behind only
  when a deletion is missed or fails.
* `EventuallyPublished` excepts a last reconcile whose stores were not caught
  up, or which met the MeshEndpoint of an earlier Service of that name: nothing
  repeats it. The "cached copy" that saves a request (`controller.rs:103`) is
  such a store: when a list changes and changes back before the store of
  MeshEndpoints has followed, the second patch is skipped for good.
* `ListsAreExact` counts routes: an endpoint that is in two slices is listed
  twice and gets twice the connections, which Kubernetes allows for and the
  code does not remove; so would be an address that a Service lists twice. And
  its port numbers are those the code casts to u16 (`meshendpoint.rs:198`, 218,
  220): 65616 is published as 80, and -1 as 65535. The API server does not admit
  such numbers; the code does not look.
* `TaintGoesLast` has Cilium's `node.cilium.io/agent-not-ready` removed with the
  startup taint, as the code does (`node.rs:7`, `:14`), whether Cilium is ready
  or not.
* `MeshComesLastOnce` says that mesh-cni comes last and once, not that the
  plugins of the file it started from come before it; of a `.conf` they do not
  (`KeepsExistingConfig`).
* `SignalEnds` is about a signal that `main` watches for. One that comes earlier
  is dropped, and the start goes on.
* `ReadyServes` allows an agent that said it is ready before its socket
  exists (`agent.rs:81-92`); what it excludes is one that stays so.
* `AddingWidens` excepts the first peer of a rule: a rule without peers is for
  everybody.

### Findings

`service_reuse`: connect4 copies the service it looked up, "Best to copy to avoid
aliasing/junk with deletes/updates happening concurrently" (`service.rs:54-55`),
but not the endpoint (`service.rs:69`), whose ip and port it reads from the map's
element at `:77-78`. When the agent deletes that entry in between, the element
may hold an endpoint of another service by then.

`failed_add`: `add_pod` cleans up after a failed egress link only. The comment
at `cni.rs:26-27` says "we need to try to clean up on failed attach and pin
calls", but an ADD that fails at its ingress link returns at once
(`cni.rs:38-43`). When the agent died between the two pins of an earlier ADD,
the ingress pin stays, and each further ADD fails at it until a DEL.

`agent_conf`: `update_cni_conf` "updates the existing cni config to include
mesh-cni plugin" (`cni.rs:145`). A `.conf` file, taken when there is no
conflist, has no list of plugins; parsed as a conflist it has none, and the
configuration that is written has mesh-cni alone. The node's own plugin is lost.

## 4. The proofs

All theorems hold for every value of the constants, under the named ASSUMEs of
the modules, which TLC evaluates in the runs. The ASSUMEs say what kind of value
a constant is (bounds are numbers, lists are sequences), that `None` is none of
the values beside which it stands (`NoneIsNothing`, `NoneIsNoCall`,
`NoneIsNoEntry`, `AbsentIsNoValue`, ...), and what the environment guarantees:
addresses of pods and nodes differ (`PodCidr`), reserved ids are not handed out
(`NodeIdsReserved`), an interface on the host has one container (`OneOwner`),
other plugins are not called mesh-cni (`PluginsOfOthers`).

**`ServiceEndpoints_proofs`**

* `TypeCorrect`: `Spec => []TypeOK`.
* `CacheCorrect`: `Spec => []CacheMatchesMap`, inductive together with
  `TypeOK`: each step writes map and cache alike, and a restart empties the
  cache only.
* `IdsCorrect`: `Spec => []IdsInv`. Distinct ids are not inductive. A new
  service is safe because ids in use, in the maps, by connections between
  their lookups, and under entries a shorter list left behind, lie below the
  counter (`UsedIdsOnly`), because the call in progress works under its own
  service's id (`OpIsPublished`), and because an id read by a connection is
  that of its own service or of none any more (`PendingIdIsOwn`); then the
  entries under a service's id are its own (`OwnEndpointsOnly`), and so are the
  elements that connections found there, until they are freed (`TargetsOwn`).
* `IdsAreDistinct` (`DistinctIds`) and `ConnectionsStayInTheirService`
  (`NoForeignEndpoint`) follow.
* `SuccessIsAlwaysExact`: `Spec => SuccessIsExact`, with failing updates and
  restarts at any time, when services may share their ids and the promise of
  `ServiceTable` no longer holds. Its invariant is about the call in progress
  alone (`CallIsKnown`): the key it works for is in the map under its id and
  count, which it has from the cache, and the positions it is past are as it
  left them (`CallIsOnItsWay`), because nobody else writes while it lasts. What
  the next call under the same id does to that list is not claimed.
* `ListsHaveNoGaps` (`ListsInv`), `TableImplemented` (`ImplementsTable`) and
  `ErrorsAreAsPromised` (`ErrorsAsPromised`) hold for `Accidents = {}` and
  `[]IdsRemain`, that is, in every behaviour without failing map updates and
  restarts in which the counter stays below its last value; otherwise leftovers
  of an abandoned call, or the entries of another service under the same id,
  do show. Connections may interleave in any way.
  - `ListsInv` is inductive together with `IdsInv`. The endpoints of a service
    have no gap below its count, but for those the trim or removal at work has
    deleted (`NoGaps`), and a call has written or deleted exactly the positions
    it is past (`CallIsOnItsWay`); a write or a deletion reaches no other
    service, because ids are distinct (`EntriesOfCall`). Where a deletion ends,
    by count or at an absent position, what is left is what it was to keep
    (`DeletionEnds`).
  - A list without gaps is the function of its positions up to the first absent
    one (`FilledPrefix`, `GaplessPresent`, `StateIsList`), which is how
    `state_from_map` is compared with the lists of `ServiceTable` without an
    induction over sequences.
  - The refinement then has a lemma per step: a call that begins is `Publish`,
    `Replace`, `Withdraw` or `FailToWithdraw` (`PublishStep`, `ReplaceStep`,
    `WithdrawStep`), which of the last two being decided by the list it finds
    (`ShortList`); writes, deletions and the beginning of a trim stutter
    (`WriteShows`, `DeleteShows`, `TrimBeginShows`); every end is `Return`, as
    what is there is what was shown (`UpdateEnds`, `RemovalEnds`,
    `RemovalFails`).

**`CniPlugin_proofs`**

* `PinsCorrect`: `Spec => []PinsInv`. That a serving agent has pins of one load
  is not inductive, since it takes over pins it did not make: the invariant
  says what is pinned at each step of the loader (`PinnedSoFar`), that pins
  which look complete are of one load (`CompleteIsOneLoad`: the last file the
  loader pins is one `pins_exist` looks at), and that calls which unpin an
  interface are not about one that is added (`PodsOfCalls`).
* `PinsTypeCorrect`, `ServingAgentsHaveOneLoad` (`AgentServesOneLoad`) and
  `PodsStayAttached` (`AddedPodsStayAttached`) follow; they are proved of the
  agent alone, and hold of the agent below the plugin's processes by
  `PluginImplementsAgent`: a process begins no call that the specification of
  the agent does not allow a runtime, and has no other effect on the agent.
* `PluginCorrect`: `[]PluginInv`. That an answer of success is true is not
  inductive. A process has a suffix of its interfaces left and asks only for
  the first of it (`ProcessIsAtWork`); the interfaces it is past are done
  (`WorkIsDone`) and stay so, because a call for an interface is always one
  that the process of its container waits for (`CallsAwaited`) and containers
  have no interface in common (`OneOwner`).
* `AddAnswersHold` (`AnsweredAddIsAttached`) and `DelAnswersHold`
  (`DeletedIsDetached`) follow.

**`Policies_proofs`**

* `CacheAlwaysIsMap` (`CacheIsMap`), inductive together with the type
  invariant: a call writes both or none, and a start reads what is there.
* `SelectorsOnlyNarrow` and `PeersOnlyWiden` follow from lemmas about the
  operators: a selector with a requirement more matches no more labels, a peer
  with a tighter selector selects no more identities, a rule with a peer more no
  fewer. They need no finite sets of labels or requirements.

**`PodIdentity_proofs`**: `IpInv` says what a reconcile in progress may write:
one of the Pod controller addresses of the pods' network, one of the Node
controller addresses of nodes and ids of nodes; by the assumption `PodCidr` no
address is both.

* `CacheAlwaysInMap` (`CacheInMap`) and `NodesKeepTheirAddresses`
  (`NodeAddressesAreNodes`): an update writes map and cache alike, a restart
  empties the cache only.
* `RightIdentitiesStay` (`SettledStays`): a step per action keeps `Settled`. A
  reconcile that starts and has the address is the one of its only claimant,
  under the names of a store that agrees with the cluster; one that is under way
  has no id yet, or the right one; stores that catch up agree the more.

**`Conntrack_proofs`**: `CtInv`, for any number of CPUs and any time a program
takes.

* `OneEntryPerConnection` (`TcpEntryIsTheClients`): a packet of the server never
  opens an entry and, as its own key is never there, writes under the client's
  (`AnswersWriteNothing`).
* `TimesAreRecent` (`LastSeenIsRecent`): not inductive, since a program that
  found nothing leaves without writing although another wrote meanwhile; that
  entry is as old as both programs together at most (`WrittenSince`).
* `OnlySilentEntriesGo` (`CleanupSparesTheLiving`): what the pass found expired
  still is, is gone, or was written since (`ExpiredOrTouched`).

**`IdentityGen_proofs`**: `FirmIdsAreKept` (`FirmIdsStay`). An entry added while
the store has an identity is taken from it, and a patch of such an entry is a
conflict or changes nothing; entries of other reconciles are of other
namespaces. The invariant (`GenInv`) is that of the types.

**`AgentStartup_proofs`**: `StartupCorrect` (`StartupInv`). The file of a
chained agent ends with mesh-cni once and last because what is about to be
written does (`FilesInv`), which is chosen among files of others, never its own;
and the file stays whole, because only the process writes it, and empties it
only on its way to write it again. A Node of the version that was read is as it was read (`NodeInv`), so a
replace that meets no conflict undoes nothing.

* `MeshAlwaysLastOnce` (`MeshComesLastOnce`) and `TaintAlwaysLast`
  (`TaintGoesLast`) follow.

**`MeshServices_proofs`**

* `ListsNeverGoBack` (`NeverBackToAnOlderList`). Versions grow along the way
  from the table over the reconcile in progress and the store it reads to the
  cluster (`NoNewer`), where a store that lost the object, and slices that went
  with it, count as nothing: without endpoints there is no update. What is shown
  of a key with one claimant is not newer than any of these. The operations of
  `ServiceTable` are not opened.
* `TableCorrect` (`TypeOK`), which says of the table that no entry has capacity
  0 and none is empty but by a removal that failed. It is inductive with one
  fact about the reconcile in progress: it has updates left only if its list has
  endpoints (`HasEndpoints`).
* `PublishedStays` (`SettledStays` of `MeshEndpoints`): a step per action keeps
  `Settled`. With stores that have caught up `CallFor` decides on no call or on
  the object that is there; a call under way, late or failing, writes it again;
  and a MeshEndpoint that is as it should be is no orphan.

* `PublisherTypeCorrect`: the type invariant of `MeshEndpoints`, from its ASSUMEs
  (`PublisherAssumed`), which an instance does not bring along.
* `ListsCorrect`: `InputSpec => []ListsAreExact`, for any Service and any number
  and order of slices, endpoints, addresses and ports. The notion behind it is
  `Listing(s, S, v)`: the sequence `s` has one place for each member of `S`, and
  the value `v` gives to the member is at that place. `Listing` passes through
  every construct of the code: loops are flattened listings of disjoint sets
  (`FlattenListing`, `LoopListing`), a loop that skips lists a subset
  (`FilterListing`). So the addresses, the ports, the mappings and what is pushed
  are listings of sets (`ParsedListing`, `PortsListing`, `BackendIpsListing`,
  `MappingsListing`, `PushedListing`), the last of them of the routes, and
  counting a list is counting what it lists (`ListingCounts`).
  - `FlattenSeq` is defined by a function that exists by recursion on the length
    of the list. The library's induction theorems take a predicate, which the
    provers cannot instantiate; `LeastNumber` says with a set instead that a
    non-empty set of numbers has a least member (from the well-foundedness of
    `<`), and each induction is a proof that the set of counterexamples is empty.

**Only model-checked:** liveness (`WholeServiceIsRemoved`, `EventuallyCurrent`,
`SilentFlowsGo`, `AgentComesUp`, `EventuallyExact`, `EveryCommandAnswered`,
`EventuallyIdentified`, `ReadyServes`, `SignalEnds`, `AgentGetsReady`,
`EventuallyPublished`), which is out of the prover's reach. Every safety
property of the runs that pass is a theorem.

## 5. What is not modelled

* The copy of the service value (`service.rs:56`) is one step with its lookup:
  it makes the window in which the element may be reused short, and does not
  close it.
* Failures of unlinking a file on bpffs; an upgrade of the agent that changes
  its lists of maps or the layout of their values.
* LRU evictions of more than one entry at a time; conntrack entries of packets
  between addresses without identities (the program returns before the map).
* Order within a watch: a store jumps to the cluster's present state, object
  by object, as a watch may after a reconnect.
* The EndpointSlice implementation of the reconcile trait, and the cluster
  controller: nothing starts them, and the cluster controller only removes from
  a table that nothing inserts into. The controller binary starts the identity
  generation and has no state of its own.
* The policy controller's reconcile: it drops the rules that its selector
  functions return, so that there is no effect to model.
* The plugin's CHECK, STATUS, VERSION and GC, which panic, and an ADD of an
  unchained container without `CNI_NETNS`, which panics, too (`add.rs:38`).
* Copying the plugin's binary and making the log directory, which are errors of
  the start at most; the liveness probe, which the chart points at the
  readiness endpoint, is one of the crashes.
* Two identity controllers at a time during a rolling update; deletion of a
  namespace; JSON and SHA-256 of an identity's name (the labels themselves).
* Byte orders, formatting, listings, the command line, the eBPF logger.

## 6. Plan

What is left: a table weaker than `ServiceTable` that `ServiceEndpoints`
implements with accidents, too. `SuccessIsExact` is the part of it about calls
that succeed; what a reader finds after one that failed, or under an id that two
services share, would be the rest.
