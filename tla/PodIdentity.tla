---------------------------- MODULE PodIdentity ----------------------------
(***************************************************************************)
(* The identity controllers of the agent (mesh-cni-identity-controller)    *)
(* and the map from addresses to identities that they fill                 *)
(* (mesh-cni/src/bpf/ip/state.rs).                                         *)
(*                                                                         *)
(* A pod's reconcile does not await: other pods wait for it, but the       *)
(* stores it reads go on changing, and so does the Node controller, a task *)
(* of its own.  The map is pinned and outlives the agent; the cache before *)
(* it does not.  One namespace stands for all: reconciles of different     *)
(* namespaces share nothing but addresses, which its pods share too.       *)
(***************************************************************************)
EXTENDS Naturals, FiniteSets

CONSTANTS
  Pods, HostPods,         \* HostPods: those with host_network
  Nodes, LocalNode,
  PodAddresses,           \* what IPAM hands out: sets of addresses, two for dual stack
  NodeAddresses,          \* the addresses of each node
  NsLabels, PodLabels,    \* sets of labels, those of pods sanitized
  Ids, LocalId, RemoteId, \* LOCAL_NODE_ID and REMOTE_NODE_ID: 10 and 11 in the code
  Capacity,               \* 1000 in the code: events a subscriber may be behind
  MaxChanges,             \* bound: changes of the cluster
  MaxFailures,            \* bound: failing map updates, restarts and reboots
  None

Names     == NsLabels \X PodLabels
Addresses == (UNION PodAddresses) \union (UNION {NodeAddresses[n] : n \in Nodes})
NodeIds   == {LocalId, RemoteId}
Objects   == Pods \union Nodes

ASSUME HostPodsArePods == HostPods \subseteq Pods
ASSUME NodesAreNoPods == Nodes \intersect Pods = {}
ASSUME NodesHaveAddresses == NodeAddresses \in [Nodes -> SUBSET Addresses]
ASSUME PodCidr == (UNION PodAddresses) \intersect (UNION {NodeAddresses[n] : n \in Nodes}) = {}
ASSUME NodeIdsReserved == Ids \intersect NodeIds = {} /\ LocalId # RemoteId
ASSUME NoneIsNothing == None \notin Ids \union NodeIds \union NsLabels \union Objects
ASSUME BoundsAreNumbers == {Capacity, MaxChanges, MaxFailures} \subseteq Nat

PodObject == [labels : PodLabels, addrs : SUBSET Addresses, ended : BOOLEAN]

ASSUME NoneIsNoPod == None \notin PodObject

VARIABLES
  nodes,                        \* API server: its Nodes, which stay,
  pods, nsLabels, identities,   \* the pods, the namespace, the id of each identity
  podStore, nsStore, idStore,   \* stores of the controllers
  unread,                       \* events for the two subscribers nobody polls
  due,                          \* when each pod and node is reconciled next
  podRun, nodeRun,              \* reconcile in progress of either controller
  running,                      \* the controllers were started
  ipMap, ipCache,
  changes, failures

clusterVars == <<nodes, pods, nsLabels, identities, changes>>
storeVars   == <<podStore, nsStore, idStore, unread>>
mapVars     == <<ipMap, ipCache>>
vars == <<clusterVars, storeVars, due, podRun, nodeRun, running, mapVars, failures>>

Idle == [object |-> None, name |-> None, id |-> None, todo |-> {}]

Exists(p)  == pods[p] # None
Running(p) == Exists(p) /\ ~pods[p].ended
Name(p)    == <<nsLabels, pods[p].labels>>
InUse      == {Name(p) : p \in {q \in Pods : Exists(q)}}
Present(f) == {k \in DOMAIN f : f[k] # None}

(* The addresses a pod may get: its node's, or free ones of the IPAM, for  *)
(* which those of a pod that has ended are free.                           *)
AddressSets(p) ==
  IF p \in HostPods THEN {NodeAddresses[n] : n \in nodes}
  ELSE {s \in PodAddresses : \A q \in Pods : Running(q) => pods[q].addrs \intersect s = {}}

-----------------------------------------------------------------------------
(***************************************************************************)
(* start_identity_controllers: the stores are filled from the API server,  *)
(* and every object in them is due.  If one is not ready within 30 seconds *)
(* the task ends, and its error is lost with it (ip/mod.rs:30).            *)
(***************************************************************************)
FirstUnread == [ids |-> Cardinality(Present(identities)),
                namespaces |-> IF nsLabels = None THEN 0 ELSE 1]

FirstDue(up) == [o \in Objects |-> IF up /\ o \in nodes \union Present(pods) THEN "soon" ELSE "no"]

EmptyMap == [a \in Addresses |-> None]

(* The agent starts in a cluster that is at work.                          *)
Init ==
  /\ nodes \in SUBSET Nodes
  /\ pods \in [Pods -> {None} \union [labels : PodLabels, addrs : {{}} \union PodAddresses, ended : {FALSE}]]
  /\ \A p, q \in Pods : p # q /\ Exists(p) /\ Exists(q) => pods[p].addrs \intersect pods[q].addrs = {}
  /\ \A p \in HostPods : Exists(p) => pods[p].addrs = {}
  /\ nsLabels \in NsLabels \union {None}
  /\ nsLabels = None => Present(pods) = {}
  /\ identities = [n \in Names |-> None]
  /\ podStore = pods /\ nsStore = nsLabels /\ idStore = identities
  /\ unread = FirstUnread
  /\ running \in BOOLEAN
  /\ due = FirstDue(running)
  /\ podRun = Idle /\ nodeRun = Idle
  /\ ipMap = EmptyMap /\ ipCache = EmptyMap
  /\ changes = 0
  /\ failures = 0

-----------------------------------------------------------------------------
(* The cluster (external): pods come, get addresses, end and go.           *)
Change ==
  /\ changes < MaxChanges
  /\ changes' = changes + 1
  /\ UNCHANGED <<storeVars, due, podRun, nodeRun, running, mapVars, failures>>

SetPod(p, o) == pods' = [pods EXCEPT ![p] = o] /\ UNCHANGED <<nodes, nsLabels, identities>>

CreatePod(p) ==
  /\ Change /\ ~Exists(p) /\ nsLabels # None
  /\ \E l \in PodLabels : SetPod(p, [labels |-> l, addrs |-> {}, ended |-> FALSE])

AssignAddresses(p) ==
  /\ Change /\ Running(p) /\ pods[p].addrs = {}
  /\ \E s \in AddressSets(p) : SetPod(p, [pods[p] EXCEPT !.addrs = s])

RelabelPod(p) ==
  /\ Change /\ Exists(p)
  /\ \E l \in PodLabels \ {pods[p].labels} : SetPod(p, [pods[p] EXCEPT !.labels = l])

EndPod(p) == Change /\ Running(p) /\ SetPod(p, [pods[p] EXCEPT !.ended = TRUE])

DeletePod(p) == Change /\ Exists(p) /\ SetPod(p, None)

RelabelNamespace ==  \* or create it
  /\ Change
  /\ nsLabels' \in NsLabels \ {nsLabels}
  /\ UNCHANGED <<nodes, pods, identities>>

ChangePod(p) ==
  CreatePod(p) \/ AssignAddresses(p) \/ RelabelPod(p) \/ EndPod(p) \/ DeletePod(p)

(* The identity generation (module IdentityGen), as far as it matters      *)
(* here: in the end there is an identity for exactly the labels in use.    *)
SetIdentity(n, id) ==
  /\ identities' = [identities EXCEPT ![n] = id]
  /\ UNCHANGED <<nodes, pods, nsLabels, changes, storeVars, due, podRun, nodeRun, running, mapVars, failures>>

Generate(n) ==
  /\ n \in InUse /\ identities[n] = None
  /\ \E id \in Ids \ {identities[m] : m \in Names} : SetIdentity(n, id)

Collect(n) == n \notin InUse /\ identities[n] # None /\ SetIdentity(n, None)

-----------------------------------------------------------------------------
(* The reflectors (kube, external).  Nobody polls the subscribers of the   *)
(* identities and of the namespaces (runtime.rs:46, 48): when a channel is *)
(* full, the next event is stored and then waits for ever.                 *)
Stuck(store) == unread[store] > Capacity

SyncPod(p) ==
  /\ running /\ podStore[p] # pods[p]
  /\ podStore' = [podStore EXCEPT ![p] = pods[p]]
  /\ due' = IF Exists(p) THEN [due EXCEPT ![p] = "soon"] ELSE due
  /\ UNCHANGED <<clusterVars, nsStore, idStore, unread, podRun, nodeRun, running, mapVars, failures>>

SyncNamespace ==
  /\ running /\ nsStore # nsLabels /\ ~Stuck("namespaces")
  /\ nsStore' = nsLabels
  /\ unread' = [unread EXCEPT !.namespaces = @ + 1]
  /\ UNCHANGED <<clusterVars, podStore, idStore, due, podRun, nodeRun, running, mapVars, failures>>

SyncIdentity(n) ==
  /\ running /\ idStore[n] # identities[n] /\ ~Stuck("ids")
  /\ idStore' = [idStore EXCEPT ![n] = identities[n]]
  /\ unread' = IF identities[n] = None THEN unread ELSE [unread EXCEPT !.ids = @ + 1]
  /\ UNCHANGED <<clusterVars, podStore, nsStore, due, podRun, nodeRun, running, mapVars, failures>>

(* A requeue comes due: after 300 seconds, or after 5 in error_policy.     *)
Timer(o) ==
  /\ due[o] = "later"
  /\ due' = [due EXCEPT ![o] = "soon"]
  /\ UNCHANGED <<clusterVars, storeVars, podRun, nodeRun, running, mapVars, failures>>

Requeue(o) == due' = [due EXCEPT ![o] = IF @ = "soon" THEN @ ELSE "later"]

-----------------------------------------------------------------------------
(* IpBpfStateV4 and V6: update of one address.  What the cache has is not  *)
(* written again.                                                          *)
UpdateKeepsOldEntry(a, id) ==  \* Faulty: an entry of the cache is not replaced.
  IF ipCache[a] = id THEN UNCHANGED mapVars
  ELSE ipMap' = [ipMap EXCEPT ![a] = id] /\ ipCache' = [ipCache EXCEPT ![a] = IF @ = None THEN id ELSE @]

Update(a, id) ==
  IF ipCache[a] = id THEN UNCHANGED mapVars
  ELSE ipMap' = [ipMap EXCEPT ![a] = id] /\ ipCache' = [ipCache EXCEPT ![a] = id]

MapCallFails ==
  /\ failures < MaxFailures
  /\ failures' = failures + 1
  /\ UNCHANGED mapVars

-----------------------------------------------------------------------------
(* Pod: reconcile.  A pod that the store no longer has is dropped, one     *)
(* whose namespace is not in the store fails, one of the host network      *)
(* waits for a change.  Any other                                          *)
Begin(p) ==
  podRun' = [Idle EXCEPT !.object = p, !.name = <<nsStore, podStore[p].labels>>,
                         !.todo = podStore[p].addrs]

(* Faulty: pods of the host network are not skipped.                       *)
StartHostPodToo(p) ==
  /\ due[p] = "soon" /\ podRun = Idle
  /\ due' = [due EXCEPT ![p] = IF podStore[p] # None /\ nsStore = None THEN "later" ELSE "no"]
  /\ IF podStore[p] = None \/ nsStore = None THEN UNCHANGED podRun ELSE Begin(p)
  /\ UNCHANGED <<clusterVars, storeVars, nodeRun, running, mapVars, failures>>

StartPod(p) ==
  /\ due[p] = "soon" /\ podRun = Idle
  /\ due' = [due EXCEPT ![p] = IF podStore[p] # None /\ nsStore = None THEN "later" ELSE "no"]
  /\ IF podStore[p] = None \/ nsStore = None \/ p \in HostPods THEN UNCHANGED podRun ELSE Begin(p)
  /\ UNCHANGED <<clusterVars, storeVars, nodeRun, running, mapVars, failures>>

EndPodRun == Requeue(podRun.object) /\ podRun' = Idle

(* looks for the identity of its labels, without which it fails, ...       *)
MatchAnyIdentity ==  \* Faulty: the labels are not compared.
  /\ podRun # Idle /\ podRun.id = None
  /\ IF Present(idStore) = {} THEN EndPodRun
     ELSE (\E n \in Present(idStore) : podRun' = [podRun EXCEPT !.id = idStore[n]]) /\ UNCHANGED due
  /\ UNCHANGED <<clusterVars, storeVars, nodeRun, running, mapVars, failures>>

MatchIdentityOrGiveUp ==  \* Faulty: a pod without an identity waits for a change.
  /\ podRun # Idle /\ podRun.id = None
  /\ IF idStore[podRun.name] = None THEN podRun' = Idle /\ UNCHANGED due
     ELSE podRun' = [podRun EXCEPT !.id = idStore[podRun.name]] /\ UNCHANGED due
  /\ UNCHANGED <<clusterVars, storeVars, nodeRun, running, mapVars, failures>>

MatchIdentity ==
  /\ podRun # Idle /\ podRun.id = None
  /\ IF idStore[podRun.name] = None THEN EndPodRun
     ELSE podRun' = [podRun EXCEPT !.id = idStore[podRun.name]] /\ UNCHANGED due
  /\ UNCHANGED <<clusterVars, storeVars, nodeRun, running, mapVars, failures>>

(* ... and writes its id for one address after the other.                  *)
WritePodAddress ==
  /\ podRun.id # None
  /\ \E a \in podRun.todo : Update(a, podRun.id) /\ podRun' = [podRun EXCEPT !.todo = @ \ {a}]
  /\ UNCHANGED <<clusterVars, storeVars, due, nodeRun, running, failures>>

PodUpdateFails ==
  /\ podRun.id # None /\ \E a \in podRun.todo : ipCache[a] # podRun.id
  /\ MapCallFails /\ EndPodRun
  /\ UNCHANGED <<clusterVars, storeVars, nodeRun, running>>

FinishPod ==
  /\ podRun.id # None /\ podRun.todo = {}
  /\ EndPodRun
  /\ UNCHANGED <<clusterVars, storeVars, nodeRun, running, mapVars, failures>>

(* Node: reconcile.                                                        *)
NodeId(n) == IF n = LocalNode THEN LocalId ELSE RemoteId

StartNode(n) ==
  /\ due[n] = "soon" /\ nodeRun = Idle
  /\ due' = [due EXCEPT ![n] = "no"]
  /\ nodeRun' = [Idle EXCEPT !.object = n, !.id = NodeId(n), !.todo = NodeAddresses[n]]
  /\ UNCHANGED <<clusterVars, storeVars, podRun, running, mapVars, failures>>

EndNodeRun == Requeue(nodeRun.object) /\ nodeRun' = Idle

WriteNodeAddress ==
  /\ \E a \in nodeRun.todo : Update(a, nodeRun.id) /\ nodeRun' = [nodeRun EXCEPT !.todo = @ \ {a}]
  /\ UNCHANGED <<clusterVars, storeVars, due, podRun, running, failures>>

NodeUpdateFails ==
  /\ \E a \in nodeRun.todo : ipCache[a] # nodeRun.id
  /\ MapCallFails /\ EndNodeRun
  /\ UNCHANGED <<clusterVars, storeVars, podRun, running>>

FinishNode ==
  /\ nodeRun # Idle /\ nodeRun.todo = {}
  /\ EndNodeRun
  /\ UNCHANGED <<clusterVars, storeVars, podRun, running, mapVars, failures>>

-----------------------------------------------------------------------------
(* The agent restarts: the pinned map is all that stays, and a reboot of   *)
(* the node takes that too.                                                *)
Restart ==
  /\ failures < MaxFailures
  /\ failures' = failures + 1
  /\ ipMap' = ipMap \/ ipMap' = EmptyMap
  /\ podStore' = pods /\ nsStore' = nsLabels /\ idStore' = identities
  /\ unread' = FirstUnread
  /\ running' \in BOOLEAN
  /\ due' = FirstDue(running')
  /\ podRun' = Idle /\ nodeRun' = Idle
  /\ ipCache' = EmptyMap
  /\ UNCHANGED clusterVars

PodStep  == MatchIdentity \/ WritePodAddress \/ FinishPod
NodeStep == WriteNodeAddress \/ FinishNode

Sync     == (\E p \in Pods : SyncPod(p)) \/ SyncNamespace \/ (\E n \in Names : SyncIdentity(n))
Identify == \E n \in Names : Generate(n) \/ Collect(n)

Next ==
  \/ \E p \in Pods : ChangePod(p) \/ StartPod(p)
  \/ RelabelNamespace \/ Identify \/ Sync
  \/ \E o \in Objects : Timer(o)
  \/ \E n \in Nodes : StartNode(n)
  \/ PodStep \/ PodUpdateFails \/ NodeStep \/ NodeUpdateFails
  \/ Restart

Spec == Init /\ [][Next]_vars

(* Watches catch up, timers fire, tasks are polled, the identities are     *)
(* generated; and the queue of a controller forgets no object for others.  *)
(* A pod of the host network may be forgotten: nothing depends on it.      *)
Fairness ==
  /\ WF_vars(SyncNamespace) /\ \A p \in Pods \ HostPods : WF_vars(SyncPod(p)) /\ SF_vars(StartPod(p))
  /\ \A n \in Names : WF_vars(Generate(n)) /\ WF_vars(Collect(n)) /\ WF_vars(SyncIdentity(n))
  /\ \A n \in Nodes : SF_vars(StartNode(n))
  /\ \A o \in Objects \ HostPods : WF_vars(Timer(o))
  /\ WF_vars(PodStep) /\ WF_vars(NodeStep)

FairSpec == Spec /\ Fairness

-----------------------------------------------------------------------------
RunType ==
  [object : Objects \union {None}, name : Names \union {None},
   id : Ids \union NodeIds \union {None}, todo : SUBSET Addresses]

TypeOK ==
  /\ nodes \subseteq Nodes
  /\ pods \in [Pods -> PodObject \union {None}] /\ podStore \in [Pods -> PodObject \union {None}]
  /\ nsLabels \in NsLabels \union {None} /\ nsStore \in NsLabels \union {None}
  /\ identities \in [Names -> Ids \union {None}] /\ idStore \in [Names -> Ids \union {None}]
  /\ unread \in [ids : Nat, namespaces : 0 .. Capacity + 1]
  /\ due \in [Objects -> {"no", "soon", "later"}]
  /\ podRun \in RunType /\ nodeRun \in RunType
  /\ running \in BOOLEAN
  /\ ipMap \in [Addresses -> Ids \union NodeIds \union {None}]
  /\ ipCache \in [Addresses -> Ids \union NodeIds \union {None}]
  /\ changes \in 0 .. MaxChanges /\ failures \in 0 .. MaxFailures

(***************************************************************************)
(* What the cache has is in the map (state.rs:155-169), whatever calls     *)
(* fail: an update that is skipped because of the cache loses nothing.     *)
(***************************************************************************)
CacheInMap == \A a \in Addresses : ipCache[a] # None => ipMap[a] = ipCache[a]

(***************************************************************************)
(* The address of a node is the node's in the map, although pods of the    *)
(* host network have it too and have identities (pod.rs:28-34).            *)
(***************************************************************************)
NodeAddressesAreNodes ==
  \A n \in Nodes : \A a \in NodeAddresses[n] : ipMap[a] \in NodeIds \union {None}

(***************************************************************************)
(* Once the controllers know a pod as it is, the map has the right         *)
(* identity at an address of it, and no other pod object claims that       *)
(* address, it stays there until the cluster changes: no requeue, no       *)
(* reconcile that is under way, no failure and no restart of the agent     *)
(* undoes it.                                                              *)
(***************************************************************************)
Claims(f, p, a) == p \notin HostPods /\ f[p] # None /\ a \in f[p].addrs

Settled(p, a) ==
  /\ Claims(pods, p, a) /\ Claims(podStore, p, a)
  /\ podStore[p].labels = pods[p].labels
  /\ nsStore = nsLabels /\ idStore[Name(p)] = identities[Name(p)]
  /\ \A q \in Pods \ {p} : ~Claims(pods, q, a) /\ ~Claims(podStore, q, a)
  /\ a \in podRun.todo => podRun.name = Name(p) /\ podRun.id \in {None, identities[Name(p)]}
  /\ identities[Name(p)] # None /\ ipMap[a] = identities[Name(p)]

SettledStays ==
  [][\A p \in Pods, a \in UNION PodAddresses :
       Settled(p, a) => \/ Settled(p, a)'
                        \/ clusterVars' # clusterVars
                        \/ ipMap' = EmptyMap]_vars

(***************************************************************************)
(* When the cluster no longer changes, the map has the identity of every   *)
(* running pod at its addresses, and that of every node -- unless the      *)
(* controllers never started or a store got stuck, and but for addresses   *)
(* that the object of a pod that has ended claims as well: the two write   *)
(* them in turn, every 300 seconds.                                        *)
(***************************************************************************)
Contested(p, a) == \E q \in Pods \ {p} : Claims(pods, q, a)

AllIdentified ==
  /\ \A p \in Pods : Running(p) =>
       \A a \in pods[p].addrs :
         Claims(pods, p, a) => Contested(p, a) \/ (ipMap[a] = identities[Name(p)] /\ ipMap[a] # None)
  /\ \A n \in nodes : \A a \in NodeAddresses[n] : ipMap[a] = NodeId(n)

OutOfOrder == ~running \/ Stuck("ids") \/ Stuck("namespaces")

EventuallyIdentified == <>[]OutOfOrder \/ <>[]AllIdentified
=============================================================================
