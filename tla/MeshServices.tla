---------------------------- MODULE MeshServices ----------------------------
(***************************************************************************)
(* The service controllers over the service table: how Service,            *)
(* EndpointSlice and MeshEndpoint objects of the cluster reach the table   *)
(* (mesh-cni-service-bpf-controller, started by                            *)
(* mesh-cni/src/bpf/service/mod.rs).                                       *)
(*                                                                         *)
(* The table is ServiceTable, which ServiceEndpoints implements: a call of *)
(* update or remove is one step.  A reconcile has no await in it, but it   *)
(* runs beside the reflectors that feed its stores and beside the other    *)
(* controller, so its three reads (the object, the store it is compared    *)
(* with, the endpoint slices) and its table calls are steps of their own.  *)
(*                                                                         *)
(* Every Service of the model has slices of its own; one version number    *)
(* stands for the content of an object, and ListOf gives the endpoints of  *)
(* a version.                                                              *)
(***************************************************************************)
EXTENDS Naturals, Sequences, FiniteSets

CONSTANTS
  Services, MeshEndpoints,  \* the objects each controller reconciles
  Keys,                     \* service keys: one per ClusterIP and port
  KeysOf,                   \* the keys an object may have
  ListOf,                   \* endpoints of each version: ready backends in store order
  Labelled,                 \* objects with the label mesh-cni.dev/multi-cluster=true
  MaxVersion,               \* bound: changes of the cluster
  None

Objects  == Services \union MeshEndpoints
Versions == 0 .. MaxVersion

(* What the cluster says of an object: the version of its endpoints (for a *)
(* MeshEndpoint, part of its spec), the keys its spec names, and whether   *)
(* it has a deletion timestamp.                                            *)
ObjectState == [ver : Versions, keys : SUBSET Keys, deleting : BOOLEAN]

ASSUME FinitelyManyObjects == IsFiniteSet(Objects)
ASSUME ObjectsDisjoint == Services \intersect MeshEndpoints = {}
ASSUME CountedVersions == MaxVersion \in Nat
ASSUME ListsOfEndpoints == \A v \in Versions : ListOf[v] \in Seq({ListOf[v][n] : n \in DOMAIN ListOf[v]})
ASSUME NoSlicesNoEndpoints == ListOf[0] = <<>>
ASSUME KeysOfObjects == KeysOf \in [Objects -> SUBSET Keys] /\ Labelled \subseteq Objects

VARIABLES
  version,      \* the last version written to the API server
  cluster,      \* the API server
  objectStore,  \* the store a controller takes its objects from
  checkStore,   \* service_state or mesh_endpoint_state of the Context
  sliceStore,   \* endpoint_slice_state of the Context: version last seen
  queue,        \* objects scheduled for reconciliation
  run,          \* the reconcile in progress for an object
  table,        \* the service table of the agent
  shown         \* history: the version each key was last given

storeVars == <<objectStore, checkStore, sliceStore>>
vars == <<version, cluster, storeVars, queue, run, table, shown>>

T == INSTANCE ServiceTable WITH Lists <- LAMBDA k : {ListOf[v] : v \in Versions}, call <- None

NoRun == [step |-> "none", object |-> None, ver |-> 0, removals |-> {}, updates |-> {}]

Init ==
  /\ version = 0
  /\ cluster = [o \in Objects |-> None]
  /\ objectStore = [o \in Objects |-> None]
  /\ checkStore  = [o \in Objects |-> None]
  /\ sliceStore  = [s \in Services |-> 0]
  /\ queue = {}
  /\ run = [o \in Objects |-> NoRun]
  /\ T!Init
  /\ shown = [k \in Keys |-> 0]

-----------------------------------------------------------------------------
(* Users and Kubernetes change the cluster.  A deletion leaves the object  *)
(* with a deletion timestamp while it has finalizers, then it is gone.     *)
Apply(o) ==
  /\ version < MaxVersion
  /\ cluster[o] # None => ~cluster[o].deleting
  /\ version' = version + 1
  /\ \E keys \in (SUBSET KeysOf[o]) \ {{}} :
       cluster' = [cluster EXCEPT ![o] = [ver |-> version + 1, keys |-> keys, deleting |-> FALSE]]
  /\ UNCHANGED <<storeVars, queue, run, table, shown>>

MarkDeleted(o) ==
  /\ cluster[o] # None
  /\ ~cluster[o].deleting
  /\ cluster' = [cluster EXCEPT ![o].deleting = TRUE]
  /\ UNCHANGED <<version, storeVars, queue, run, table, shown>>

Vanish(o) ==
  /\ cluster[o] # None
  /\ cluster' = [cluster EXCEPT ![o] = None]
  /\ UNCHANGED <<version, storeVars, queue, run, table, shown>>

-----------------------------------------------------------------------------
(***************************************************************************)
(* The reflectors (kube, external).  A store takes over the cluster's      *)
(* state some time after it changed; a change, but not a disappearance,    *)
(* then schedules the object, or the owner of the slice.  The Service      *)
(* controller takes its objects from the store of the Context; the         *)
(* MeshEndpoint controller has a watch of its own.                         *)
(***************************************************************************)
Scheduled(o, state) == IF state = None THEN queue ELSE queue \union {o}

SyncService(s) ==
  /\ checkStore[s] # cluster[s]
  /\ checkStore'  = [checkStore EXCEPT ![s] = cluster[s]]
  /\ objectStore' = [objectStore EXCEPT ![s] = cluster[s]]
  /\ queue' = Scheduled(s, cluster[s])
  /\ UNCHANGED <<version, cluster, sliceStore, run, table, shown>>

(* The slices of a Service go with it: version 0, without endpoints.       *)
SliceVersion(s) == IF cluster[s] = None THEN 0 ELSE cluster[s].ver

(* Faulty: a slice does not schedule the Service that owns it.             *)
SyncSlicesQuietly(s) ==
  /\ sliceStore[s] # SliceVersion(s)
  /\ sliceStore' = [sliceStore EXCEPT ![s] = SliceVersion(s)]
  /\ UNCHANGED <<version, cluster, objectStore, checkStore, queue, run, table, shown>>

SyncSlices(s) ==
  /\ sliceStore[s] # SliceVersion(s)
  /\ sliceStore' = [sliceStore EXCEPT ![s] = SliceVersion(s)]
  /\ queue' = Scheduled(s, cluster[s])
  /\ UNCHANGED <<version, cluster, objectStore, checkStore, run, table, shown>>

SyncMeshEndpoint(m) ==
  /\ objectStore[m] # cluster[m]
  /\ objectStore' = [objectStore EXCEPT ![m] = cluster[m]]
  /\ queue' = Scheduled(m, cluster[m])
  /\ UNCHANGED <<version, cluster, checkStore, sliceStore, run, table, shown>>

SyncCheckStore(m) ==
  /\ checkStore[m] # cluster[m]
  /\ checkStore' = [checkStore EXCEPT ![m] = cluster[m]]
  /\ UNCHANGED <<version, cluster, objectStore, sliceStore, queue, run, table, shown>>

Sync ==
  \/ \E s \in Services : SyncService(s) \/ SyncSlices(s)
  \/ \E m \in MeshEndpoints : SyncMeshEndpoint(m) \/ SyncCheckStore(m)

-----------------------------------------------------------------------------
(***************************************************************************)
(* reconcile.  kube runs at most one reconcile of an object at a time and  *)
(* hands it the object as its store has it now; an object that is gone is  *)
(* dropped, and a labelled one is left to the multi-cluster machinery.     *)
(***************************************************************************)
Dequeue(o) == queue' = queue \ {o}

(* Faulty: a labelled Service is reconciled like any other.               *)
StartLabelledToo(o) ==
  /\ o \in queue
  /\ run[o] = NoRun
  /\ Dequeue(o)
  /\ IF objectStore[o] = None
       THEN UNCHANGED run
       ELSE run' = [run EXCEPT ![o] = [NoRun EXCEPT !.step = "check", !.object = objectStore[o]]]
  /\ UNCHANGED <<version, cluster, storeVars, table, shown>>

Start(o) ==
  /\ o \in queue
  /\ run[o] = NoRun
  /\ Dequeue(o)
  /\ IF objectStore[o] = None \/ o \in Labelled
       THEN UNCHANGED run
       ELSE run' = [run EXCEPT ![o] = [NoRun EXCEPT !.step = "check", !.object = objectStore[o]]]
  /\ UNCHANGED <<version, cluster, storeVars, table, shown>>

(* is_current compares specs: the keys of a Service, and the endpoints of  *)
(* a MeshEndpoint too.                                                     *)
SameSpec(o, a, b) == a.keys = b.keys /\ (o \in MeshEndpoints => a.ver = b.ver)

IsCurrent(o) == checkStore[o] # None /\ SameSpec(o, checkStore[o], run[o].object)

(* An object that is not current is requeued after 200 ms.                 *)
CheckFails(o) ==
  /\ run[o].step = "check"
  /\ ~IsCurrent(o)
  /\ run' = [run EXCEPT ![o] = NoRun]
  /\ queue' = queue \union {o}
  /\ UNCHANGED <<version, cluster, storeVars, table, shown>>

CheckPasses(o) ==
  /\ run[o].step = "check"
  /\ IsCurrent(o)
  /\ run' = [run EXCEPT ![o].step = "generate"]
  /\ UNCHANGED <<version, cluster, storeVars, queue, table, shown>>

(***************************************************************************)
(* generate_service_pairs, from the slices in the store or from the        *)
(* MeshEndpoint itself.  Without ready endpoints there are no pairs and    *)
(* nothing is done; an object being deleted has its keys removed, and then *)
(* the loop that follows updates them all the same.                        *)
(***************************************************************************)
SourceVersion(o) == IF o \in Services THEN sliceStore[o] ELSE run[o].object.ver

(* Faulty: every key of the spec gets a pair, one without endpoints too.   *)
GenerateEmptyPairs(o) ==
  /\ run[o].step = "generate"
  /\ LET pairs == run[o].object.keys
     IN  run' = [run EXCEPT ![o].step = "apply",
                            ![o].ver = SourceVersion(o),
                            ![o].removals = IF run[o].object.deleting THEN pairs ELSE {},
                            ![o].updates = pairs]
  /\ UNCHANGED <<version, cluster, storeVars, queue, table, shown>>

Generate(o) ==
  /\ run[o].step = "generate"
  /\ LET ver   == SourceVersion(o)
         pairs == IF ListOf[ver] = <<>> THEN {} ELSE run[o].object.keys
     IN  run' = [run EXCEPT ![o].step = "apply",
                            ![o].ver = ver,
                            ![o].removals = IF run[o].object.deleting THEN pairs ELSE {},
                            ![o].updates = pairs]
  /\ UNCHANGED <<version, cluster, storeVars, queue, table, shown>>

(* An error ends the reconcile; error_policy requeues it after 5 minutes.  *)
Abandon(o) ==
  /\ run' = [run EXCEPT ![o] = NoRun]
  /\ queue' = queue \union {o}

RemoveKey(o, k) ==
  /\ run[o].step = "apply"
  /\ k \in run[o].removals
  /\ \/ /\ table[k] = None
        /\ UNCHANGED table
        /\ run' = [run EXCEPT ![o].removals = @ \ {k}]
        /\ UNCHANGED queue
     \/ /\ T!Withdraw(k)
        /\ run' = [run EXCEPT ![o].removals = @ \ {k}]
        /\ UNCHANGED queue
     \/ /\ T!FailToWithdraw(k)
        /\ Abandon(o)
  /\ UNCHANGED <<version, cluster, storeVars, shown>>

UpdateKey(o, k) ==
  /\ run[o].step = "apply"
  /\ run[o].removals = {}
  /\ k \in run[o].updates
  /\ LET list == ListOf[run[o].ver] IN
       /\ T!Publish(k, list) \/ T!Replace(k, list)
       /\ IF T!UpdateFails(k, list)
            THEN Abandon(o)
            ELSE /\ run' = [run EXCEPT ![o].updates = @ \ {k}]
                 /\ UNCHANGED queue
  /\ shown' = [shown EXCEPT ![k] = run[o].ver]
  /\ UNCHANGED <<version, cluster, storeVars>>

Finish(o) ==
  /\ run[o].step = "apply"
  /\ run[o].removals = {} /\ run[o].updates = {}
  /\ run' = [run EXCEPT ![o] = NoRun]
  /\ UNCHANGED <<version, cluster, storeVars, queue, table, shown>>

Reconcile(o) ==
  \/ Start(o)
  \/ CheckFails(o)
  \/ CheckPasses(o)
  \/ Generate(o)
  \/ \E k \in Keys : RemoveKey(o, k) \/ UpdateKey(o, k)
  \/ Finish(o)

ClusterChange == \E o \in Objects : Apply(o) \/ MarkDeleted(o) \/ Vanish(o)

Next == ClusterChange \/ Sync \/ \E o \in Objects : Reconcile(o)

Spec == Init /\ [][Next]_vars

(* Every task is polled for ever, the watches catch up (kube restarts them *)
(* with a backoff) and timers fire.  The cluster owes nobody a change.     *)
Fairness ==
  /\ \A s \in Services : WF_vars(SyncService(s)) /\ WF_vars(SyncSlices(s))
  /\ \A m \in MeshEndpoints : WF_vars(SyncMeshEndpoint(m)) /\ WF_vars(SyncCheckStore(m))
  /\ \A o \in Objects : WF_vars(Reconcile(o))

FairSpec == Spec /\ Fairness

-----------------------------------------------------------------------------
(* No entry without capacity, none with more endpoints than its capacity;  *)
(* only a removal that failed leaves an entry empty.                       *)
IsEntry(e) ==
  /\ DOMAIN e = {"capacity", "eps"}
  /\ e.capacity > 0
  /\ \/ e.eps = <<>>
     \/ \E v \in Versions : ListOf[v] # <<>> /\ e.eps = T!Clip(ListOf[v], e.capacity)

TypeOK ==
  /\ version \in Versions
  /\ cluster \in [Objects -> ObjectState \union {None}]
  /\ objectStore \in [Objects -> ObjectState \union {None}]
  /\ checkStore \in [Objects -> ObjectState \union {None}]
  /\ sliceStore \in [Services -> Versions]
  /\ queue \subseteq Objects
  /\ run \in [Objects -> [step : {"none", "check", "generate", "apply"},
                         object : ObjectState \union {None}, ver : Versions,
                         removals : SUBSET Keys, updates : SUBSET Keys]]
  /\ DOMAIN table = Keys /\ \A k \in Keys : table[k] = None \/ IsEntry(table[k])
  /\ shown \in [Keys -> Versions]

(* Objects that are reconciled and may have the key.                       *)
Claimants(k) == {o \in Objects \ Labelled : k \in KeysOf[o]}

(***************************************************************************)
(* A key that one object alone claims is never given an older list after a *)
(* newer one, although stores lag, reconciles are requeued and abandoned   *)
(* half-way, and a list may have been generated long before it is applied  *)
(* (controller.rs:129-143).                                                *)
(***************************************************************************)
NeverBackToAnOlderList ==
  [][\A k \in Keys : Cardinality(Claimants(k)) = 1 => shown'[k] >= shown[k]]_shown

(***************************************************************************)
(* Once an object stays as it is, with endpoints and not being deleted,    *)
(* each of its keys that no other object claims ends up showing its        *)
(* endpoints, as many as the key's capacity allows -- provided no key of   *)
(* the object has a larger capacity than that list is long (after a        *)
(* shrink, the error of one key keeps the others from being updated).      *)
(***************************************************************************)
Settled(o, k, v) ==
  /\ cluster[o] # None
  /\ ~cluster[o].deleting
  /\ cluster[o].ver = v
  /\ k \in cluster[o].keys
  /\ \A k2 \in cluster[o].keys : table[k2] = None \/ Len(ListOf[v]) >= table[k2].capacity

Shows(k, v) == table[k] # None /\ table[k].eps = T!Clip(ListOf[v], table[k].capacity)

EventuallyCurrent ==
  \A k \in Keys, v \in {w \in Versions : ListOf[w] # <<>>} :
    \A o \in Objects :
      Claimants(k) = {o} => (<>[]Settled(o, k, v) => <>[]Shows(k, v))
=============================================================================
