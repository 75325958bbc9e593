--------------------------- MODULE MeshEndpoints ---------------------------
(***************************************************************************)
(* The service controller of the control plane                             *)
(* (mesh-cni-service-controller): it publishes a MeshEndpoint for every    *)
(* Service with the annotation of a mesh service, and deletes that of any  *)
(* other.  Nothing in the repository starts it yet.                        *)
(*                                                                         *)
(* A Service has one reconcile at a time, which reads stores that lag      *)
(* behind the API server and then makes one call at most.  One Service     *)
(* stands for all.  What the lists of endpoints are is in module           *)
(* MeshEndpointSpec; here they are values.                                 *)
(***************************************************************************)
EXTENDS Naturals

CONSTANTS
  Ports, Lists,  \* what a Service and its EndpointSlices may say
  Capacity,      \* 1000 in the code: events a subscriber may be behind
  MaxChanges,    \* bound: changes of the cluster
  MaxFailures,   \* bound: failing calls and restarts
  None

ASSUME BoundsAreNumbers == {Capacity, MaxChanges, MaxFailures} \subseteq Nat

VARIABLES
  service, slices, mesh,  \* API server: the Service, its EndpointSlices, the MeshEndpoint
  serviceStore,           \* of kube's Controller, in whose stream the Service comes
  sliceStore, meshStore,  \* the two stores of the context
  watched,                \* the EndpointSlices as the Controller's own watch has them
  unread,                 \* events for the subscriber of sliceStore, which nobody polls
  due,                    \* when the Service is reconciled next
  run,                    \* the call in progress
  misled,                 \* the last reconcile read what was out of date
  changes, failures

clusterVars == <<service, slices, changes>>
storeVars   == <<serviceStore, sliceStore, meshStore, watched, unread>>
vars == <<clusterVars, mesh, storeVars, due, run, misled, failures>>

(* Every change makes a version; a Service that is created again has       *)
(* another uid.                                                            *)
Versions    == 0 .. MaxChanges
Services    == [mesh : BOOLEAN, ports : Ports, uid : Versions, version : Versions]
Slices      == [list : Lists, version : Versions]
MeshObjects == [spec : Ports \X Lists, owner : Versions]

ASSUME NoneIsNoMeshObject == None \notin MeshObjects

NoCall   == [op |-> "none", object |-> None]
Delete   == [op |-> "delete", object |-> None]
Apply(o) == [op |-> "apply", object |-> o]

(* generate_mesh_endpoint_spec, owner_references.                          *)
MeshObject(s, sl) == [spec |-> <<s.ports, sl.list>>, owner |-> s.uid]

Init ==
  /\ service \in {None} \union {s \in Services : s.uid = 0 /\ s.version = 0}
  /\ slices \in [list : Lists, version : {0}]
  /\ mesh \in {None} \union {o \in MeshObjects : o.owner = 0}
  /\ service = None => mesh = None
  /\ serviceStore = service /\ sliceStore = slices /\ meshStore = mesh /\ watched = slices
  /\ unread = 0
  /\ due = "soon"
  /\ run = NoCall
  /\ misled = FALSE
  /\ changes = 0 /\ failures = 0

-----------------------------------------------------------------------------
(* The cluster (external).  With the Service goes the MeshEndpoint that it *)
(* owns, also one that is created when the Service is gone already.        *)
Change ==
  /\ changes < MaxChanges
  /\ changes' = changes + 1
  /\ UNCHANGED <<mesh, storeVars, due, run, misled, failures>>

EditService ==
  /\ Change
  /\ \E m \in BOOLEAN, p \in Ports :
       service' = [mesh |-> m, ports |-> p, version |-> changes',
                   uid |-> IF service = None THEN changes' ELSE service.uid]
  /\ UNCHANGED slices

DeleteService == Change /\ service # None /\ service' = None /\ UNCHANGED slices

EditSlices ==
  /\ Change
  /\ \E l \in Lists : slices' = [list |-> l, version |-> changes']
  /\ UNCHANGED service

Orphan == mesh # None /\ (service # None => service.uid # mesh.owner)

CollectMesh ==
  /\ Orphan
  /\ mesh' = None
  /\ UNCHANGED <<clusterVars, storeVars, due, run, misled, failures>>

-----------------------------------------------------------------------------
(* kube's Controller: Services come by its own stream, and a watch of its  *)
(* own on the EndpointSlices makes the Service that owns them due          *)
(* (endpoint_slice_mapper).                                                *)
SyncService ==
  /\ serviceStore # service
  /\ serviceStore' = service
  /\ due' = IF service = None THEN due ELSE "soon"
  /\ UNCHANGED <<clusterVars, mesh, sliceStore, meshStore, watched, unread, run, misled, failures>>

WatchSlices ==
  /\ watched # slices
  /\ watched' = slices /\ due' = "soon"
  /\ UNCHANGED <<clusterVars, mesh, serviceStore, sliceStore, meshStore, unread, run, misled, failures>>

(* The stores that reconcile reads have watches of theirs, of which none   *)
(* makes the Service due.  _endpoint_slice_subscriber is held and never    *)
(* polled: when its channel is full, the next event is stored and then     *)
(* waits for ever.                                                         *)
Stuck == unread > Capacity

SyncSlices ==
  /\ sliceStore # slices /\ ~Stuck
  /\ sliceStore' = slices /\ unread' = unread + 1
  /\ UNCHANGED <<clusterVars, mesh, serviceStore, meshStore, watched, due, run, misled, failures>>

SyncMesh ==
  /\ meshStore # mesh
  /\ meshStore' = mesh
  /\ UNCHANGED <<clusterVars, mesh, serviceStore, sliceStore, watched, unread, due, run, misled, failures>>

-----------------------------------------------------------------------------
Caught == serviceStore = service /\ sliceStore = slices /\ meshStore = mesh

(* reconcile, up to its call.  The MeshEndpoint of a Service that is not   *)
(* annotated is deleted if the store has it; that of one that is, written  *)
(* unless the store has it as it is to be.                                 *)
IsCached(o) == meshStore # None /\ meshStore.spec = o.spec

CallForEvery(s) ==  \* Faulty: the annotation is not looked at.
  IF s = None \/ IsCached(MeshObject(s, sliceStore)) THEN NoCall ELSE Apply(MeshObject(s, sliceStore))

CallFor(s) ==
  IF s = None THEN NoCall
  ELSE IF ~s.mesh THEN IF meshStore # None THEN Delete ELSE NoCall
  ELSE IF IsCached(MeshObject(s, sliceStore)) THEN NoCall ELSE Apply(MeshObject(s, sliceStore))

Start ==
  /\ due = "soon" /\ run = NoCall
  /\ due' = "no"
  /\ run' = CallFor(serviceStore)
  /\ misled' = (~Caught \/ Orphan)
  /\ UNCHANGED <<clusterVars, mesh, storeVars, failures>>

(* The call.  What it changes another write may have changed before: a     *)
(* forced apply wins, a MeshEndpoint that is gone makes delete fail.       *)
Call ==
  /\ run # NoCall /\ (run = Delete => mesh # None)
  /\ mesh' = run.object /\ run' = NoCall
  /\ UNCHANGED <<clusterVars, storeVars, due, misled, failures>>

(* error_policy: again after 5 minutes, unless it is due before.           *)
GiveUp ==  \* Faulty: waits for a change.
  run' = NoCall /\ UNCHANGED due

Requeue ==
  /\ run' = NoCall
  /\ due' = IF due = "soon" THEN due ELSE "later"

NothingToDelete ==
  /\ run = Delete /\ mesh = None
  /\ Requeue
  /\ UNCHANGED <<clusterVars, mesh, storeVars, misled, failures>>

(* A call that fails, or whose answer is lost.                             *)
CallFails ==
  /\ run # NoCall /\ failures < MaxFailures
  /\ failures' = failures + 1
  /\ mesh' \in {mesh, run.object}
  /\ Requeue
  /\ UNCHANGED <<clusterVars, storeVars, misled>>

Timer ==
  /\ due = "later"
  /\ due' = "soon"
  /\ UNCHANGED <<clusterVars, mesh, storeVars, run, misled, failures>>

(* The controller restarts: its stores are filled, and the Service is due. *)
Restart ==
  /\ failures < MaxFailures
  /\ failures' = failures + 1
  /\ serviceStore' = service /\ sliceStore' = slices /\ meshStore' = mesh /\ watched' = slices
  /\ unread' = 0
  /\ due' = "soon" /\ run' = NoCall /\ misled' = FALSE
  /\ UNCHANGED <<clusterVars, mesh>>

Reconcile == Start \/ Call \/ NothingToDelete

Next ==
  \/ EditService \/ DeleteService \/ EditSlices \/ CollectMesh
  \/ SyncService \/ WatchSlices \/ SyncSlices \/ SyncMesh
  \/ Reconcile \/ CallFails \/ Timer \/ Restart

Spec == Init /\ [][Next]_vars

(* Watches catch up, the timer fires, tasks are polled, and Kubernetes     *)
(* collects what has no owner.                                             *)
Fairness ==
  /\ WF_vars(CollectMesh) /\ WF_vars(SyncService) /\ WF_vars(WatchSlices)
  /\ WF_vars(SyncSlices) /\ WF_vars(SyncMesh)
  /\ WF_vars(Reconcile) /\ WF_vars(Timer)

FairSpec == Spec /\ Fairness

-----------------------------------------------------------------------------
TypeOK ==
  /\ service \in Services \union {None} /\ serviceStore \in Services \union {None}
  /\ {slices, sliceStore, watched} \subseteq Slices
  /\ mesh \in MeshObjects \union {None} /\ meshStore \in MeshObjects \union {None}
  /\ unread \in 0 .. Capacity + 1
  /\ due \in {"no", "soon", "later"}
  /\ run \in [op : {"none", "delete", "apply"}, object : MeshObjects \union {None}]
  /\ run.object = None <=> run.op # "apply"
  /\ misled \in BOOLEAN
  /\ changes \in 0 .. MaxChanges /\ failures \in 0 .. MaxFailures

(* What the MeshEndpoint should be.                                        *)
Desired == IF service = None \/ ~service.mesh THEN None ELSE MeshObject(service, slices)

Published == mesh = Desired

(***************************************************************************)
(* When the cluster no longer changes, the MeshEndpoint ends up as it      *)
(* should be and stays so, whatever calls failed -- provided that the last *)
(* reconcile found its stores caught up, and no MeshEndpoint of an earlier *)
(* Service of that name.  Nothing makes the Service due when the stores    *)
(* catch up or that MeshEndpoint is collected, and a reconcile that had    *)
(* nothing to do, or whose call succeeded, is not repeated                 *)
(* (controller.rs:99, 111, 123).                                           *)
(***************************************************************************)
EventuallyPublished == <>[]misled \/ <>[]Stuck \/ <>[]Published

(***************************************************************************)
(* With stores that have caught up a MeshEndpoint that is as it should be  *)
(* is not touched again until the cluster changes: not by the call that is *)
(* under way, a late one included, nor by a restart.                       *)
(***************************************************************************)
Settled ==
  /\ Published /\ Caught
  /\ run # NoCall => run.object = Desired

SettledStays == [][Settled => Settled' \/ clusterVars' # clusterVars]_vars
=============================================================================
