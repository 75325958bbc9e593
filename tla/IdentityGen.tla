---------------------------- MODULE IdentityGen ----------------------------
(***************************************************************************)
(* Identity generation (mesh-cni-identity-gen-controller): one Identity    *)
(* object per namespace and set of labels of its pods, with a random id    *)
(* that the data plane knows the pods by.                                  *)
(*                                                                         *)
(* A namespace has one reconcile at a time.  It reads stores that lag      *)
(* behind the API server at three moments, and its patches and deletions   *)
(* are calls that may fail, before or after they took effect.  The name of *)
(* an identity is a hash of the labels: here, the labels themselves.       *)
(***************************************************************************)
EXTENDS Naturals, Sequences, FiniteSets

CONSTANTS
  Namespaces, Pods,
  NamespaceOf,         \* the namespace of each pod
  NsLabels, PodLabels, \* sets of labels, those of pods sanitized
  Ids,                 \* u32 in the code
  Capacity,            \* 1000 in the code: events a subscriber may be behind
  MaxChanges,          \* bound: changes of pods and namespaces
  MaxFailures,         \* bound: calls to the API server that fail
  None

Names == NsLabels \X PodLabels
Keys  == Namespaces \X Names

ASSUME NamespacesOfPods == NamespaceOf \in [Pods -> Namespaces]
ASSUME IdsSuffice == IsFiniteSet(Ids) /\ Cardinality(Ids) >= Cardinality(Keys)
ASSUME BoundsAreNumbers == {Capacity, MaxChanges, MaxFailures} \subseteq Nat

VARIABLES
  pods, labels,          \* API server: labels of pods (None: no pod), of namespaces
  identities,            \* API server: the id of each identity, or None
  podStore, labelStore,  \* the stores of the controller
  identityStore,
  unread,                \* events for the subscriber of the identity store
  due,                   \* when each namespace is reconciled next
  run,                   \* the reconcile in progress for a namespace
  changes, failures

clusterVars == <<pods, labels, changes>>
storeVars   == <<podStore, labelStore, identityStore, unread>>
vars == <<clusterVars, identities, storeVars, due, run, failures>>

Entry == [name : Names, id : Ids, stored : BOOLEAN]

Idle == [step |-> "idle", labels |-> None, todo |-> {}, desired |-> <<>>, patched |-> 0, doomed |-> {}]

Init ==
  /\ pods = [p \in Pods |-> None]
  /\ labels \in [Namespaces -> NsLabels]
  /\ identities = [k \in Keys |-> None]
  /\ podStore = pods
  /\ labelStore = labels
  /\ identityStore = identities
  /\ unread = 0
  /\ due = [n \in Namespaces |-> "soon"]
  /\ run = [n \in Namespaces |-> Idle]
  /\ changes = 0
  /\ failures = 0

-----------------------------------------------------------------------------
(* Users create, relabel and delete pods and relabel namespaces.           *)
Change ==
  /\ changes < MaxChanges
  /\ changes' = changes + 1
  /\ UNCHANGED <<identities, storeVars, due, run, failures>>

ChangePod(p) ==
  /\ Change
  /\ \E l \in (PodLabels \union {None}) \ {pods[p]} : pods' = [pods EXCEPT ![p] = l]
  /\ UNCHANGED labels

ChangeNamespace(n) ==
  /\ Change
  /\ \E l \in NsLabels \ {labels[n]} : labels' = [labels EXCEPT ![n] = l]
  /\ UNCHANGED pods

-----------------------------------------------------------------------------
(***************************************************************************)
(* The reflectors (kube, external).  A change, but not a disappearance, of *)
(* a pod or a namespace makes its namespace due.  The identity store has a *)
(* subscriber that is kept but never polled (runtime.rs:33): once its      *)
(* channel is full, the next event is stored and then waits for ever.      *)
(***************************************************************************)
SyncPod(p) ==
  /\ podStore[p] # pods[p]
  /\ podStore' = [podStore EXCEPT ![p] = pods[p]]
  /\ due' = IF pods[p] = None THEN due ELSE [due EXCEPT ![NamespaceOf[p]] = "soon"]
  /\ UNCHANGED <<clusterVars, identities, labelStore, identityStore, unread, run, failures>>

SyncNamespace(n) ==
  /\ labelStore[n] # labels[n]
  /\ labelStore' = [labelStore EXCEPT ![n] = labels[n]]
  /\ due' = [due EXCEPT ![n] = "soon"]
  /\ UNCHANGED <<clusterVars, identities, podStore, identityStore, unread, run, failures>>

Stuck == unread > Capacity

SyncIdentity(k) ==
  /\ ~Stuck
  /\ identityStore[k] # identities[k]
  /\ identityStore' = [identityStore EXCEPT ![k] = identities[k]]
  /\ unread' = IF identities[k] = None THEN unread ELSE unread + 1
  /\ UNCHANGED <<clusterVars, identities, podStore, labelStore, due, run, failures>>

Sync ==
  \/ \E p \in Pods : SyncPod(p)
  \/ \E n \in Namespaces : SyncNamespace(n)
  \/ \E k \in Keys : SyncIdentity(k)

(* The requeue after 300 seconds.                                          *)
Timer(n) ==
  /\ due[n] = "later"
  /\ due' = [due EXCEPT ![n] = "soon"]
  /\ UNCHANGED <<clusterVars, identities, storeVars, run, failures>>

-----------------------------------------------------------------------------
(***************************************************************************)
(* reconcile_namespace: first an identity for every pod in the store ...   *)
(***************************************************************************)
PodsOf(n) == {p \in Pods : NamespaceOf[p] = n /\ podStore[p] # None}

Start(n) ==
  /\ due[n] = "soon"
  /\ run[n] = Idle
  /\ due' = [due EXCEPT ![n] = "no"]
  /\ run' = [run EXCEPT ![n] =
       [Idle EXCEPT !.step = "ensure", !.labels = labelStore[n],
                    !.todo = {<<p, podStore[p]>> : p \in PodsOf(n)}]]
  /\ UNCHANGED <<clusterVars, identities, storeVars, failures>>

(* Faulty: a reference without the namespace finds nothing.                *)
StoredWithoutNamespace(n, name) == None

Stored(n, name) == identityStore[<<n, name>>]

(* get_or_generate_identity: the stored identity, or a new one whose id no *)
(* identity in the store has, of any namespace.                            *)
Generate(n) ==
  /\ run[n].step = "ensure"
  /\ \E pod \in run[n].todo :
       LET name == <<run[n].labels, pod[2]>>
           stored == Stored(n, name)
           used == {identityStore[k] : k \in Keys}
       IN  \E id \in IF stored # None THEN {stored} ELSE Ids \ used :
             run' = [run EXCEPT
               ![n].todo = @ \ {pod},
               ![n].desired = Append(@, [name |-> name, id |-> id, stored |-> stored # None])]
  /\ UNCHANGED <<clusterVars, identities, storeVars, due, failures>>

(* ... whose error_policy requeues a reconcile that failed after a second, *)
Abandon(n) ==
  /\ run' = [run EXCEPT ![n] = Idle]
  /\ due' = [due EXCEPT ![n] = "soon"]

NextEntry(n) == run[n].desired[run[n].patched + 1]

AtPatch(n) ==
  run[n].step = "ensure" /\ run[n].todo = {} /\ run[n].patched < Len(run[n].desired)

(* ... then a forced apply patch of each.  One that came from the store    *)
(* carries its uid and resource version: if the object is not that one any *)
(* more, the patch is a conflict.  A new one overwrites what it finds.     *)
Conflict(n) == NextEntry(n).stored /\ identities[<<n, NextEntry(n).name>>] # NextEntry(n).id

ApplyPatch(n) == identities' = [identities EXCEPT ![<<n, NextEntry(n).name>>] = NextEntry(n).id]

PatchOne(n) ==
  /\ AtPatch(n)
  /\ IF Conflict(n)
       THEN Abandon(n) /\ UNCHANGED identities
       ELSE /\ ApplyPatch(n)
            /\ run' = [run EXCEPT ![n].patched = @ + 1]
            /\ UNCHANGED due
  /\ UNCHANGED <<clusterVars, storeVars, failures>>

AtCollect(n) ==
  run[n].step = "ensure" /\ run[n].todo = {} /\ run[n].patched = Len(run[n].desired)

DesiredNames(n) == {run[n].desired[i].name : i \in DOMAIN run[n].desired}

(* Faulty: identities of earlier labels of the namespace are kept.         *)
CollectOfTheseLabels(n) ==
  /\ AtCollect(n)
  /\ run' = [run EXCEPT ![n].step = "delete",
                        ![n].doomed = {name \in Names : identityStore[<<n, name>>] # None
                                                        /\ name[1] = run[n].labels} \ DesiredNames(n)]
  /\ UNCHANGED <<clusterVars, identities, storeVars, due, failures>>

(* ... and last the deletion of the stored identities that are no pod's.   *)
Collect(n) ==
  /\ AtCollect(n)
  /\ run' = [run EXCEPT ![n].step = "delete",
                        ![n].doomed = {name \in Names : identityStore[<<n, name>>] # None} \ DesiredNames(n)]
  /\ UNCHANGED <<clusterVars, identities, storeVars, due, failures>>

(* An identity that is gone already is an error.                           *)
DeleteOne(n) ==
  /\ run[n].step = "delete"
  /\ \E name \in run[n].doomed :
       IF identities[<<n, name>>] = None
         THEN Abandon(n) /\ UNCHANGED identities
         ELSE /\ identities' = [identities EXCEPT ![<<n, name>>] = None]
              /\ run' = [run EXCEPT ![n].doomed = @ \ {name}]
              /\ UNCHANGED due
  /\ UNCHANGED <<clusterVars, storeVars, failures>>

Finish(n) ==
  /\ run[n].step = "delete" /\ run[n].doomed = {}
  /\ run' = [run EXCEPT ![n] = Idle]
  /\ due' = [due EXCEPT ![n] = IF @ = "soon" THEN @ ELSE "later"]
  /\ UNCHANGED <<clusterVars, identities, storeVars, failures>>

(* A call that fails, or whose answer is lost.                             *)
CallFails(n) ==
  /\ failures < MaxFailures
  /\ failures' = failures + 1
  /\ \/ AtPatch(n) /\ (UNCHANGED identities \/ (~Conflict(n) /\ ApplyPatch(n)))
     \/ /\ run[n].step = "delete"
        /\ \E name \in run[n].doomed :
             UNCHANGED identities \/ identities' = [identities EXCEPT ![<<n, name>>] = None]
  /\ Abandon(n)
  /\ UNCHANGED <<clusterVars, storeVars>>

Reconcile(n) ==
  Start(n) \/ Generate(n) \/ PatchOne(n) \/ Collect(n) \/ DeleteOne(n) \/ Finish(n)

Next ==
  \/ \E p \in Pods : ChangePod(p)
  \/ \E n \in Namespaces : ChangeNamespace(n) \/ Timer(n) \/ Reconcile(n) \/ CallFails(n)
  \/ Sync

Spec == Init /\ [][Next]_vars

(* Watches catch up, timers fire and tasks are polled; an API server that  *)
(* fails recovers (MaxFailures).                                           *)
Fairness ==
  /\ \A p \in Pods : WF_vars(SyncPod(p))
  /\ \A k \in Keys : WF_vars(SyncIdentity(k))
  /\ \A n \in Namespaces : WF_vars(SyncNamespace(n)) /\ WF_vars(Timer(n)) /\ WF_vars(Reconcile(n))

FairSpec == Spec /\ Fairness

-----------------------------------------------------------------------------
TypeOK ==
  /\ pods \in [Pods -> PodLabels \union {None}] /\ podStore \in [Pods -> PodLabels \union {None}]
  /\ labels \in [Namespaces -> NsLabels] /\ labelStore \in [Namespaces -> NsLabels]
  /\ identities \in [Keys -> Ids \union {None}] /\ identityStore \in [Keys -> Ids \union {None}]
  /\ unread \in 0 .. Capacity + 1
  /\ due \in [Namespaces -> {"no", "soon", "later"}]
  /\ \A n \in Namespaces :
       /\ run[n].step \in {"idle", "ensure", "delete"}
       /\ run[n].labels \in NsLabels \union {None}
       /\ run[n].todo \subseteq {p \in Pods : NamespaceOf[p] = n} \X PodLabels
       /\ run[n].desired \in Seq(Entry)
       /\ Len(run[n].desired) + Cardinality(run[n].todo) <= Cardinality(Pods)
       /\ run[n].patched \in 0 .. Len(run[n].desired)
       /\ run[n].doomed \subseteq Names
  /\ changes \in 0 .. MaxChanges
  /\ failures \in 0 .. MaxFailures

(***************************************************************************)
(* An identity keeps its id, until it is deleted, from the moment on when  *)
(* the store has it and no reconcile that missed it there has a patch left *)
(* to send (controller.rs:95-104): whatever the lag of the stores and the  *)
(* calls that fail.  Before, a reconcile may well put another id.          *)
(***************************************************************************)
Overwrites(k) ==
  LET r == run[k[1]] IN
    \E i \in r.patched + 1 .. Len(r.desired) : r.desired[i].name = k[2] /\ ~r.desired[i].stored

Firm(k) == identities[k] # None /\ identityStore[k] = identities[k] /\ ~Overwrites(k)

FirmIdsStay ==
  [][\A k \in Keys :
       Firm(k) => identities'[k] = None \/ (identities'[k] = identities[k] /\ Firm(k)')]_vars

(***************************************************************************)
(* Once pods and namespaces no longer change, there is an identity for     *)
(* exactly the label sets of the pods (controller.rs:40-66) -- or the      *)
(* identity store got stuck.                                               *)
(***************************************************************************)
Exact ==
  \A n \in Namespaces :
    {name \in Names : identities[<<n, name>>] # None} =
      {<<labels[n], pods[p]>> : p \in {q \in Pods : NamespaceOf[q] = n /\ pods[q] # None}}

EventuallyExact == <>Stuck \/ <>[]Exact
=============================================================================
