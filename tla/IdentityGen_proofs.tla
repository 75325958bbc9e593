------------------------- MODULE IdentityGen_proofs -------------------------
(***************************************************************************)
(* That an identity the controller has settled on keeps its id until it is *)
(* deleted: for any number of namespaces, pods, labels and ids, of changes *)
(* and of failing calls.                                                   *)
(***************************************************************************)
EXTENDS IdentityGen, TLAPS

RunType ==
  [step : {"idle", "ensure", "delete"}, labels : NsLabels \union {None},
   todo : SUBSET (Pods \X PodLabels), desired : Seq(Entry), patched : Nat, doomed : SUBSET Names]

(* A reconcile has labels once it started.                                 *)
RunOK(r) == r \in RunType /\ (r.step = "ensure" => r.labels \in NsLabels)

GenInv ==
  /\ pods \in [Pods -> PodLabels \union {None}] /\ podStore \in [Pods -> PodLabels \union {None}]
  /\ labels \in [Namespaces -> NsLabels] /\ labelStore \in [Namespaces -> NsLabels]
  /\ identities \in [Keys -> Ids \union {None}] /\ identityStore \in [Keys -> Ids \union {None}]
  /\ run \in [Namespaces -> RunType]
  /\ \A n \in Namespaces : RunOK(run[n])

-----------------------------------------------------------------------------
LEMMA IdleIsOK == RunOK(Idle) /\ Idle.desired = <<>> /\ Idle.step = "idle" /\ Idle.patched = 0
  BY DEF RunOK, RunType, Idle

LEMMA KeysAreThose ==
  /\ \A k \in Keys : k[1] \in Namespaces /\ k[2] \in Names /\ k = <<k[1], k[2]>>
  /\ \A n \in Namespaces, name \in Names : <<n, name>> \in Keys
  BY DEF Keys

LEMMA InitGen == Init => GenInv
  BY IdleIsOK DEF Init, GenInv, RunOK

(* A step of the reconcile of one namespace.                               *)
LEMMA RunSteps ==
  ASSUME GenInv, UNCHANGED <<clusterVars, storeVars>>,
         identities' \in [Keys -> Ids \union {None}],
         NEW n \in Namespaces, NEW r, RunOK(r), run' = [run EXCEPT ![n] = r]
  PROVE  GenInv'
<1>1. UNCHANGED <<pods, labels, podStore, labelStore, identityStore>>
  BY DEF clusterVars, storeVars
<1>2. r \in RunType
  BY DEF RunOK
<1>3. run' \in [Namespaces -> RunType] /\ \A m \in Namespaces : RunOK(run'[m])
  BY <1>2 DEF GenInv
<1> QED
  BY <1>1, <1>3 DEF GenInv, RunOK

LEMMA ClusterGen ==
  ASSUME GenInv,
         (\E p \in Pods : ChangePod(p)) \/ (\E n \in Namespaces : ChangeNamespace(n) \/ Timer(n)) \/ Sync
  PROVE  GenInv'
<1>1. UNCHANGED <<run, identities>>
  BY DEF ChangePod, ChangeNamespace, Timer, Change, Sync, SyncPod, SyncNamespace, SyncIdentity
<1>2. /\ pods' \in [Pods -> PodLabels \union {None}] /\ podStore' \in [Pods -> PodLabels \union {None}]
      /\ labels' \in [Namespaces -> NsLabels] /\ labelStore' \in [Namespaces -> NsLabels]
      /\ identityStore' \in [Keys -> Ids \union {None}]
  <2>1. CASE \E p \in Pods : ChangePod(p)
    BY <2>1 DEF ChangePod, Change, GenInv, storeVars
  <2>2. CASE \E n \in Namespaces : ChangeNamespace(n)
    BY <2>2 DEF ChangeNamespace, Change, GenInv, storeVars
  <2>3. CASE \E n \in Namespaces : Timer(n)
    BY <2>3 DEF Timer, GenInv, clusterVars, storeVars
  <2>4. CASE \E p \in Pods : SyncPod(p)
    BY <2>4 DEF SyncPod, GenInv, clusterVars
  <2>5. CASE \E n \in Namespaces : SyncNamespace(n)
    BY <2>5 DEF SyncNamespace, GenInv, clusterVars
  <2>6. CASE \E k \in Keys : SyncIdentity(k)
    BY <2>6 DEF SyncIdentity, GenInv, clusterVars
  <2> QED
    BY <2>1, <2>2, <2>3, <2>4, <2>5, <2>6 DEF Sync
<1> QED
  BY <1>1, <1>2 DEF GenInv

LEMMA StartGen == ASSUME GenInv, NEW n \in Namespaces, Start(n) PROVE GenInv'
<1> DEFINE todo == {<<p, podStore[p]>> : p \in PodsOf(n)}
<1>1. todo \in SUBSET (Pods \X PodLabels)
  BY DEF PodsOf, GenInv
<1>2. labelStore[n] \in NsLabels
  BY DEF GenInv
<1>3. UNCHANGED <<clusterVars, identities, storeVars>>
  BY DEF Start
<1>4. run' = [run EXCEPT ![n] = [Idle EXCEPT !.step = "ensure", !.labels = labelStore[n], !.todo = todo]]
  BY DEF Start
<1> HIDE DEF todo
<1>5. RunOK([Idle EXCEPT !.step = "ensure", !.labels = labelStore[n], !.todo = todo])
  BY <1>1, <1>2, IdleIsOK DEF RunOK, RunType
<1> QED
  BY <1>3, <1>4, <1>5, RunSteps DEF GenInv

(* What Generate adds to the entries.                                      *)
LEMMA EntryGenerated ==
  ASSUME GenInv, NEW n \in Namespaces, Generate(n)
  PROVE  \E pod \in run[n].todo : \E e \in Entry :
           /\ run' = [run EXCEPT ![n].todo = @ \ {pod}, ![n].desired = Append(@, e)]
           /\ e.stored <=> identityStore[<<n, e.name>>] # None
<1>1. PICK pod \in run[n].todo :
        LET name == <<run[n].labels, pod[2]>>
            stored == Stored(n, name)
            used == {identityStore[k] : k \in Keys}
        IN  \E id \in IF stored # None THEN {stored} ELSE Ids \ used :
              run' = [run EXCEPT ![n].todo = @ \ {pod},
                                 ![n].desired = Append(@, [name |-> name, id |-> id, stored |-> stored # None])]
  BY DEF Generate
<1> DEFINE name == <<run[n].labels, pod[2]>>
<1>2. run[n].labels \in NsLabels /\ pod[2] \in PodLabels
  BY DEF GenInv, RunOK, RunType, Generate
<1>3. name \in Names /\ <<n, name>> \in Keys
  BY <1>2 DEF Names, Keys
<1>4. identityStore[<<n, name>>] \in Ids \union {None}
  BY <1>3 DEF GenInv
<1> HIDE DEF name
<1> DEFINE stored == identityStore[<<n, name>>]
<1>5. PICK id \in IF stored # None THEN {stored} ELSE Ids \ {identityStore[k] : k \in Keys} :
        run' = [run EXCEPT ![n].todo = @ \ {pod},
                           ![n].desired = Append(@, [name |-> name, id |-> id, stored |-> stored # None])]
  BY <1>1 DEF Stored, name
<1>6. id \in Ids
  BY <1>4, <1>5
<1> DEFINE e == [name |-> name, id |-> id, stored |-> stored # None]
<1>7. e \in Entry /\ e.name = name /\ (e.stored <=> identityStore[<<n, name>>] # None)
  BY <1>3, <1>6 DEF Entry
<1> QED
  BY <1>5, <1>7

LEMMA GenerateGen == ASSUME GenInv, NEW n \in Namespaces, Generate(n) PROVE GenInv'
<1>1. PICK pod \in run[n].todo, e \in Entry :
        run' = [run EXCEPT ![n].todo = @ \ {pod}, ![n].desired = Append(@, e)]
  BY EntryGenerated
<1> DEFINE r == [run[n] EXCEPT !.todo = @ \ {pod}, !.desired = Append(@, e)]
<1>2. run[n] \in RunType /\ RunOK(run[n])
  BY DEF GenInv
<1>3. RunOK(r)
  <2>1. Append(run[n].desired, e) \in Seq(Entry)
    BY <1>2 DEF RunType
  <2>2. r.step = run[n].step /\ r.labels = run[n].labels
    BY <1>2 DEF RunType
  <2>3. r \in RunType
    BY <1>2, <2>1 DEF RunType
  <2> QED
    BY <1>2, <2>2, <2>3 DEF RunOK
<1>4. run' = [run EXCEPT ![n] = r] /\ UNCHANGED <<clusterVars, identities, storeVars>>
  BY <1>1 DEF Generate
<1> HIDE DEF r
<1> QED
  BY <1>3, <1>4, RunSteps DEF GenInv

(* A patch that is sent; it may be answered or not.                        *)
LEMMA Patch ==
  ASSUME GenInv, NEW n \in Namespaces, AtPatch(n), ApplyPatch(n)
  PROVE  /\ NextEntry(n) \in Entry /\ <<n, NextEntry(n).name>> \in Keys
         /\ identities' \in [Keys -> Ids \union {None}]
         /\ run[n].patched + 1 \in run[n].patched + 1 .. Len(run[n].desired)
<1>1. run[n].desired \in Seq(Entry) /\ run[n].patched \in Nat /\ run[n].patched < Len(run[n].desired)
  BY DEF GenInv, RunType, AtPatch
<1>2. NextEntry(n) \in Entry
  BY <1>1 DEF NextEntry
<1>3. <<n, NextEntry(n).name>> \in Keys /\ NextEntry(n).id \in Ids
  BY <1>2 DEF Entry, Keys
<1> QED
  BY <1>1, <1>2, <1>3 DEF ApplyPatch, GenInv

LEMMA DeleteKeepsType ==
  ASSUME GenInv, NEW k, identities' = [identities EXCEPT ![k] = None]
  PROVE  identities' \in [Keys -> Ids \union {None}]
  BY DEF GenInv

LEMMA OtherGen ==
  ASSUME GenInv, NEW n \in Namespaces,
         PatchOne(n) \/ Collect(n) \/ DeleteOne(n) \/ Finish(n) \/ CallFails(n)
  PROVE  GenInv'
<1>1. UNCHANGED <<clusterVars, storeVars>>
  BY DEF PatchOne, Collect, DeleteOne, Finish, CallFails
<1>2. identities' \in [Keys -> Ids \union {None}]
  <2>1. CASE UNCHANGED identities
    BY <2>1 DEF GenInv
  <2>2. CASE AtPatch(n) /\ ApplyPatch(n)
    BY <2>2, Patch
  <2>3. CASE \E name \in run[n].doomed : identities' = [identities EXCEPT ![<<n, name>>] = None]
    BY <2>3, DeleteKeepsType
  <2> QED
    BY <2>1, <2>2, <2>3 DEF PatchOne, Collect, DeleteOne, Finish, CallFails
<1>3. \E r : RunOK(r) /\ run' = [run EXCEPT ![n] = r]
  <2>0. run[n] \in RunType /\ RunOK(run[n])
    BY DEF GenInv
  <2>1. CASE run' = [run EXCEPT ![n] = Idle]
    BY <2>1, IdleIsOK
  <2>2. CASE run' = [run EXCEPT ![n].patched = @ + 1]
    <3>1. RunOK([run[n] EXCEPT !.patched = @ + 1])
      BY <2>0 DEF RunOK, RunType
    <3>2. run' = [run EXCEPT ![n] = [run[n] EXCEPT !.patched = @ + 1]]
      BY <2>2
    <3> QED
      BY <3>1, <3>2
  <2>3. CASE Collect(n)
    <3> DEFINE doomed == {name \in Names : identityStore[<<n, name>>] # None} \ DesiredNames(n)
    <3>1. RunOK([run[n] EXCEPT !.step = "delete", !.doomed = doomed])
      BY <2>0 DEF RunOK, RunType
    <3>2. run' = [run EXCEPT ![n] = [run[n] EXCEPT !.step = "delete", !.doomed = doomed]]
      BY <2>3 DEF Collect
    <3> QED
      BY <3>1, <3>2
  <2>4. ASSUME NEW name, run' = [run EXCEPT ![n].doomed = @ \ {name}]
        PROVE  \E r : RunOK(r) /\ run' = [run EXCEPT ![n] = r]
    <3>1. RunOK([run[n] EXCEPT !.doomed = @ \ {name}])
      BY <2>0 DEF RunOK, RunType
    <3>2. run' = [run EXCEPT ![n] = [run[n] EXCEPT !.doomed = @ \ {name}]]
      BY <2>4
    <3> QED
      BY <3>1, <3>2
  <2> QED
    BY <2>1, <2>2, <2>3, <2>4 DEF PatchOne, DeleteOne, Finish, CallFails, Abandon
<1> QED
  BY <1>1, <1>2, <1>3, RunSteps

LEMMA StepGen == GenInv /\ [Next]_vars => GenInv'
<1> SUFFICES ASSUME GenInv, [Next]_vars PROVE GenInv'
  OBVIOUS
<1>1. CASE UNCHANGED vars
  BY <1>1 DEF vars, clusterVars, storeVars, GenInv
<1> QED
  BY <1>1, ClusterGen, StartGen, GenerateGen, OtherGen DEF Next, Reconcile

LEMMA GenInvariant == Spec => []GenInv
<1>1. Init => GenInv
  BY InitGen
<1>2. GenInv /\ [Next]_vars => GenInv'
  BY StepGen
<1> QED
  BY <1>1, <1>2, PTL DEF Spec

-----------------------------------------------------------------------------
(* Patches that are left to send do not become more by a run that has the  *)
(* same entries, or none.                                                  *)
LEMMA FewerPatches ==
  ASSUME GenInv, GenInv', NEW k \in Keys, ~Overwrites(k),
         \/ run'[k[1]].desired = <<>>
         \/ /\ run'[k[1]].desired = run[k[1]].desired
            /\ run'[k[1]].patched >= run[k[1]].patched
  PROVE  ~Overwrites(k)'
<1>1. run[k[1]].desired \in Seq(Entry) /\ run[k[1]].patched \in Nat
  BY KeysAreThose DEF GenInv, RunType
<1>0. run'[k[1]].patched \in Nat
  BY KeysAreThose DEF GenInv, RunType
<1>2. CASE run'[k[1]].desired = <<>>
  <2>1. run'[k[1]].patched + 1 .. Len(run'[k[1]].desired) = {}
    BY <1>0, <1>2
  <2> QED
    BY <2>1 DEF Overwrites
<1>3. CASE /\ run'[k[1]].desired = run[k[1]].desired
           /\ run'[k[1]].patched >= run[k[1]].patched
  <2>1. Len(run[k[1]].desired) \in Nat
    BY <1>1
  <2>2. run'[k[1]].patched + 1 .. Len(run[k[1]].desired) \subseteq run[k[1]].patched + 1 .. Len(run[k[1]].desired)
    BY <1>0, <1>1, <1>3, <2>1
  <2> QED
    BY <1>3, <2>2 DEF Overwrites
<1> QED
  BY <1>2, <1>3

(* A reconcile that adds an entry takes a firm identity from the store.    *)
LEMMA GenerateFirm ==
  ASSUME GenInv, GenInv', NEW k \in Keys, Firm(k), NEW n \in Namespaces, Generate(n)
  PROVE  ~Overwrites(k)'
<1>1. PICK pod \in run[n].todo, e \in Entry :
        /\ run' = [run EXCEPT ![n].todo = @ \ {pod}, ![n].desired = Append(@, e)]
        /\ e.stored <=> identityStore[<<n, e.name>>] # None
  BY EntryGenerated
<1>2. CASE n # k[1]
  <2>1. run'[k[1]] = run[k[1]] /\ run[k[1]].patched \in Nat
    BY <1>1, <1>2, KeysAreThose DEF GenInv, RunType
  <2>2. run[k[1]].patched >= run[k[1]].patched
    BY <2>1
  <2> QED
    BY <2>1, <2>2, FewerPatches DEF Firm
<1>3. CASE n = k[1]
  <2> DEFINE desired == run[n].desired
  <2>1. desired \in Seq(Entry) /\ run[n].patched \in Nat
    BY DEF GenInv, RunType
  <2>2. run'[n].desired = Append(desired, e) /\ run'[n].patched = run[n].patched
    BY <1>1 DEF GenInv, RunType
  <2>3. e.name = k[2] => e.stored
    BY <1>1, <1>3, KeysAreThose DEF Firm
  <2>4. ASSUME NEW i \in run[n].patched + 1 .. Len(desired) + 1, Append(desired, e)[i].name = k[2]
        PROVE  Append(desired, e)[i].stored
    <3>1. CASE i = Len(desired) + 1
      BY <2>1, <2>3, <2>4, <3>1
    <3>2. CASE i # Len(desired) + 1
      <4>1. i \in run[n].patched + 1 .. Len(desired) /\ Append(desired, e)[i] = desired[i]
        BY <2>1, <3>2
      <4> QED
        BY <1>3, <2>4, <4>1 DEF Firm, Overwrites
    <3> QED
      BY <3>1, <3>2
  <2>5. Len(Append(desired, e)) = Len(desired) + 1
    BY <2>1
  <2> HIDE DEF desired
  <2> QED
    BY <1>3, <2>2, <2>4, <2>5 DEF Overwrites
<1> QED
  BY <1>2, <1>3

(* A patch of a firm identity is one that came from the store, and without *)
(* a conflict it changes nothing.                                          *)
LEMMA PatchFirm ==
  ASSUME GenInv, NEW k \in Keys, Firm(k), NEW n \in Namespaces,
         AtPatch(n), ~Conflict(n), ApplyPatch(n)
  PROVE  identities'[k] = identities[k]
<1>1. NextEntry(n) = run[n].desired[run[n].patched + 1]
  BY DEF NextEntry
<1>2. run[n].patched + 1 \in run[n].patched + 1 .. Len(run[n].desired)
  BY Patch
<1>3. CASE <<n, NextEntry(n).name>> = k
  <2>1. n = k[1] /\ NextEntry(n).name = k[2]
    BY <1>3
  <2>2. NextEntry(n).stored
    BY <1>1, <1>2, <2>1 DEF Firm, Overwrites
  <2>3. identities[<<n, NextEntry(n).name>>] = NextEntry(n).id
    BY <2>2 DEF Conflict
  <2> QED
    BY <1>3, <2>3 DEF ApplyPatch, GenInv
<1>4. CASE <<n, NextEntry(n).name>> # k
  BY <1>4 DEF ApplyPatch, GenInv
<1> QED
  BY <1>3, <1>4

LEMMA StepFirm ==
  ASSUME GenInv, GenInv', [Next]_vars, NEW k \in Keys, Firm(k)
  PROVE  identities'[k] = None \/ (identities'[k] = identities[k] /\ Firm(k)')
<1>1. identities'[k] \in {identities[k], None}
  <2>1. CASE UNCHANGED identities
    BY <2>1
  <2>2. ASSUME NEW n \in Namespaces, AtPatch(n), ~Conflict(n), ApplyPatch(n)
        PROVE  identities'[k] = identities[k]
    BY <2>2, PatchFirm
  <2>3. ASSUME NEW n \in Namespaces, NEW name, identities' = [identities EXCEPT ![<<n, name>>] = None]
        PROVE  identities'[k] \in {identities[k], None}
    BY <2>3 DEF GenInv
  <2> QED
    BY <2>1, <2>2, <2>3 DEF Next, ChangePod, ChangeNamespace, Change, Timer, Sync, SyncPod, SyncNamespace,
       SyncIdentity, Reconcile, Start, Generate, PatchOne, Collect, DeleteOne, Finish, CallFails, vars
<1>2. ~Overwrites(k)'
  <2>0. \A m \in Namespaces : run[m].patched \in Nat /\ run[m].patched >= run[m].patched
    BY DEF GenInv, RunType
  <2>1. CASE UNCHANGED run
    BY <2>0, <2>1, FewerPatches, KeysAreThose DEF Firm
  <2>2. CASE \E n \in Namespaces : Generate(n)
    BY <2>2, GenerateFirm
  <2>3. ASSUME NEW n \in Namespaces, Start(n) PROVE ~Overwrites(k)'
    <3>1. run'[n].desired = <<>> /\ \A m \in Namespaces \ {n} : run'[m] = run[m]
      BY <2>3 DEF Start, Idle, GenInv
    <3> QED
      BY <2>0, <3>1, FewerPatches, KeysAreThose DEF Firm
  <2>4. ASSUME NEW n \in Namespaces, PatchOne(n) \/ Collect(n) \/ DeleteOne(n) \/ Finish(n) \/ CallFails(n)
        PROVE  ~Overwrites(k)'
    <3>1. /\ \A m \in Namespaces \ {n} : run'[m] = run[m]
          /\ \/ run'[n] = Idle
             \/ run'[n].desired = run[n].desired /\ run'[n].patched \in {run[n].patched, run[n].patched + 1}
      <4>0. run \in [Namespaces -> RunType]
        BY DEF GenInv
      <4>1. CASE run' = [run EXCEPT ![n] = Idle]
        BY <4>0, <4>1
      <4>2. CASE run' = [run EXCEPT ![n].patched = @ + 1]
        BY <4>0, <4>2 DEF RunType
      <4>3. CASE Collect(n)
        BY <4>0, <4>3 DEF Collect, RunType
      <4>4. ASSUME NEW name, run' = [run EXCEPT ![n].doomed = @ \ {name}]
            PROVE  /\ \A m \in Namespaces \ {n} : run'[m] = run[m]
                   /\ run'[n].desired = run[n].desired /\ run'[n].patched = run[n].patched
        BY <4>0, <4>4 DEF RunType
      <4> QED
        BY <2>4, <4>1, <4>2, <4>3, <4>4 DEF PatchOne, DeleteOne, Finish, CallFails, Abandon
    <3>3. \A m \in Namespaces : \/ run'[m].desired = <<>>
                                \/ run'[m].desired = run[m].desired /\ run'[m].patched >= run[m].patched
      BY <2>0, <3>1, IdleIsOK
    <3> QED
      BY <3>3, FewerPatches, KeysAreThose DEF Firm
  <2> QED
    BY <2>1, <2>2, <2>3, <2>4 DEF Next, ChangePod, ChangeNamespace, Change, Timer, Sync, SyncPod,
       SyncNamespace, SyncIdentity, Reconcile, vars
<1>3. identities'[k] = identities[k] => identityStore'[k] = identities'[k]
  <2>1. ASSUME NEW j \in Keys, SyncIdentity(j) PROVE identityStore'[k] = identities[k]
    BY <2>1 DEF SyncIdentity, Firm, GenInv
  <2>2. CASE UNCHANGED identityStore
    BY <2>2 DEF Firm
  <2> QED
    BY <2>1, <2>2 DEF Next, ChangePod, ChangeNamespace, Change, Timer, Sync, SyncPod, SyncNamespace,
       Reconcile, Start, Generate, PatchOne, Collect, DeleteOne, Finish, CallFails, vars, clusterVars, storeVars
<1> QED
  BY <1>1, <1>2, <1>3 DEF Firm

(* An identity that the store has and no reconcile is about to overwrite   *)
(* keeps its id until it is deleted, whatever the lag of the stores and    *)
(* the calls that fail (controller.rs:95-118).                             *)
THEOREM FirmIdsAreKept == Spec => FirmIdsStay
<1>1. ASSUME GenInv, GenInv', [Next]_vars
      PROVE  [\A k \in Keys :
                Firm(k) => identities'[k] = None \/ (identities'[k] = identities[k] /\ Firm(k)')]_vars
  BY <1>1, StepFirm
<1> QED
  BY <1>1, GenInvariant, PTL DEF Spec, FirmIdsStay
=============================================================================
