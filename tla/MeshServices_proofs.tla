------------------------ MODULE MeshServices_proofs ------------------------
(***************************************************************************)
(* Theorems about the endpoint lists on their way to the service table,    *)
(* for any number of objects, keys and versions: that a key which one      *)
(* object claims never goes back to an older list; that the table holds    *)
(* only entries with capacity and endpoints; that the lists of a Service   *)
(* are those of its routes; and, of the controller that publishes the      *)
(* lists (Publisher), that what is published as it should be stays.        *)
(***************************************************************************)
EXTENDS MeshServices, MeshEndpointSpec, FiniteSetTheorems, SequenceTheorems,
        WellFoundedInduction, TLAPS

(* Objects are written from version 1 on.                                  *)
ObjectType == [ver : Nat \ {0}, keys : SUBSET Keys, deleting : BOOLEAN]
StateOf(o, state) ==
  state \in ObjectType \union {None} /\ (state # None => state.keys \subseteq KeysOf[o])

RunType ==
  [step : {"none", "check", "generate", "apply"}, object : ObjectType \union {None}, ver : Nat,
   removals : SUBSET Keys, updates : SUBSET Keys]

(* What the next reconcile of an object takes its endpoints from: slices   *)
(* or a MeshEndpoint in a store, or nothing.                               *)
Source(o) ==
  IF o \in Services THEN sliceStore[o] ELSE IF objectStore[o] = None THEN 0 ELSE objectStore[o].ver

(* A version that everything which may still be taken is not older than.   *)
NoNewer(o, v) ==
  /\ v <= version
  /\ cluster[o] # None => v <= cluster[o].ver
  /\ Source(o) # 0 => v <= Source(o)

Types ==
  /\ version \in Nat
  /\ cluster \in [Objects -> ObjectType \union {None}]
  /\ objectStore \in [Objects -> ObjectType \union {None}]
  /\ sliceStore \in [Services -> Nat]
  /\ run \in [Objects -> RunType]
  /\ shown \in [Keys -> Nat]

StatesOK ==
  \A o \in Objects :
    /\ StateOf(o, cluster[o]) /\ StateOf(o, objectStore[o])
    /\ cluster[o] # None => cluster[o].ver <= version
    /\ NoNewer(o, Source(o))

(* What a reconcile works with.                                            *)
RunFits(o, r) ==
  /\ r.step # "none" => o \notin Labelled /\ r.object # None /\ r.object.keys \subseteq KeysOf[o]
  /\ r.updates \subseteq KeysOf[o]
  /\ o \in MeshEndpoints /\ r.step # "none" => NoNewer(o, r.object.ver)
  /\ r.step = "apply" => NoNewer(o, r.ver)

(* What it is about to show is not older than what is shown.               *)
RunNotOlder(o, r, v) ==
  /\ r.step = "apply" /\ r.updates # {} => v <= r.ver
  /\ o \in MeshEndpoints /\ r.step \in {"check", "generate"} => v <= r.object.ver

RunsOK == \A o \in Objects : RunFits(o, run[o])

ShownOK ==
  \A k \in Keys, o \in Objects :
    Claimants(k) = {o} => NoNewer(o, shown[k]) /\ RunNotOlder(o, run[o], shown[k])

VersionInv == Types /\ StatesOK /\ RunsOK /\ ShownOK

-----------------------------------------------------------------------------
LEMMA ObjectKinds ==
  /\ \A o \in Objects : o \in Services \/ o \in MeshEndpoints
  /\ \A o \in Services : o \in Objects /\ o \notin MeshEndpoints
  /\ \A o \in MeshEndpoints : o \in Objects /\ o \notin Services
  /\ \A o \in Objects : KeysOf[o] \subseteq Keys
  BY ObjectsDisjoint, KeysOfObjects DEF Objects

LEMMA NoRunFits ==
  /\ NoRun \in RunType /\ NoRun.step = "none" /\ NoRun.updates = {}
  /\ \A o : RunFits(o, NoRun) /\ \A v : RunNotOlder(o, NoRun, v)
  BY DEF NoRun, RunType, RunFits, RunNotOlder

LEMMA InitVersions == Init => VersionInv
<1> SUFFICES ASSUME Init PROVE VersionInv
  OBVIOUS
<1>1. Types
  BY NoRunFits DEF Init, Types
<1>2. \A o \in Objects : cluster[o] = None /\ objectStore[o] = None /\ Source(o) = 0
  BY ObjectKinds DEF Init, Source
<1>3. StatesOK
  BY <1>2 DEF StatesOK, StateOf, NoNewer, Init
<1>4. RunsOK
  BY NoRunFits DEF Init, RunsOK
<1>5. ShownOK
  BY <1>2, NoRunFits DEF Init, ShownOK, NoNewer
<1> QED
  BY <1>1, <1>3, <1>4, <1>5 DEF VersionInv

-----------------------------------------------------------------------------
(* The cluster and the stores move on, and only to what is newer.          *)
LEMMA Kept ==
  ASSUME VersionInv, UNCHANGED <<run, shown>>, Types', StatesOK',
         \A o \in Objects, v \in Nat : NoNewer(o, v) => NoNewer(o, v)'
  PROVE  VersionInv'
<1>1. RunsOK'
  <2>1. ASSUME NEW o \in Objects PROVE RunFits(o, run[o])'
    <3>1. run[o] \in RunType /\ RunFits(o, run[o]) /\ run'[o] = run[o]
      BY DEF VersionInv, Types, RunsOK
    <3>2. run[o].ver \in Nat /\ (run[o].object # None => run[o].object.ver \in Nat)
      BY <3>1 DEF RunType, ObjectType
    <3> QED
      BY <3>1, <3>2 DEF RunFits
  <2> QED
    BY <2>1 DEF RunsOK
<1>2. ShownOK'
  <2>1. \A k \in Keys : shown[k] \in Nat
    BY DEF VersionInv, Types
  <2>2. \A k \in Keys : Claimants(k)' = Claimants(k)
    BY DEF Claimants
  <2> QED
    BY <2>1, <2>2 DEF VersionInv, ShownOK, RunNotOlder
<1> QED
  BY <1>1, <1>2 DEF VersionInv

(* One object of the cluster changes.                                      *)
LEMMA ClusterMoves ==
  ASSUME VersionInv, NEW o \in Objects, NEW new,
         StateOf(o, new), cluster' = [cluster EXCEPT ![o] = new],
         version' \in Nat, version' >= version,
         UNCHANGED <<storeVars, run, shown>>,
         new # None => /\ new.ver <= version'
                       /\ \/ new.ver >= version
                          \/ cluster[o] # None /\ new.ver = cluster[o].ver
  PROVE  VersionInv'
<1>1. Types'
  BY DEF VersionInv, Types, StateOf, storeVars
<1>2. \A p \in Objects : Source(p)' = Source(p) /\ objectStore' = objectStore
  BY DEF Source, storeVars
<1>3. \A p \in Objects : cluster'[p] = IF p = o THEN new ELSE cluster[p]
  BY DEF VersionInv, Types
<1>4. /\ version \in Nat
      /\ \A p \in Objects : cluster[p] # None => cluster[p].ver \in Nat
      /\ new # None => new.ver \in Nat
  BY DEF VersionInv, Types, ObjectType, StateOf
<1>5. ASSUME NEW p \in Objects, NEW v \in Nat, NoNewer(p, v) PROVE NoNewer(p, v)'
  BY <1>2, <1>3, <1>4, <1>5 DEF NoNewer
<1>6. \A p \in Objects : Source(p) \in Nat
  BY ObjectKinds DEF VersionInv, Types, Source, ObjectType
<1>7. ASSUME NEW p \in Objects
      PROVE  /\ StateOf(p, cluster[p])' /\ StateOf(p, objectStore[p])'
             /\ (cluster[p] # None => cluster[p].ver <= version)'
             /\ NoNewer(p, Source(p))'
  <2>1. StateOf(p, cluster[p]) /\ StateOf(p, objectStore[p]) /\ NoNewer(p, Source(p))
    BY DEF VersionInv, StatesOK
  <2>2. NoNewer(p, Source(p))'
    BY <1>2, <1>5, <1>6, <2>1 DEF NoNewer
  <2>3. cluster[p] # None => cluster[p].ver <= version
    BY DEF VersionInv, StatesOK
  <2> QED
    BY <1>2, <1>3, <1>4, <2>1, <2>2, <2>3 DEF StateOf
<1>8. StatesOK'
  BY <1>7 DEF StatesOK
<1> QED
  BY <1>1, <1>5, <1>8, Kept

LEMMA ClusterChangeStep == ASSUME VersionInv, ClusterChange PROVE VersionInv'
<1>0. version \in Nat /\ version + 1 \in Nat
  BY DEF VersionInv, Types
<1>1. ASSUME NEW o \in Objects, Apply(o) PROVE VersionInv'
  <2>1. PICK keys \in (SUBSET KeysOf[o]) \ {{}} :
          cluster' = [cluster EXCEPT ![o] = [ver |-> version + 1, keys |-> keys, deleting |-> FALSE]]
    BY <1>1 DEF Apply
  <2> DEFINE new == [ver |-> version + 1, keys |-> keys, deleting |-> FALSE]
  <2>2. StateOf(o, new) /\ new.ver = version + 1
    BY <1>0, ObjectKinds DEF StateOf, ObjectType
  <2>3. version' = version + 1 /\ UNCHANGED <<storeVars, run, shown>>
    BY <1>1 DEF Apply
  <2> HIDE DEF new
  <2>4. cluster' = [cluster EXCEPT ![o] = new]
    BY <2>1 DEF new
  <2>5. version' \in Nat /\ version' >= version /\ new.ver <= version' /\ new.ver >= version
    BY <1>0, <2>2, <2>3
  <2> QED
    BY <2>2, <2>3, <2>4, <2>5, ClusterMoves
<1>2. ASSUME NEW o \in Objects, MarkDeleted(o) PROVE VersionInv'
  <2> DEFINE new == [cluster[o] EXCEPT !.deleting = TRUE]
  <2>1. cluster[o] # None /\ StateOf(o, cluster[o]) /\ cluster[o].ver <= version
    BY <1>2 DEF MarkDeleted, VersionInv, StatesOK
  <2>2. StateOf(o, new) /\ new.ver = cluster[o].ver
    BY <2>1 DEF StateOf, ObjectType
  <2>3. cluster' = [cluster EXCEPT ![o] = new] /\ version' = version /\ UNCHANGED <<storeVars, run, shown>>
    BY <1>2 DEF MarkDeleted
  <2> HIDE DEF new
  <2>4. version' \in Nat /\ version' >= version /\ new.ver <= version'
    BY <1>0, <2>1, <2>2, <2>3
  <2> QED
    BY <2>1, <2>2, <2>3, <2>4, ClusterMoves
<1>3. ASSUME NEW o \in Objects, Vanish(o) PROVE VersionInv'
  <2>1. StateOf(o, None)
    BY DEF StateOf
  <2>2. cluster' = [cluster EXCEPT ![o] = None] /\ version' = version /\ UNCHANGED <<storeVars, run, shown>>
    BY <1>3 DEF Vanish
  <2>3. version' \in Nat /\ version' >= version
    BY <1>0, <2>2
  <2> QED
    BY <2>1, <2>2, <2>3, ClusterMoves
<1> QED
  BY <1>1, <1>2, <1>3 DEF ClusterChange

-----------------------------------------------------------------------------
(* A source becomes what the cluster has, or goes.                         *)
SourcesMove ==
  /\ objectStore' \in [Objects -> ObjectType \union {None}]
  /\ sliceStore' \in [Services -> Nat]
  /\ \A p \in Objects : /\ objectStore'[p] \in {objectStore[p], cluster[p]}
                         /\ \/ Source(p)' \in {Source(p), 0}
                            \/ cluster[p] # None /\ Source(p)' = cluster[p].ver

LEMMA StoresMove ==
  ASSUME VersionInv, UNCHANGED <<version, cluster, run, shown>>, SourcesMove
  PROVE  VersionInv'
<1>1. /\ version \in Nat
      /\ \A p \in Objects : cluster[p] # None => cluster[p].ver \in Nat /\ cluster[p].ver <= version
  BY DEF VersionInv, Types, ObjectType, StatesOK
<1>2. ASSUME NEW p \in Objects, NEW v \in Nat, NoNewer(p, v) PROVE NoNewer(p, v)'
  BY <1>1, <1>2 DEF NoNewer, SourcesMove
<1>3. \A p \in Objects : Source(p) \in Nat /\ NoNewer(p, Source(p))
  BY ObjectKinds DEF VersionInv, Types, Source, ObjectType, StatesOK
<1>4. ASSUME NEW p \in Objects
      PROVE  /\ StateOf(p, cluster[p])' /\ StateOf(p, objectStore[p])'
             /\ (cluster[p] # None => cluster[p].ver <= version)'
             /\ NoNewer(p, Source(p))'
  <2>1. StateOf(p, cluster[p]) /\ StateOf(p, objectStore[p])
    BY DEF VersionInv, StatesOK
  <2>2. NoNewer(p, Source(p))'
    BY <1>1, <1>3 DEF NoNewer, SourcesMove
  <2> QED
    BY <1>1, <2>1, <2>2 DEF StateOf, SourcesMove
<1>5. StatesOK'
  BY <1>4 DEF StatesOK
<1>6. Types'
  BY DEF VersionInv, Types, SourcesMove
<1> QED
  BY <1>2, <1>5, <1>6, Kept

LEMMA SyncStep == ASSUME VersionInv, Sync PROVE VersionInv'
<1>1. UNCHANGED <<version, cluster, run, shown>>
  BY DEF Sync, SyncService, SyncSlices, SyncMeshEndpoint, SyncCheckStore
<1>2. /\ cluster \in [Objects -> ObjectType \union {None}]
      /\ objectStore \in [Objects -> ObjectType \union {None}]
      /\ sliceStore \in [Services -> Nat]
  BY DEF VersionInv, Types
<1>3. ASSUME NEW s \in Services, SyncService(s) PROVE SourcesMove
  <2>1. objectStore' = [objectStore EXCEPT ![s] = cluster[s]] /\ sliceStore' = sliceStore
    BY <1>3 DEF SyncService
  <2>2. \A p \in Objects : Source(p)' = Source(p)
    BY <1>2, <1>3, <2>1 DEF Source
  <2> QED
    BY <1>2, <1>3, <2>1, <2>2, ObjectKinds DEF SourcesMove
<1>4. ASSUME NEW s \in Services, SyncSlices(s) PROVE SourcesMove
  <2>1. sliceStore' = [sliceStore EXCEPT ![s] = SliceVersion(s)] /\ objectStore' = objectStore
    BY <1>4 DEF SyncSlices
  <2>2. SliceVersion(s) = (IF cluster[s] = None THEN 0 ELSE cluster[s].ver) /\ SliceVersion(s) \in Nat
    BY <1>2, <1>4, ObjectKinds DEF SliceVersion, ObjectType
  <2>3. \A p \in Objects : Source(p)' = IF p = s THEN SliceVersion(s) ELSE Source(p)
    BY <1>2, <1>4, <2>1 DEF Source
  <2> QED
    BY <1>2, <2>1, <2>2, <2>3 DEF SourcesMove
<1>5. ASSUME NEW m \in MeshEndpoints, SyncMeshEndpoint(m) PROVE SourcesMove
  <2>1. objectStore' = [objectStore EXCEPT ![m] = cluster[m]] /\ sliceStore' = sliceStore
    BY <1>5 DEF SyncMeshEndpoint
  <2>2. \A p \in Objects \ {m} : Source(p)' = Source(p)
    BY <1>2, <2>1 DEF Source
  <2>3. Source(m)' = IF cluster[m] = None THEN 0 ELSE cluster[m].ver
    BY <1>2, <1>5, <2>1, ObjectKinds DEF Source
  <2> QED
    BY <1>2, <1>5, <2>1, <2>2, <2>3, ObjectKinds DEF SourcesMove
<1>6. ASSUME NEW m \in MeshEndpoints, SyncCheckStore(m) PROVE SourcesMove
  BY <1>2, <1>6 DEF SyncCheckStore, SourcesMove, Source
<1> QED
  BY <1>1, <1>3, <1>4, <1>5, <1>6, StoresMove DEF Sync

-----------------------------------------------------------------------------
(* A step of a reconcile, which leaves cluster and stores alone ...        *)
LEMMA NoNewerStays ==
  ASSUME UNCHANGED <<version, cluster, storeVars>>
  PROVE  \A o, v : NoNewer(o, v)' = NoNewer(o, v)
  BY DEF NoNewer, Source, storeVars

LEMMA RunSteps ==
  ASSUME VersionInv, UNCHANGED <<version, cluster, storeVars>>,
         NEW o \in Objects, NEW r \in RunType, run' = [run EXCEPT ![o] = r], RunFits(o, r)
  PROVE  /\ StatesOK' /\ RunsOK' /\ (shown' \in [Keys -> Nat] => Types')
         /\ \A p \in Objects : run'[p] = IF p = o THEN r ELSE run[p]
<1>1. /\ \A p \in Objects : run'[p] = IF p = o THEN r ELSE run[p]
      /\ run' \in [Objects -> RunType]
  BY DEF VersionInv, Types
<1>2. shown' \in [Keys -> Nat] => Types'
  BY <1>1 DEF VersionInv, Types, storeVars
<1>3. UNCHANGED <<cluster, version, objectStore>> /\ \A p : Source(p)' = Source(p)
  BY DEF storeVars, Source
<1>4. StatesOK'
  <2>1. \A p \in Objects : /\ StateOf(p, cluster[p])' /\ StateOf(p, objectStore[p])'
                           /\ (cluster[p] # None => cluster[p].ver <= version)'
                           /\ NoNewer(p, Source(p))'
    BY <1>3 DEF VersionInv, StatesOK, StateOf, NoNewer
  <2> QED
    BY <2>1 DEF StatesOK
<1>5. ASSUME NEW p \in Objects PROVE RunFits(p, run[p])'
  <2>1. RunFits(p, run'[p])
    BY <1>1 DEF VersionInv, RunsOK
  <2> QED
    BY <2>1, NoNewerStays DEF RunFits
<1> QED
  BY <1>1, <1>2, <1>4, <1>5 DEF RunsOK

(* ... and shows nothing.                                                  *)
LEMMA QuietSteps ==
  ASSUME VersionInv, UNCHANGED <<version, cluster, storeVars, shown>>,
         NEW o \in Objects, NEW r \in RunType, run' = [run EXCEPT ![o] = r], RunFits(o, r),
         \A k \in Keys : Claimants(k) = {o} => RunNotOlder(o, r, shown[k])
  PROVE  VersionInv'
<1>1. /\ StatesOK' /\ RunsOK' /\ Types'
      /\ \A p \in Objects : run'[p] = IF p = o THEN r ELSE run[p]
  BY RunSteps DEF VersionInv, Types
<1>2. ASSUME NEW k \in Keys, NEW p \in Objects, Claimants(k) = {p}
      PROVE  NoNewer(p, shown[k])' /\ RunNotOlder(p, run[p], shown[k])'
  <2>1. NoNewer(p, shown[k]) /\ RunNotOlder(p, run[p], shown[k])
    BY <1>2 DEF VersionInv, ShownOK
  <2>2. RunNotOlder(p, run'[p], shown[k])
    BY <1>1, <1>2, <2>1
  <2> QED
    BY <2>1, <2>2, NoNewerStays DEF RunNotOlder
<1>3. ShownOK'
  BY <1>2 DEF ShownOK, Claimants
<1> QED
  BY <1>1, <1>3 DEF VersionInv

LEMMA EndStep ==
  ASSUME VersionInv, UNCHANGED <<version, cluster, storeVars, shown>>,
         NEW o \in Objects, run' = [run EXCEPT ![o] = NoRun]
  PROVE  VersionInv'
  BY NoRunFits, QuietSteps

LEMMA StartStep == ASSUME VersionInv, NEW o \in Objects, Start(o) PROVE VersionInv'
<1>1. UNCHANGED <<version, cluster, storeVars, shown>>
  BY DEF Start
<1>2. CASE UNCHANGED run
  <2>1. run' = [run EXCEPT ![o] = NoRun]
    BY <1>2 DEF Start, VersionInv, Types
  <2> QED
    BY <1>1, <2>1, EndStep
<1>3. CASE objectStore[o] # None /\ o \notin Labelled
  <2> DEFINE r == [NoRun EXCEPT !.step = "check", !.object = objectStore[o]]
  <2>1. StateOf(o, objectStore[o])
    BY DEF VersionInv, StatesOK
  <2>2. /\ r \in RunType /\ r.step = "check" /\ r.object = objectStore[o] /\ r.updates = {}
    BY <2>1 DEF NoRun, RunType, StateOf
  <2>3. run' = [run EXCEPT ![o] = r]
    BY <1>3 DEF Start
  <2>4. o \in MeshEndpoints => Source(o) = objectStore[o].ver /\ Source(o) # 0
    BY <1>3, <2>1, ObjectKinds DEF Source, StateOf, ObjectType
  <2>5. NoNewer(o, Source(o)) /\ \A k \in Keys : Claimants(k) = {o} => NoNewer(o, shown[k])
    BY DEF VersionInv, StatesOK, ShownOK
  <2> HIDE DEF r
  <2>6. RunFits(o, r)
    BY <1>3, <2>1, <2>2, <2>4, <2>5 DEF RunFits, StateOf
  <2>7. \A k \in Keys : Claimants(k) = {o} => RunNotOlder(o, r, shown[k])
    BY <2>2, <2>4, <2>5 DEF RunNotOlder, NoNewer
  <2> QED
    BY <1>1, <2>2, <2>3, <2>6, <2>7, QuietSteps
<1> QED
  BY <1>2, <1>3 DEF Start

(* A reconcile goes on with the same object and the same version, with     *)
(* nothing left to update that it had not before.                          *)
LEMMA GoOn ==
  ASSUME VersionInv, UNCHANGED <<version, cluster, storeVars, shown>>,
         NEW o \in Objects, NEW r \in RunType, run' = [run EXCEPT ![o] = r],
         r.object = run[o].object, r.ver = run[o].ver, r.updates \subseteq run[o].updates,
         \/ run[o].step = r.step
         \/ run[o].step = "check" /\ r.step = "generate"
  PROVE  VersionInv'
<1>1. RunFits(o, run[o]) /\ \A k \in Keys : Claimants(k) = {o} => RunNotOlder(o, run[o], shown[k])
  BY DEF VersionInv, RunsOK, ShownOK
<1>2. RunFits(o, r)
  BY <1>1 DEF RunFits
<1>3. \A k \in Keys : Claimants(k) = {o} => RunNotOlder(o, r, shown[k])
  BY <1>1 DEF RunNotOlder
<1> QED
  BY <1>2, <1>3, QuietSteps

LEMMA CheckStep == ASSUME VersionInv, NEW o \in Objects, CheckPasses(o) PROVE VersionInv'
<1> DEFINE r == [run[o] EXCEPT !.step = "generate"]
<1>1. run[o] \in RunType
  BY DEF VersionInv, Types
<1>2. /\ r \in RunType /\ r.step = "generate" /\ r.object = run[o].object /\ r.ver = run[o].ver
      /\ r.updates = run[o].updates
  BY <1>1 DEF RunType
<1>3. run' = [run EXCEPT ![o] = r] /\ run[o].step = "check" /\ UNCHANGED <<version, cluster, storeVars, shown>>
  BY DEF CheckPasses
<1> HIDE DEF r
<1> QED
  BY <1>2, <1>3, GoOn

(* The version a reconcile takes is that of its source, or 0, which has no *)
(* endpoints.                                                              *)
LEMMA GenerateStep == ASSUME VersionInv, NEW o \in Objects, Generate(o) PROVE VersionInv'
<1> DEFINE ver == SourceVersion(o)
<1> DEFINE pairs == IF ListOf[ver] = <<>> THEN {} ELSE run[o].object.keys
<1> DEFINE removals == IF run[o].object.deleting THEN pairs ELSE {}
<1> DEFINE r == [run[o] EXCEPT !.step = "apply", !.ver = ver, !.removals = removals, !.updates = pairs]
<1>1. run[o] \in RunType /\ run[o].step = "generate" /\ RunFits(o, run[o])
  BY DEF Generate, VersionInv, Types, RunsOK
<1>2. run[o].object \in ObjectType /\ run[o].object.keys \subseteq KeysOf[o] /\ o \notin Labelled
  BY <1>1 DEF RunFits, RunType
<1>3. pairs \subseteq KeysOf[o] /\ pairs \subseteq Keys
  BY <1>2, ObjectKinds
<1>4. ver \in Nat /\ NoNewer(o, ver)
  <2>1. CASE o \in Services
    BY <2>1 DEF SourceVersion, VersionInv, Types, StatesOK, Source
  <2>2. CASE o \in MeshEndpoints
    BY <1>1, <1>2, <2>2, ObjectKinds DEF SourceVersion, RunFits, ObjectType
  <2> QED
    BY <2>1, <2>2, ObjectKinds
<1>5. ASSUME pairs # {}, NEW k \in Keys, Claimants(k) = {o} PROVE shown[k] <= ver
  <2>1. ver # 0
    BY <1>5, NoSlicesNoEndpoints
  <2>2. NoNewer(o, shown[k]) /\ RunNotOlder(o, run[o], shown[k])
    BY <1>5 DEF VersionInv, ShownOK
  <2>3. CASE o \in Services
    BY <2>1, <2>2, <2>3 DEF SourceVersion, Source, NoNewer
  <2>4. CASE o \in MeshEndpoints
    BY <1>1, <2>2, <2>4, ObjectKinds DEF SourceVersion, RunNotOlder
  <2> QED
    BY <2>3, <2>4, ObjectKinds
<1>6. run' = [run EXCEPT ![o] = r] /\ UNCHANGED <<version, cluster, storeVars, shown>>
  BY DEF Generate
<1> HIDE DEF ver, pairs
<1>7. r \in RunType /\ r.step = "apply" /\ r.ver = ver /\ r.updates = pairs /\ r.object = run[o].object
  <2>1. removals \in SUBSET Keys
    BY <1>3
  <2> HIDE DEF removals
  <2> QED
    BY <1>1, <1>3, <1>4, <2>1 DEF RunType
<1> HIDE DEF r
<1>8. RunFits(o, r)
  BY <1>1, <1>3, <1>4, <1>7 DEF RunFits
<1>9. \A k \in Keys : Claimants(k) = {o} => RunNotOlder(o, r, shown[k])
  BY <1>5, <1>7 DEF RunNotOlder
<1> QED
  BY <1>6, <1>7, <1>8, <1>9, QuietSteps

LEMMA RemoveStep == ASSUME VersionInv, NEW o \in Objects, NEW k \in Keys, RemoveKey(o, k) PROVE VersionInv'
<1>1. UNCHANGED <<version, cluster, storeVars, shown>>
  BY DEF RemoveKey
<1>2. CASE run' = [run EXCEPT ![o] = NoRun]
  BY <1>1, <1>2, EndStep
<1>3. CASE run' = [run EXCEPT ![o].removals = @ \ {k}]
  <2> DEFINE r == [run[o] EXCEPT !.removals = @ \ {k}]
  <2>1. run[o] \in RunType
    BY DEF VersionInv, Types
  <2>2. /\ r \in RunType /\ r.step = run[o].step /\ r.object = run[o].object /\ r.ver = run[o].ver
        /\ r.updates = run[o].updates
    BY <2>1 DEF RunType
  <2>3. run' = [run EXCEPT ![o] = r]
    BY <1>3
  <2> HIDE DEF r
  <2> QED
    BY <1>1, <2>2, <2>3, GoOn
<1> QED
  BY <1>2, <1>3 DEF RemoveKey, Abandon

LEMMA FinishStep == ASSUME VersionInv, NEW o \in Objects, CheckFails(o) \/ Finish(o) PROVE VersionInv'
  BY EndStep DEF CheckFails, Finish

(* What an update shows is as new as what was shown, for a sole claimant.  *)
LEMMA UpdateShows ==
  ASSUME VersionInv, NEW o \in Objects, NEW k \in Keys, UpdateKey(o, k)
  PROVE  /\ shown' = [shown EXCEPT ![k] = run[o].ver]
         /\ \A p \in Objects : Claimants(k) = {p} =>
              p = o /\ NoNewer(o, run[o].ver) /\ shown[k] <= run[o].ver
<1>1. /\ shown' = [shown EXCEPT ![k] = run[o].ver]
      /\ run[o].step = "apply" /\ k \in run[o].updates
  BY DEF UpdateKey
<1>2. RunFits(o, run[o])
  BY DEF VersionInv, RunsOK
<1>3. o \in Claimants(k) /\ NoNewer(o, run[o].ver)
  BY <1>1, <1>2 DEF RunFits, Claimants
<1>4. Claimants(k) = {o} => shown[k] <= run[o].ver
  BY <1>1 DEF VersionInv, ShownOK, RunNotOlder
<1> QED
  BY <1>1, <1>3, <1>4

LEMMA UpdateStep == ASSUME VersionInv, NEW o \in Objects, NEW k \in Keys, UpdateKey(o, k) PROVE VersionInv'
<1>1. run[o] \in RunType /\ run[o].ver \in Nat /\ RunFits(o, run[o])
  BY DEF VersionInv, Types, RunType, RunsOK
<1>2. PICK r \in RunType :
        /\ run' = [run EXCEPT ![o] = r] /\ RunFits(o, r)
        /\ r = NoRun \/ (r.step = run[o].step /\ r.object = run[o].object /\ r.ver = run[o].ver
                          /\ r.updates \subseteq run[o].updates)
  <2>1. CASE run' = [run EXCEPT ![o] = NoRun]
    BY <2>1, NoRunFits
  <2>2. CASE run' = [run EXCEPT ![o].updates = @ \ {k}]
    <3> DEFINE r == [run[o] EXCEPT !.updates = @ \ {k}]
    <3>1. /\ r \in RunType /\ r.step = run[o].step /\ r.object = run[o].object /\ r.ver = run[o].ver
          /\ r.updates \subseteq run[o].updates
      BY <1>1 DEF RunType
    <3>2. run' = [run EXCEPT ![o] = r]
      BY <2>2
    <3> HIDE DEF r
    <3>3. RunFits(o, r)
      BY <1>1, <3>1 DEF RunFits
    <3> QED
      BY <3>1, <3>2, <3>3
  <2> QED
    BY <2>1, <2>2 DEF UpdateKey, Abandon
<1>3. UNCHANGED <<version, cluster, storeVars>>
  BY DEF UpdateKey
<1>4. shown' = [shown EXCEPT ![k] = run[o].ver] /\ shown \in [Keys -> Nat]
  BY UpdateShows DEF VersionInv, Types
<1>5. /\ StatesOK' /\ RunsOK' /\ Types'
      /\ \A p \in Objects : run'[p] = IF p = o THEN r ELSE run[p]
  BY <1>1, <1>2, <1>3, <1>4, RunSteps
<1>6. ASSUME NEW j \in Keys, NEW p \in Objects, Claimants(j) = {p}
      PROVE  NoNewer(p, shown[j])' /\ RunNotOlder(p, run[p], shown[j])'
  <2>1. NoNewer(p, shown[j]) /\ RunNotOlder(p, run[p], shown[j])
    BY <1>6 DEF VersionInv, ShownOK
  <2>2. CASE j # k
    <3>1. shown'[j] = shown[j]
      BY <1>4, <2>2
    <3>2. RunNotOlder(p, run'[p], shown[j])
      BY <1>2, <1>5, <2>1, NoRunFits DEF RunNotOlder
    <3> QED
      BY <1>3, <2>1, <3>1, <3>2, NoNewerStays DEF RunNotOlder
  <2>3. CASE j = k
    <3>1. p = o /\ NoNewer(o, run[o].ver) /\ shown'[k] = run[o].ver
      BY <1>4, <1>6, <2>3, UpdateShows
    <3>2. run[o].step = "apply"
      BY DEF UpdateKey
    <3>3. RunNotOlder(o, r, run[o].ver)
      BY <1>1, <1>2, <3>2, NoRunFits DEF RunNotOlder
    <3> QED
      BY <1>3, <1>5, <2>3, <3>1, <3>3, NoNewerStays DEF RunNotOlder
  <2> QED
    BY <2>2, <2>3
<1>7. ShownOK'
  BY <1>6 DEF ShownOK, Claimants
<1> QED
  BY <1>5, <1>7 DEF VersionInv

LEMMA StepVersions == VersionInv /\ [Next]_vars => VersionInv'
<1> SUFFICES ASSUME VersionInv, [Next]_vars PROVE VersionInv'
  OBVIOUS
<1>1. CASE UNCHANGED vars
  <2>1. UNCHANGED <<run, shown, version, cluster, objectStore, sliceStore>>
    BY <1>1 DEF vars, storeVars
  <2>2. SourcesMove
    BY <2>1 DEF SourcesMove, VersionInv, Types, Source
  <2> QED
    BY <2>1, <2>2, StoresMove
<1> QED
  BY <1>1, ClusterChangeStep, SyncStep, StartStep, CheckStep, GenerateStep, RemoveStep, UpdateStep, FinishStep
     DEF Next, Reconcile

LEMMA VersionInvariant == Spec => []VersionInv
<1>1. Init => VersionInv
  BY InitVersions
<1>2. VersionInv /\ [Next]_vars => VersionInv'
  BY StepVersions
<1> QED
  BY <1>1, <1>2, PTL DEF Spec

(* A key that one object claims never goes back to an older list, however  *)
(* the stores lag, reconciles are requeued or abandoned half-way, and the  *)
(* object is deleted and made again (controller.rs:60-159).                *)
THEOREM ListsNeverGoBack == Spec => NeverBackToAnOlderList
<1>1. ASSUME VersionInv, Next, NEW k \in Keys, Cardinality(Claimants(k)) = 1 PROVE shown'[k] >= shown[k]
  <2>1. PICK o : Claimants(k) = {o}
    <3>1. IsFiniteSet(Claimants(k))
      BY FinitelyManyObjects, FS_Subset DEF Claimants
    <3> QED
      BY <1>1, <3>1, FS_Singleton
  <2>2. o \in Objects
    BY <2>1 DEF Claimants
  <2>3. shown \in [Keys -> Nat]
    BY <1>1 DEF VersionInv, Types
  <2>4. CASE UNCHANGED shown
    BY <2>3, <2>4
  <2>5. ASSUME NEW p \in Objects, NEW j \in Keys, UpdateKey(p, j) PROVE shown'[k] >= shown[k]
    BY <1>1, <2>1, <2>2, <2>3, <2>5, UpdateShows
  <2> QED
    BY <1>1, <2>4, <2>5 DEF Next, ClusterChange, Apply, MarkDeleted, Vanish, Sync, SyncService, SyncSlices,
       SyncMeshEndpoint, SyncCheckStore, Reconcile, Start, CheckFails, CheckPasses, Generate, RemoveKey, Finish
<1>2. ASSUME VersionInv, [Next]_vars
      PROVE  [\A k \in Keys : Cardinality(Claimants(k)) = 1 => shown'[k] >= shown[k]]_shown
  BY <1>1, <1>2 DEF vars
<1> QED
  BY <1>2, VersionInvariant, PTL DEF Spec, NeverBackToAnOlderList

-----------------------------------------------------------------------------
(***************************************************************************)
(* The types, and what the table has: a reconcile updates keys only with a *)
(* list that is not empty, so that an entry has a capacity.                *)
(***************************************************************************)
RunOfVersions ==
  [step : {"none", "check", "generate", "apply"}, object : ObjectState \union {None}, ver : Versions,
   removals : SUBSET Keys, updates : SUBSET Keys]

HasEndpoints(r) == r.updates # {} => ListOf[r.ver] # <<>>

TableOK == DOMAIN table = Keys /\ \A k \in Keys : table[k] = None \/ IsEntry(table[k])

TypeInv == TypeOK /\ \A o \in Objects : HasEndpoints(run[o])

LEMMA VersionFacts == 0 \in Versions /\ Versions \subseteq Nat
BY CountedVersions DEF Versions

LEMMA ListFacts ==
  ASSUME NEW v \in Versions
  PROVE  /\ Len(ListOf[v]) \in Nat
         /\ ListOf[v] # <<>> => Len(ListOf[v]) > 0
         /\ T!Clip(ListOf[v], Len(ListOf[v])) = ListOf[v]
<1> DEFINE S == {ListOf[v][n] : n \in DOMAIN ListOf[v]}
<1>1. ListOf[v] \in Seq(S)
  BY ListsOfEndpoints
<1> HIDE DEF S
<1>2. Len(ListOf[v]) \in Nat /\ (ListOf[v] # <<>> => Len(ListOf[v]) > 0)
  BY <1>1, EmptySeq, LenProperties
<1>3. SubSeq(ListOf[v], 1, Len(ListOf[v])) = ListOf[v]
  BY <1>1, SubSeqFull
<1> QED  BY <1>2, <1>3 DEF T!Clip

LEMMA NoRunTyped == NoRun \in RunOfVersions /\ HasEndpoints(NoRun)
BY VersionFacts DEF NoRun, RunOfVersions, HasEndpoints

LEMMA TypeInit == Init => TypeInv
<1> SUFFICES ASSUME Init PROVE TypeInv
  OBVIOUS
<1>1. table = [k \in Keys |-> None]
  BY DEF Init, T!Init
<1>2. TypeOK
  BY <1>1, VersionFacts, NoRunTyped DEF Init, TypeOK, RunOfVersions
<1>3. \A o \in Objects : HasEndpoints(run[o])
  BY NoRunTyped DEF Init
<1> QED  BY <1>2, <1>3 DEF TypeInv

-----------------------------------------------------------------------------
LEMMA ClusterTyped == ASSUME TypeInv, ClusterChange PROVE TypeInv'
<1> DEFINE ClusterOK == version' \in Versions /\ cluster' \in [Objects -> ObjectState \union {None}]
<1>1. ClusterOK
  <2>1. ASSUME NEW o \in Objects, Apply(o) PROVE ClusterOK
    <3>1. version + 1 \in Versions /\ version' = version + 1
      BY <2>1, CountedVersions DEF Apply, TypeInv, TypeOK, Versions
    <3>2. PICK keys \in (SUBSET KeysOf[o]) \ {{}} :
            cluster' = [cluster EXCEPT ![o] = [ver |-> version + 1, keys |-> keys, deleting |-> FALSE]]
      BY <2>1 DEF Apply
    <3>3. keys \subseteq Keys
      BY ObjectKinds
    <3>4. [ver |-> version + 1, keys |-> keys, deleting |-> FALSE] \in ObjectState
      BY <3>1, <3>3 DEF ObjectState
    <3> QED  BY <3>1, <3>2, <3>4 DEF TypeInv, TypeOK
  <2>2. ASSUME NEW o \in Objects, MarkDeleted(o) PROVE ClusterOK
    <3>1. cluster[o] \in ObjectState /\ cluster' = [cluster EXCEPT ![o].deleting = TRUE]
      BY <2>2 DEF MarkDeleted, TypeInv, TypeOK
    <3>2. [cluster[o] EXCEPT !.deleting = TRUE] \in ObjectState
      BY <3>1 DEF ObjectState
    <3> QED  BY <2>2, <3>1, <3>2 DEF MarkDeleted, TypeInv, TypeOK
  <2>3. ASSUME NEW o \in Objects, Vanish(o) PROVE ClusterOK
    BY <2>3 DEF Vanish, TypeInv, TypeOK
  <2> QED  BY <2>1, <2>2, <2>3 DEF ClusterChange
<1>2. UNCHANGED <<storeVars, queue, run, table, shown>>
  BY DEF ClusterChange, Apply, MarkDeleted, Vanish
<1>3. TypeOK'
  BY <1>1, <1>2 DEF TypeInv, TypeOK, IsEntry, storeVars
<1> QED  BY <1>2, <1>3 DEF TypeInv, HasEndpoints

LEMMA SyncTyped == ASSUME TypeInv, Sync PROVE TypeInv'
<1>1. /\ cluster \in [Objects -> ObjectState \union {None}] /\ queue \subseteq Objects
      /\ objectStore \in [Objects -> ObjectState \union {None}]
      /\ checkStore \in [Objects -> ObjectState \union {None}]
      /\ sliceStore \in [Services -> Versions]
  BY DEF TypeInv, TypeOK
<1>2. \A s \in Services : SliceVersion(s) \in Versions
  BY <1>1, ObjectKinds, VersionFacts DEF SliceVersion, ObjectState
<1> DEFINE StoresOK == /\ objectStore' \in [Objects -> ObjectState \union {None}]
                       /\ checkStore' \in [Objects -> ObjectState \union {None}]
                       /\ sliceStore' \in [Services -> Versions]
<1>3. StoresOK
  <2>1. ASSUME NEW s \in Services, SyncService(s) PROVE StoresOK
    BY <1>1, <2>1, ObjectKinds DEF SyncService
  <2>2. ASSUME NEW s \in Services, SyncSlices(s) PROVE StoresOK
    BY <1>1, <1>2, <2>2 DEF SyncSlices
  <2>3. ASSUME NEW m \in MeshEndpoints, SyncMeshEndpoint(m) PROVE StoresOK
    BY <1>1, <2>3, ObjectKinds DEF SyncMeshEndpoint
  <2>4. ASSUME NEW m \in MeshEndpoints, SyncCheckStore(m) PROVE StoresOK
    BY <1>1, <2>4, ObjectKinds DEF SyncCheckStore
  <2> QED  BY <2>1, <2>2, <2>3, <2>4 DEF Sync
<1>4. queue' \subseteq Objects
  BY <1>1, ObjectKinds DEF Sync, SyncService, SyncSlices, SyncMeshEndpoint, SyncCheckStore, Scheduled
<1>5. UNCHANGED <<version, cluster, run, table, shown>>
  BY DEF Sync, SyncService, SyncSlices, SyncMeshEndpoint, SyncCheckStore
<1>6. TypeOK'
  BY <1>3, <1>4, <1>5 DEF TypeInv, TypeOK, IsEntry
<1> QED  BY <1>5, <1>6 DEF TypeInv, HasEndpoints

(* A step of a reconcile, which may change the table and what is shown.    *)
LEMMA RunTyped ==
  ASSUME TypeInv, UNCHANGED <<version, cluster, storeVars>>,
         NEW o \in Objects, NEW r \in RunOfVersions, run' = [run EXCEPT ![o] = r], HasEndpoints(r),
         queue' \subseteq Objects, TableOK', shown' \in [Keys -> Versions]
  PROVE  TypeInv'
<1>1. run \in [Objects -> RunOfVersions] /\ \A p \in Objects : HasEndpoints(run[p])
  BY DEF TypeInv, TypeOK, RunOfVersions
<1>2. run' \in [Objects -> RunOfVersions] /\ \A p \in Objects : HasEndpoints(run'[p])
  BY <1>1
<1>3. TypeOK'
  BY <1>2 DEF TypeInv, TypeOK, TableOK, RunOfVersions, storeVars
<1> QED  BY <1>2, <1>3 DEF TypeInv, HasEndpoints

LEMMA QuietTyped ==
  ASSUME TypeInv, VersionInv, NEW o \in Objects,
         Start(o) \/ CheckFails(o) \/ CheckPasses(o) \/ Generate(o) \/ Finish(o)
  PROVE  TypeInv'
<1>1. run \in [Objects -> RunOfVersions] /\ run[o] \in RunOfVersions /\ HasEndpoints(run[o])
  BY DEF TypeInv, TypeOK, RunOfVersions
<1>2. /\ UNCHANGED <<version, cluster, storeVars, table, shown>> /\ queue' \subseteq Objects
      /\ TableOK' /\ shown' \in [Keys -> Versions]
  BY DEF TypeInv, TypeOK, TableOK, IsEntry, Start, Dequeue, CheckFails, CheckPasses, Generate, Finish
<1>3. PICK r \in RunOfVersions : run' = [run EXCEPT ![o] = r] /\ HasEndpoints(r)
  <2>1. CASE run' = [run EXCEPT ![o] = NoRun]
    BY <2>1, NoRunTyped
  <2>2. CASE UNCHANGED run
    BY <1>1, <2>2
  <2>3. CASE run' = [run EXCEPT ![o] = [NoRun EXCEPT !.step = "check", !.object = objectStore[o]]]
    <3>1. objectStore[o] \in ObjectState \union {None}
      BY DEF TypeInv, TypeOK
    <3> DEFINE r == [NoRun EXCEPT !.step = "check", !.object = objectStore[o]]
    <3>2. r \in RunOfVersions /\ HasEndpoints(r)
      BY <3>1, VersionFacts DEF NoRun, RunOfVersions, HasEndpoints
    <3> QED  BY <2>3, <3>2
  <2>4. CASE run' = [run EXCEPT ![o].step = "generate"]
    <3> DEFINE r == [run[o] EXCEPT !.step = "generate"]
    <3>1. r \in RunOfVersions /\ HasEndpoints(r) /\ run' = [run EXCEPT ![o] = r]
      BY <1>1, <2>4 DEF RunOfVersions, HasEndpoints
    <3> QED  BY <3>1
  <2>5. CASE Generate(o)
    <3> DEFINE ver == SourceVersion(o)
    <3> DEFINE pairs == IF ListOf[ver] = <<>> THEN {} ELSE run[o].object.keys
    <3> DEFINE removals == IF run[o].object.deleting THEN pairs ELSE {}
    <3> DEFINE r == [run[o] EXCEPT !.step = "apply", !.ver = ver, !.removals = removals, !.updates = pairs]
    <3>1. run[o].object \in ObjectState
      BY <1>1, <2>5 DEF Generate, VersionInv, RunsOK, RunFits, RunOfVersions
    <3>2. ver \in Versions
      BY <1>1, <3>1, ObjectKinds DEF SourceVersion, TypeInv, TypeOK, ObjectState
    <3>3. pairs \in SUBSET Keys /\ (pairs # {} => ListOf[ver] # <<>>)
      BY <3>1 DEF ObjectState
    <3>4. removals \in SUBSET Keys
      BY <3>3
    <3>5. run' = [run EXCEPT ![o] = r]
      BY <2>5 DEF Generate
    <3> HIDE DEF ver, pairs, removals
    <3>6. r \in RunOfVersions /\ r.ver = ver /\ r.updates = pairs
      BY <1>1, <3>2, <3>3, <3>4 DEF RunOfVersions
    <3> QED  BY <3>3, <3>5, <3>6 DEF HasEndpoints
  <2> QED  BY <2>1, <2>2, <2>3, <2>4, <2>5 DEF Start, CheckFails, CheckPasses, Finish
<1> QED  BY <1>2, <1>3, RunTyped

LEMMA RemoveTyped ==
  ASSUME TypeInv, NEW o \in Objects, NEW k \in Keys, RemoveKey(o, k)
  PROVE  TypeInv'
<1>1. /\ UNCHANGED <<version, cluster, storeVars>> /\ shown' \in [Keys -> Versions]
      /\ queue' \subseteq Objects
  BY DEF RemoveKey, Abandon, TypeInv, TypeOK
<1>2. PICK r \in RunOfVersions : run' = [run EXCEPT ![o] = r] /\ HasEndpoints(r)
  <2>1. run[o] \in RunOfVersions /\ HasEndpoints(run[o])
    BY DEF TypeInv, TypeOK, RunOfVersions
  <2>2. CASE run' = [run EXCEPT ![o].removals = @ \ {k}]
    <3> DEFINE r == [run[o] EXCEPT !.removals = @ \ {k}]
    <3>1. r \in RunOfVersions /\ HasEndpoints(r) /\ run' = [run EXCEPT ![o] = r]
      BY <2>1, <2>2 DEF RunOfVersions, HasEndpoints
    <3> QED  BY <3>1
  <2>3. CASE run' = [run EXCEPT ![o] = NoRun]
    BY <2>3, NoRunTyped
  <2> QED  BY <2>2, <2>3 DEF RemoveKey, Abandon
<1>3. TableOK'
  <2>1. TableOK
    BY DEF TypeInv, TypeOK, TableOK
  <2>2. CASE UNCHANGED table
    BY <2>1, <2>2 DEF TableOK, IsEntry
  <2>3. CASE T!Withdraw(k)
    BY <2>1, <2>3 DEF T!Withdraw, TableOK, IsEntry
  <2>4. CASE T!FailToWithdraw(k)
    <3>1. IsEntry(table[k]) /\ table' = [table EXCEPT ![k].eps = <<>>]
      BY <2>1, <2>4 DEF T!FailToWithdraw, TableOK
    <3> DEFINE e == [table[k] EXCEPT !.eps = <<>>]
    <3>2. IsEntry(e) /\ table' = [table EXCEPT ![k] = e]
      BY <3>1 DEF IsEntry
    <3> HIDE DEF e
    <3> QED  BY <2>1, <3>2 DEF TableOK, IsEntry
  <2> QED  BY <2>2, <2>3, <2>4 DEF RemoveKey
<1> QED  BY <1>1, <1>2, <1>3, RunTyped

LEMMA UpdateTyped ==
  ASSUME TypeInv, NEW o \in Objects, NEW k \in Keys, UpdateKey(o, k)
  PROVE  TypeInv'
<1>1. run[o] \in RunOfVersions /\ HasEndpoints(run[o]) /\ k \in run[o].updates
  BY DEF TypeInv, TypeOK, RunOfVersions, UpdateKey
<1>2. run[o].ver \in Versions /\ ListOf[run[o].ver] # <<>>
  BY <1>1 DEF RunOfVersions, HasEndpoints
<1>3. /\ UNCHANGED <<version, cluster, storeVars>> /\ shown' \in [Keys -> Versions]
      /\ queue' \subseteq Objects
  BY <1>2 DEF UpdateKey, Abandon, TypeInv, TypeOK
<1>4. PICK r \in RunOfVersions : run' = [run EXCEPT ![o] = r] /\ HasEndpoints(r)
  <2>1. CASE run' = [run EXCEPT ![o].updates = @ \ {k}]
    <3> DEFINE r == [run[o] EXCEPT !.updates = @ \ {k}]
    <3>1. r \in RunOfVersions /\ HasEndpoints(r) /\ run' = [run EXCEPT ![o] = r]
      BY <1>1, <2>1 DEF RunOfVersions, HasEndpoints
    <3> QED  BY <3>1
  <2>2. CASE run' = [run EXCEPT ![o] = NoRun]
    BY <2>2, NoRunTyped
  <2> QED  BY <2>1, <2>2 DEF UpdateKey, Abandon
<1>5. TableOK'
  <2> DEFINE list == ListOf[run[o].ver]
  <2>1. TableOK
    BY DEF TypeInv, TypeOK, TableOK
  <2>2. CASE T!Publish(k, list)
    <3> DEFINE e == [capacity |-> Len(list), eps |-> list]
    <3>1. Len(list) > 0 /\ list = T!Clip(list, Len(list))
      BY <1>2, ListFacts
    <3>2. IsEntry(e)
      BY <1>2, <3>1 DEF IsEntry
    <3>3. table' = [table EXCEPT ![k] = e]
      BY <2>2 DEF T!Publish
    <3> HIDE DEF e
    <3> QED  BY <2>1, <3>2, <3>3 DEF TableOK, IsEntry
  <2>3. CASE T!Replace(k, list)
    <3> DEFINE e == [table[k] EXCEPT !.eps = T!Clip(list, table[k].capacity)]
    <3>1. IsEntry(table[k])
      BY <2>1, <2>3 DEF T!Replace, TableOK
    <3>2. /\ DOMAIN e = {"capacity", "eps"} /\ e.capacity = table[k].capacity
          /\ e.eps = T!Clip(list, table[k].capacity)
      BY <3>1 DEF IsEntry
    <3>3. table' = [table EXCEPT ![k] = e]
      BY <2>3 DEF T!Replace
    <3> HIDE DEF e
    <3>4. IsEntry(e)
      BY <1>2, <3>1, <3>2 DEF IsEntry
    <3> QED  BY <2>1, <3>3, <3>4 DEF TableOK, IsEntry
  <2> QED  BY <2>2, <2>3 DEF UpdateKey
<1> QED  BY <1>3, <1>4, <1>5, RunTyped

LEMMA TypeNext == TypeInv /\ VersionInv /\ [Next]_vars => TypeInv'
<1> SUFFICES ASSUME TypeInv, VersionInv, [Next]_vars PROVE TypeInv'
  OBVIOUS
<1>1. CASE UNCHANGED vars
  BY <1>1 DEF vars, storeVars, TypeInv, TypeOK, IsEntry, HasEndpoints
<1>2. CASE ClusterChange \/ Sync
  BY <1>2, ClusterTyped, SyncTyped
<1>3. ASSUME NEW o \in Objects, Reconcile(o) PROVE TypeInv'
  BY <1>3, QuietTyped, RemoveTyped, UpdateTyped DEF Reconcile
<1> QED  BY <1>1, <1>2, <1>3 DEF Next

(* No key is ever given an entry without capacity, or without endpoints    *)
(* but by a removal that failed; for any objects, keys, lists and versions *)
(* (state.rs:40-114 as controller.rs:60-159 calls it).                     *)
THEOREM TableCorrect == Spec => []TypeOK
<1>1. TypeInv => TypeOK
  BY DEF TypeInv
<1> QED  BY <1>1, TypeInit, TypeNext, VersionInvariant, PTL DEF Spec
-----------------------------------------------------------------------------
(***************************************************************************)
(* The lists of endpoints that the versions above stand for, of module     *)
(* MeshEndpointSpec.  They are made by loops over lists; a list lists a    *)
(* set if its positions and the set are in a bijection, and a loop over a  *)
(* list of a set lists what it pushes for each element of the set.         *)
(***************************************************************************)
(* s lists the set S: each x in S once, as the value v[x].                 *)
Listing(s, S, v) ==
  /\ IsList(s)
  /\ \E b \in Bijection(DOMAIN s, S) : \A n \in DOMAIN s : s[n] = v[b[n]]

(* A list for each position of another.                                    *)
ListPer(s, ss) == ss = [n \in DOMAIN s |-> ss[n]]

(* Unions, counts and images.                                              *)
AllOf(W, I) == UNION {W[i] : i \in I}
CountOf(v, S, e) == Cardinality({x \in S : v[x] = e})
ImageOf(f, I) == {f[i] : i \in I}

(* Numbers are well-founded; this is what inductions over lists rest on.   *)
LEMMA LeastNumber ==
  ASSUME NEW N \in SUBSET Nat, N # {}
  PROVE  \E n \in N : \A m \in 0 .. n - 1 : m \notin N
<1>1. PICK n \in N : \A m \in N : ~(<<m, n>> \in OpToRel(<, Nat))
  BY NatLessThanWellFounded, WFMin
<1>2. \A m \in 0 .. n - 1 : m \in N => <<m, n>> \in OpToRel(<, Nat)
  BY DEF OpToRel
<1> QED  BY <1>1, <1>2

(* What a list is.                                                         *)
LEMMA IsListFacts ==
  /\ \A s, V : s \in Seq(V) => IsList(s)
  /\ \A s : IsList(s) => Len(s) \in Nat /\ DOMAIN s = 1 .. Len(s)
<1>1. ASSUME NEW V, NEW s \in Seq(V) PROVE IsList(s)
  <2>1. s \in [1 .. Len(s) -> V] /\ Len(s) \in Nat
    OBVIOUS
  <2>2. s \in [1 .. Len(s) -> {s[n] : n \in DOMAIN s}]
    BY <2>1
  <2> QED BY <2>1, <2>2 DEF IsList
<1>2. ASSUME NEW s, IsList(s) PROVE Len(s) \in Nat /\ DOMAIN s = 1 .. Len(s)
  BY <1>2, LenProperties DEF IsList
<1> QED  BY <1>1, <1>2

(* Concatenation of two lists.                                             *)
LEMMA ConcatFacts ==
  ASSUME NEW s, NEW t, IsList(s), IsList(t)
  PROVE  /\ IsList(s \o t)
         /\ Len(s \o t) = Len(s) + Len(t)
         /\ \A n \in 1 .. Len(s) : (s \o t)[n] = s[n]
         /\ \A n \in 1 .. Len(t) : (s \o t)[Len(s) + n] = t[n]
<1> DEFINE V == {s[n] : n \in DOMAIN s} \union {t[n] : n \in DOMAIN t}
<1>1. s \in Seq(V) /\ t \in Seq(V)
  BY SeqMonotonic DEF IsList
<1>2. s \o t \in Seq(V)
  BY <1>1
<1>3. Len(s) \in Nat /\ Len(t) \in Nat
  BY IsListFacts
<1>4. IsList(s \o t)
  BY <1>2, IsListFacts
<1>5. /\ Len(s \o t) = Len(s) + Len(t)
      /\ \A n \in 1 .. Len(s) + Len(t) : (s \o t)[n] = IF n <= Len(s) THEN s[n] ELSE t[n - Len(s)]
  <2> HIDE DEF V
  <2> QED  BY <1>1, ConcatProperties
<1> QED  BY <1>3, <1>4, <1>5

(* What the listings are made of: nothing, a single element, a list by its *)
(* positions, and two listings of disjoint sets.                           *)
LEMMA EmptyListing == \A v : Listing(<<>>, {}, v)
<1> SUFFICES ASSUME NEW v PROVE Listing(<<>>, {}, v)
  OBVIOUS
<1>1. <<>> \in Seq({}) /\ DOMAIN <<>> = {}
  OBVIOUS
<1>2. <<>> \in Bijection({}, {})
  BY DEF Bijection, Injection, Surjection, IsInjective
<1> QED  BY <1>1, <1>2, IsListFacts DEF Listing

LEMMA SingleListing == \A x, v : Listing(<<v[x]>>, {x}, v)
<1> SUFFICES ASSUME NEW x, NEW v PROVE Listing(<<v[x]>>, {x}, v)
  OBVIOUS
<1>1. <<v[x]>> \in Seq({v[x]}) /\ DOMAIN <<v[x]>> = {1}
  OBVIOUS
<1> DEFINE b == [n \in {1} |-> x]
<1>2. b \in Bijection({1}, {x}) /\ <<v[x]>>[1] = v[b[1]]
  BY DEF Bijection, Injection, Surjection, IsInjective
<1> QED  BY <1>1, <1>2, IsListFacts DEF Listing

LEMMA WholeListing == ASSUME NEW s, IsList(s) PROVE Listing(s, DOMAIN s, s)
<1> DEFINE b == [n \in DOMAIN s |-> n]
<1>1. b \in Bijection(DOMAIN s, DOMAIN s)
  BY DEF Bijection, Injection, Surjection, IsInjective
<1> QED  BY <1>1 DEF Listing

LEMMA ConcatListing ==
  ASSUME NEW s, NEW t, NEW S, NEW R, NEW v, Listing(s, S, v), Listing(t, R, v), S \intersect R = {}
  PROVE  Listing(s \o t, S \union R, v)
<1>1. PICK b \in Bijection(DOMAIN s, S) : \A n \in DOMAIN s : s[n] = v[b[n]]
  BY DEF Listing
<1>2. PICK c \in Bijection(DOMAIN t, R) : \A n \in DOMAIN t : t[n] = v[c[n]]
  BY DEF Listing
<1> DEFINE k == Len(s)
           l == Len(t)
           d == [n \in 1 .. k + l |-> IF n <= k THEN b[n] ELSE c[n - k]]
<1>3. k \in Nat /\ l \in Nat /\ DOMAIN s = 1 .. k /\ DOMAIN t = 1 .. l
  BY IsListFacts DEF Listing
<1>4. /\ IsList(s \o t) /\ DOMAIN (s \o t) = 1 .. k + l
      /\ \A n \in 1 .. k : (s \o t)[n] = s[n]
      /\ \A n \in 1 .. l : (s \o t)[k + n] = t[n]
  BY ConcatFacts, IsListFacts DEF Listing
<1>5. /\ b \in [1 .. k -> S] /\ \A m, n \in 1 .. k : b[m] = b[n] => m = n
      /\ \A x \in S : \E n \in 1 .. k : b[n] = x
  BY <1>1, <1>3 DEF Bijection, Injection, Surjection, IsInjective
<1>6. /\ c \in [1 .. l -> R] /\ \A m, n \in 1 .. l : c[m] = c[n] => m = n
      /\ \A x \in R : \E n \in 1 .. l : c[n] = x
  BY <1>2, <1>3 DEF Bijection, Injection, Surjection, IsInjective
<1>7. \A n \in 1 .. k + l : n <= k \/ n - k \in 1 .. l
  BY <1>3
<1> HIDE DEF k, l
<1>8. /\ \A n \in 1 .. k : n \in 1 .. k + l /\ d[n] = b[n]
      /\ \A n \in 1 .. l : k + n \in 1 .. k + l /\ d[k + n] = c[n]
  BY <1>3
<1>9. d \in [1 .. k + l -> S \union R]
  BY <1>3, <1>5, <1>6, <1>7
<1>10. \A m, n \in 1 .. k + l : d[m] = d[n] => m = n
  <2> SUFFICES ASSUME NEW m \in 1 .. k + l, NEW n \in 1 .. k + l, d[m] = d[n] PROVE m = n
    OBVIOUS
  <2>1. CASE m <= k /\ n <= k
    BY <1>3, <1>5, <2>1
  <2>2. CASE ~(m <= k) /\ ~(n <= k)
    <3>1. m - k \in 1 .. l /\ n - k \in 1 .. l /\ c[m - k] = c[n - k]
      BY <1>7, <2>2
    <3>2. m - k = n - k
      BY <1>6, <3>1
    <3> QED  BY <1>3, <3>2
  <2>3. CASE m <= k /\ ~(n <= k)
    BY <1>3, <1>5, <1>6, <1>7, <2>3
  <2>4. CASE ~(m <= k) /\ n <= k
    BY <1>3, <1>5, <1>6, <1>7, <2>4
  <2> QED  BY <2>1, <2>2, <2>3, <2>4
<1>11. \A x \in S \union R : \E n \in 1 .. k + l : d[n] = x
  <2> HIDE DEF d
  <2>1. ASSUME NEW x \in S PROVE \E n \in 1 .. k + l : d[n] = x
    BY <1>5, <1>8
  <2>2. ASSUME NEW x \in R PROVE \E n \in 1 .. k + l : d[n] = x
    BY <1>6, <1>8
  <2> QED  BY <2>1, <2>2
<1>12. d \in Bijection(1 .. k + l, S \union R)
  BY <1>9, <1>10, <1>11 DEF Bijection, Injection, Surjection, IsInjective
<1>13. \A n \in 1 .. k + l : (s \o t)[n] = v[d[n]]
  <2> SUFFICES ASSUME NEW n \in 1 .. k + l PROVE (s \o t)[n] = v[d[n]]
    OBVIOUS
  <2>1. CASE n <= k
    BY <1>1, <1>3, <1>4, <1>8, <2>1
  <2>2. CASE ~(n <= k)
    <3>1. PICK m \in 1 .. l : n = k + m
      BY <1>3, <1>7, <2>2
    <3> QED  BY <1>2, <1>3, <1>4, <1>8, <3>1
  <2> QED  BY <2>1, <2>2
<1> QED  BY <1>4, <1>12, <1>13 DEF Listing

(* The concatenations of the first lists, one after the other.             *)
IsFlat(ss, f, n) == f = [i \in 1 .. n |-> IF i = 1 THEN ss[i] ELSE f[i - 1] \o ss[i]]

(* The function that FlattenSeq chooses exists.                            *)
LEMMA FlatExists == ASSUME NEW ss, NEW n \in Nat PROVE \E f : IsFlat(ss, f, n)
<1> DEFINE N == {m \in Nat : ~\E f : IsFlat(ss, f, m)}
<1> SUFFICES ASSUME N # {} PROVE FALSE
  OBVIOUS
<1>1. PICK m \in N : \A k \in 0 .. m - 1 : k \notin N
  BY LeastNumber
<1>2. CASE m = 0
  <2> DEFINE f == [i \in 1 .. 0 |-> i]
  <2>1. IsFlat(ss, f, 0)
    BY DEF IsFlat
  <2> QED  BY <1>1, <1>2, <2>1
<1>3. CASE m # 0
  <2>1. m - 1 \in 0 .. m - 1 /\ m \in Nat
    BY <1>1, <1>3
  <2>2. PICK f : IsFlat(ss, f, m - 1)
    BY <1>1, <2>1
  <2> DEFINE g == [i \in 1 .. m |-> IF i < m THEN f[i] ELSE IF i = 1 THEN ss[i] ELSE f[i - 1] \o ss[i]]
  <2>3. \A i \in 1 .. m - 1 : f[i] = IF i = 1 THEN ss[i] ELSE f[i - 1] \o ss[i]
    BY <2>2 DEF IsFlat
  <2>4. \A i \in 1 .. m : g[i] = IF i = 1 THEN ss[i] ELSE g[i - 1] \o ss[i]
    <3> SUFFICES ASSUME NEW i \in 1 .. m PROVE g[i] = IF i = 1 THEN ss[i] ELSE g[i - 1] \o ss[i]
      OBVIOUS
    <3>1. i # 1 => i - 1 \in 1 .. m /\ i - 1 < m
      BY <2>1
    <3>2. i # 1 => g[i - 1] = f[i - 1]
      BY <3>1
    <3>3. i < m => i \in 1 .. m - 1
      BY <2>1
    <3> QED  BY <2>3, <3>2, <3>3
  <2>5. IsFlat(ss, g, m)
    <3>1. g = [i \in 1 .. m |-> g[i]]
      OBVIOUS
    <3> HIDE DEF g
    <3> QED  BY <2>4, <3>1 DEF IsFlat
  <2> HIDE DEF g
  <2> QED  BY <1>1, <2>5
<1> QED  BY <1>2, <1>3

LEMMA FlattenDef ==
  ASSUME NEW ss, Len(ss) \in Nat \ {0}
  PROVE  \E f : IsFlat(ss, f, Len(ss)) /\ FlattenSeq(ss) = f[Len(ss)]
<1> DEFINE f == CHOOSE g : IsFlat(ss, g, Len(ss))
<1>1. IsFlat(ss, f, Len(ss))
  BY FlatExists
<1>2. FlattenSeq(ss) = f[Len(ss)]
  BY DEF FlattenSeq, IsFlat
<1> QED  BY <1>1, <1>2

(* Listings of disjoint sets, flattened, list their union.                 *)
LEMMA FlattenListing ==
  ASSUME NEW ss, NEW n \in Nat, DOMAIN ss = 1 .. n, ss = [i \in 1 .. n |-> ss[i]],
         NEW W, NEW v,
         \A i \in 1 .. n : Listing(ss[i], W[i], v),
         \A i, j \in 1 .. n : i # j => W[i] \intersect W[j] = {}
  PROVE  Listing(FlattenSeq(ss), AllOf(W, 1 .. n), v)
<1>1. Len(ss) = n
  <2> DEFINE V == {ss[j] : j \in 1 .. n}
  <2>1. ss \in [1 .. n -> V]
    OBVIOUS
  <2> HIDE DEF V
  <2>2. ss \in Seq(V)
    BY <2>1, SeqDef
  <2> QED  BY <2>1, <2>2, LenProperties
<1>2. CASE n = 0
  <2>1. ss = <<>>
    BY <1>2
  <2>2. FlattenSeq(ss) = <<>>
    BY <1>1, <1>2, <2>1 DEF FlattenSeq
  <2>3. AllOf(W, 1 .. n) = {}
    BY <1>2 DEF AllOf
  <2> QED  BY <2>2, <2>3, EmptyListing
<1>3. CASE n # 0
  <2>1. PICK f : IsFlat(ss, f, n) /\ FlattenSeq(ss) = f[n]
    BY <1>1, <1>3, FlattenDef
  <2>2. \A i \in 1 .. n : f[i] = IF i = 1 THEN ss[i] ELSE f[i - 1] \o ss[i]
    BY <2>1 DEF IsFlat
  <2> DEFINE U(m) == AllOf(W, 1 .. m)
             N == {m \in 1 .. n : ~Listing(f[m], U(m), v)}
  <2>3. ASSUME N # {} PROVE FALSE
    <3>1. PICK m \in N : \A k \in 0 .. m - 1 : k \notin N
      <4>1. N \in SUBSET Nat
        OBVIOUS
      <4> HIDE DEF N
      <4> QED  BY <2>3, <4>1, LeastNumber
    <3>2. CASE m = 1
      <4>1. U(1) = W[1] /\ f[1] = ss[1]
        BY <1>3, <2>2 DEF AllOf
      <4> QED  BY <1>3, <3>1, <3>2, <4>1
    <3>3. CASE m # 1
      <4>1. m - 1 \in 1 .. n /\ m \in 1 .. n /\ m - 1 \in 0 .. m - 1
        BY <3>1, <3>3
      <4>2. Listing(f[m - 1], U(m - 1), v) /\ Listing(ss[m], W[m], v)
        BY <3>1, <4>1
      <4>3. U(m - 1) \intersect W[m] = {} /\ U(m) = U(m - 1) \union W[m]
        <5>1. 1 .. m = 1 .. m - 1 \union {m} /\ m \notin 1 .. m - 1 /\ 1 .. m - 1 \subseteq 1 .. n
          BY <4>1
        <5> QED  BY <4>1, <5>1 DEF AllOf
      <4>4. f[m] = f[m - 1] \o ss[m]
        BY <2>2, <3>3, <4>1
      <4>5. Listing(f[m - 1] \o ss[m], U(m - 1) \union W[m], v)
        <5> HIDE DEF U
        <5> QED  BY <4>2, <4>3, ConcatListing
      <4> QED  BY <3>1, <4>3, <4>4, <4>5
    <3> QED  BY <3>2, <3>3
  <2>4. n \in 1 .. n
    BY <1>3
  <2>5. Listing(f[n], U(n), v)
    BY <2>3, <2>4
  <2> QED  BY <2>1, <2>5
<1> QED  BY <1>2, <1>3

(* A loop over a listing of S that pushes, for each x, a listing of W[x].  *)
LEMMA LoopListing ==
  ASSUME NEW s, NEW S, NEW v, Listing(s, S, v),
         NEW ss, ListPer(s, ss), NEW W, NEW u,
         \A n \in DOMAIN s, x \in S : s[n] = v[x] => Listing(ss[n], W[x], u),
         \A x, y \in S : x # y => W[x] \intersect W[y] = {}
  PROVE  Listing(FlattenSeq(ss), AllOf(W, S), u)
<1>1. PICK b \in Bijection(DOMAIN s, S) : \A n \in DOMAIN s : s[n] = v[b[n]]
  BY DEF Listing
<1>2. Len(s) \in Nat /\ DOMAIN s = 1 .. Len(s)
  BY IsListFacts DEF Listing
<1>3. /\ b \in [DOMAIN s -> S] /\ \A m, n \in DOMAIN s : b[m] = b[n] => m = n
      /\ \A x \in S : \E n \in DOMAIN s : b[n] = x
  BY <1>1 DEF Bijection, Injection, Surjection, IsInjective
<1> DEFINE X == [n \in DOMAIN s |-> W[b[n]]]
<1>4. \A n \in 1 .. Len(s) : Listing(ss[n], X[n], u)
  BY <1>1, <1>2, <1>3
<1>5. \A m, n \in 1 .. Len(s) : m # n => X[m] \intersect X[n] = {}
  BY <1>2, <1>3
<1>6. DOMAIN ss = 1 .. Len(s) /\ ss = [n \in 1 .. Len(s) |-> ss[n]]
  BY <1>2 DEF ListPer
<1>7. AllOf(X, 1 .. Len(s)) = AllOf(W, S)
  BY <1>2, <1>3 DEF AllOf
<1> HIDE DEF X
<1>8. Listing(FlattenSeq(ss), AllOf(X, 1 .. Len(s)), u)
  BY <1>2, <1>4, <1>5, <1>6, FlattenListing
<1> QED  BY <1>7, <1>8

(* A loop that pushes one element, or none for what is not in P.           *)
LEMMA FilterListing ==
  ASSUME NEW s, NEW S, NEW v, Listing(s, S, v),
         NEW ss, ListPer(s, ss), NEW P, P \subseteq S, NEW f, NEW u,
         \A n \in DOMAIN s, x \in P : s[n] = v[x] => ss[n] = <<u[f[x]]>>,
         \A n \in DOMAIN s, x \in S \ P : s[n] = v[x] => ss[n] = <<>>,
         \A x, y \in P : f[x] = f[y] => x = y
  PROVE  Listing(FlattenSeq(ss), ImageOf(f, P), u)
<1> DEFINE W == [x \in S |-> IF x \in P THEN {f[x]} ELSE {}]
<1>1. ASSUME NEW n \in DOMAIN s, NEW x \in S, s[n] = v[x] PROVE Listing(ss[n], W[x], u)
  <2>1. CASE x \in P
    <3>1. ss[n] = <<u[f[x]]>> /\ W[x] = {f[x]}
      BY <1>1, <2>1
    <3>2. Listing(<<u[f[x]]>>, {f[x]}, u)
      BY SingleListing
    <3> HIDE DEF W
    <3> QED  BY <3>1, <3>2
  <2>2. CASE x \notin P
    <3>1. ss[n] = <<>> /\ W[x] = {}
      BY <1>1, <2>2
    <3> QED  BY <3>1, EmptyListing
  <2> QED  BY <2>1, <2>2
<1>2. \A x, y \in S : x # y => W[x] \intersect W[y] = {}
  OBVIOUS
<1>3. AllOf(W, S) = ImageOf(f, P)
  BY DEF AllOf, ImageOf
<1>4. Listing(FlattenSeq(ss), AllOf(W, S), u)
  <2> HIDE DEF W
  <2> QED  BY <1>1, <1>2, LoopListing
<1> QED  BY <1>3, <1>4

(* A listing has the length of the set, and every value as often.          *)
LEMMA ListingCounts ==
  ASSUME NEW s, NEW S, NEW v, Listing(s, S, v)
  PROVE  /\ Len(s) = Cardinality(S)
         /\ \A n \in DOMAIN s : \E x \in S : s[n] = v[x]
         /\ \A x \in S : \E n \in DOMAIN s : s[n] = v[x]
         /\ \A e : CountOf(s, DOMAIN s, e) = CountOf(v, S, e)
<1>1. PICK b \in Bijection(DOMAIN s, S) : \A n \in DOMAIN s : s[n] = v[b[n]]
  BY DEF Listing
<1>2. Len(s) \in Nat /\ DOMAIN s = 1 .. Len(s)
  BY IsListFacts DEF Listing
<1>3. /\ b \in [DOMAIN s -> S] /\ \A m, n \in DOMAIN s : b[m] = b[n] => m = n
      /\ \A x \in S : \E n \in DOMAIN s : b[n] = x
  BY <1>1 DEF Bijection, Injection, Surjection, IsInjective
<1>4. IsFiniteSet(DOMAIN s) /\ Cardinality(DOMAIN s) = Len(s)
  <2>1. \A n \in Nat : IsFiniteSet(1 .. n) /\ Cardinality(1 .. n) = n
    BY FS_Interval
  <2> QED  BY <1>2, <2>1
<1>5. Cardinality(S) = Cardinality(DOMAIN s)
  BY <1>1, <1>4, FS_Bijection DEF ExistsBijection
<1>6. /\ \A n \in DOMAIN s : \E x \in S : s[n] = v[x]
      /\ \A x \in S : \E n \in DOMAIN s : s[n] = v[x]
  BY <1>1, <1>3
<1>7. ASSUME NEW e
      PROVE  CountOf(s, DOMAIN s, e) = CountOf(v, S, e)
  <2> DEFINE M == {n \in DOMAIN s : s[n] = e}
             X == {x \in S : v[x] = e}
             c == [n \in M |-> b[n]]
  <2>1. c \in [M -> X]
    BY <1>1, <1>3
  <2>2. \A m, n \in M : c[m] = c[n] => m = n
    BY <1>3
  <2>3. \A x \in X : \E n \in M : c[n] = x
    BY <1>1, <1>3
  <2>4. c \in Bijection(M, X)
    BY <2>1, <2>2, <2>3 DEF Bijection, Injection, Surjection, IsInjective
  <2>5. IsFiniteSet(M)
    BY <1>4, FS_Subset
  <2> QED  BY <2>4, <2>5, FS_Bijection DEF ExistsBijection, CountOf
<1> QED  BY <1>4, <1>5, <1>6, <1>7

PortList(ports) == IsList(ports) /\ \A n \in DOMAIN ports : ports[n].port \in {Absent} \union Int

(* A Service and a store as the API server has them.                       *)
Inputs(svc, store) ==
  /\ IsList(svc.ips) /\ IsList(svc.ports) /\ IsList(store)
  /\ \A s \in DOMAIN store :
       /\ IsList(store[s].endpoints) /\ store[s].own \in BOOLEAN
       /\ store[s].ports # Absent => PortList(store[s].ports)
       /\ \A e \in DOMAIN store[s].endpoints :
            /\ IsList(store[s].endpoints[e].addresses)
            /\ store[s].endpoints[e].conditions \in [ready : Flags, terminating : Flags] \union {Absent}

(* By the assumptions on the lists.                                        *)
LEMMA InputsFit ==
  ASSUME NEW svc \in ServiceInputs, NEW store \in StoreInputs
  PROVE  Inputs(svc, store)
<1>1. IsList(svc.ips) /\ IsList(svc.ports)
  BY ListsAreLists DEF ServiceInputs
<1>2. PICK n \in Nat : store \in [1 .. n -> SliceInputs]
  BY SlicesAreBounded DEF StoreInputs, BoundedSeq, SeqOf
<1>3. IsList(store)
  <2>1. store \in Seq(SliceInputs)
    BY <1>2
  <2> QED  BY <2>1, IsListFacts
<1>4. \A s \in DOMAIN store : store[s] \in SliceInputs
  BY <1>2
<1>5. ASSUME NEW s \in DOMAIN store
      PROVE  /\ IsList(store[s].endpoints) /\ store[s].own \in BOOLEAN
             /\ store[s].ports # Absent => PortList(store[s].ports)
             /\ \A e \in DOMAIN store[s].endpoints :
                  /\ IsList(store[s].endpoints[e].addresses)
                  /\ store[s].endpoints[e].conditions \in [ready : Flags, terminating : Flags] \union {Absent}
  <2>1. /\ store[s].own \in BOOLEAN /\ store[s].ports \in SlicePortLists
        /\ store[s].endpoints \in EndpointLists
    BY <1>4 DEF SliceInputs
  <2> QED  BY <2>1, ListsAreLists, KindsOfConditions, PortsAreNumbers DEF PortList
<1> QED  BY <1>1, <1>3, <1>5 DEF Inputs

-----------------------------------------------------------------------------
(* Addresses that parse, under names of the caller's choice.               *)
LEMMA ParsedListing ==
  ASSUME NEW list, IsList(list), NEW P, P = {n \in DOMAIN list : list[n] \in Addresses},
         NEW f, NEW u, \A n \in P : u[f[n]] = list[n], \A m, n \in P : f[m] = f[n] => m = n
  PROVE  Listing(Parsed(list), ImageOf(f, P), u)
<1> DEFINE ss == [n \in DOMAIN list |-> Only(list[n] \in Addresses, list[n])]
<1>1. Parsed(list) = FlattenSeq(ss)
  BY DEF Parsed, ForEach
<1>2. Listing(list, DOMAIN list, list) /\ P \subseteq DOMAIN list
  BY WholeListing
<1>3. /\ ListPer(list, ss)
      /\ \A n \in DOMAIN list, x \in P : list[n] = list[x] => ss[n] = <<u[f[x]]>>
      /\ \A n \in DOMAIN list, x \in DOMAIN list \ P : list[n] = list[x] => ss[n] = <<>>
  BY DEF Only, ListPer
<1> HIDE DEF ss
<1>4. Listing(FlattenSeq(ss), ImageOf(f, P), u)
  BY <1>2, <1>3, FilterListing
<1> QED  BY <1>1, <1>4

(* Which endpoints of a slice are used.                                    *)
LEMMA ServesReady ==
  ASSUME NEW e, e.conditions \in [ready : Flags, terminating : Flags] \union {Absent}, NEW a
  PROVE  Serves(e, a) <=> a \in Addresses /\ e.conditions # Absent /\ EndpointReady(e.conditions)
<1>1. CASE e.conditions = Absent
  BY <1>1 DEF Serves
<1>2. CASE e.conditions # Absent
  <2>1. e.conditions.ready \in Flags /\ e.conditions.terminating \in Flags
    BY <1>2
  <2> DEFINE r == e.conditions.ready
             t == e.conditions.terminating
  <2>2. (r # FALSE <=> r \in {TRUE, Absent}) /\ (t # TRUE <=> t \in {FALSE, Absent})
    BY <2>1, AbsentIsNoValue DEF Flags
  <2> QED  BY <1>2, <2>2 DEF Serves, EndpointReady
<1> QED  BY <1>1, <1>2

(* The port of a slice that a port of the Service is sent to.              *)
HasPort(slice, q) == slice.ports # Absent /\ \E n \in DOMAIN slice.ports : IsPortFor(slice.ports, q, n)
PortIn(slice, q)  ==
  U16(slice.ports[CHOOSE n \in DOMAIN slice.ports : IsPortFor(slice.ports, q, n)].port)

Named(q) ==
  [name |-> IF q.name = Absent THEN "" ELSE q.name, port |-> U16(q.port), protocol |-> q.protocol]

(* What a cast makes of a number is a port, and so not absent.             *)
LEMMA CastFacts ==
  ASSUME NEW n \in Int
  PROVE  U16(n) \in U16s /\ U16(n) # Absent
<1>1. U16(n) \in U16s
  BY DEF U16, U16s
<1> QED  BY <1>1, AbsentIsNoValue

(* The first port that fits is the only one IsPortFor holds of.            *)
LEMMA FirstPort ==
  ASSUME NEW slice, slice.ports # Absent => PortList(slice.ports), NEW q
  PROVE  /\ BackendPort(slice, Named(q).name, Named(q).protocol) # Absent <=> HasPort(slice, q)
         /\ HasPort(slice, q) => BackendPort(slice, Named(q).name, Named(q).protocol) = PortIn(slice, q)
<1> DEFINE ports == slice.ports
           Fits(n) == Same(ports[n], q) /\ ports[n].port # Absent
           found == {n \in DOMAIN ports : Fits(n)}
           port == BackendPort(slice, Named(q).name, Named(q).protocol)
<1>1. CASE ports = Absent
  BY <1>1 DEF BackendPort, HasPort
<1>2. CASE ports # Absent
  <2>1. DOMAIN ports = 1 .. Len(ports) /\ Len(ports) \in Nat /\ found \in SUBSET Nat
    BY <1>2, IsListFacts DEF PortList
  <2>2. port = IF found = {} THEN Absent ELSE U16(ports[Min(found)].port)
    <3>1. \A n \in DOMAIN ports :
            Fits(n) <=> /\ ports[n].name = Named(q).name /\ ports[n].port # Absent
                        /\ KubeProto(ports[n].protocol) = Named(q).protocol
      BY DEF Named, Same
    <3>2. found = {n \in DOMAIN ports : /\ ports[n].name = Named(q).name /\ ports[n].port # Absent
                                        /\ KubeProto(ports[n].protocol) = Named(q).protocol}
      BY <3>1
    <3> HIDE DEF found
    <3> QED  BY <1>2, <3>2 DEF BackendPort
  <2>3. \A n \in DOMAIN ports :
          IsPortFor(ports, q, n) <=> n \in found /\ \A m \in 1 .. n - 1 : m \notin found
    BY <2>1 DEF IsPortFor
  <2>4. CASE found = {}
    BY <2>2, <2>3, <2>4 DEF HasPort
  <2>5. CASE found # {}
    <3>1. PICK n \in found : \A m \in 0 .. n - 1 : m \notin found
      <4> HIDE DEF found
      <4> QED  BY <2>1, <2>5, LeastNumber
    <3>2. \A m \in found : n <= m
      BY <2>1, <3>1
    <3>3. Min(found) = n
      <4> HIDE DEF found
      <4>1. Min(found) \in found /\ \A m \in found : Min(found) <= m
        BY <3>1, <3>2 DEF Min
      <4>2. Min(found) \in Nat /\ n \in Nat /\ Min(found) <= n /\ n <= Min(found)
        BY <2>1, <3>1, <3>2, <4>1
      <4> QED  BY <4>2
    <3>4. n \in DOMAIN ports /\ IsPortFor(ports, q, n)
      BY <2>1, <2>3, <3>1
    <3>5. ASSUME NEW m \in DOMAIN ports, IsPortFor(ports, q, m) PROVE m = n
      BY <2>1, <2>3, <3>1, <3>2, <3>5
    <3>6. PortIn(slice, q) = U16(ports[n].port)
      BY <3>4, <3>5 DEF PortIn
    <3>7. U16(ports[n].port) # Absent
      <4>1. ports[n].port # Absent /\ ports[n].port \in {Absent} \union Int
        BY <1>2, <3>1 DEF PortList
      <4> QED  BY <4>1, CastFacts
    <3> QED  BY <1>2, <2>2, <2>5, <3>3, <3>4, <3>6, <3>7 DEF HasPort
  <2> QED  BY <2>4, <2>5
<1> QED  BY <1>1, <1>2

KnownPorts(svc) == {q \in DOMAIN svc.ports : svc.ports[q].protocol \in Protocols}
PortOf(svc) == [q \in DOMAIN svc.ports |-> Named(svc.ports[q])]

(* The ports of the Service that are kept.                                 *)
LEMMA PortsListing ==
  ASSUME NEW svc, IsList(svc.ports)
  PROVE  Listing(ServicePorts(svc), KnownPorts(svc), PortOf(svc))
<1> DEFINE ss == [n \in DOMAIN svc.ports |-> Only(svc.ports[n].protocol \in Protocols, Named(svc.ports[n]))]
           f == [q \in DOMAIN svc.ports |-> q]
           P == KnownPorts(svc)
<1>1. ServicePorts(svc) = FlattenSeq(ss)
  BY DEF ServicePorts, ForEach, Named
<1>2. /\ Listing(svc.ports, DOMAIN svc.ports, svc.ports) /\ P \subseteq DOMAIN svc.ports
      /\ ImageOf(f, P) = P
  BY WholeListing DEF KnownPorts, ImageOf
<1>3. /\ ListPer(svc.ports, ss)
      /\ \A n \in DOMAIN svc.ports, x \in P : svc.ports[n] = svc.ports[x] => ss[n] = <<PortOf(svc)[f[x]]>>
      /\ \A n \in DOMAIN svc.ports, x \in DOMAIN svc.ports \ P : svc.ports[n] = svc.ports[x] => ss[n] = <<>>
      /\ \A x, y \in P : f[x] = f[y] => x = y
  BY DEF Only, ListPer, KnownPorts, PortOf
<1> HIDE DEF ss, f
<1>4. Listing(FlattenSeq(ss), ImageOf(f, P), PortOf(svc))
  <2> HIDE DEF P
  <2> QED  BY <1>2, <1>3, FilterListing
<1> QED  BY <1>1, <1>2, <1>4

AddressOf(store) == [at \in Places(store) |-> AddressAt(store, at)]

(* The places in a slice that connections may go to.                       *)
ReadyPlaces(store, s) ==
  {at \in Places(store) : at[1] = s /\ Serves(EndpointAt(store, at), AddressAt(store, at))}

(* Places are triples of a slice, an endpoint and an address.              *)
LEMMA PlaceFacts ==
  ASSUME NEW store
  PROVE  \A s, e, a : <<s, e, a>> \in Places(store) <=>
           /\ s \in DOMAIN store /\ e \in DOMAIN store[s].endpoints
           /\ a \in DOMAIN store[s].endpoints[e].addresses
  BY DEF Places

LEMMA PlaceTriples ==
  ASSUME NEW store, NEW at \in Places(store)
  PROVE  at = <<at[1], at[2], at[3]>>
  BY DEF Places

(* The addresses of a slice, each once.                                    *)
LEMMA BackendIpsListing ==
  ASSUME NEW svc, NEW store, Inputs(svc, store), NEW s \in DOMAIN store
  PROVE  Listing(BackendIps(store[s]), ReadyPlaces(store, s), AddressOf(store))
<1> DEFINE list == store[s].endpoints
           Ready(e) == list[e].conditions # Absent /\ EndpointReady(list[e].conditions)
           ss == [n \in DOMAIN list |-> IF Ready(n) THEN Parsed(list[n].addresses) ELSE <<>>]
           W == [e \in DOMAIN list |-> {at \in ReadyPlaces(store, s) : at[2] = e}]
<1>1. BackendIps(store[s]) = FlattenSeq(ss)
  BY DEF BackendIps, ForEach
<1>2. /\ IsList(list)
      /\ \A e \in DOMAIN list :
           /\ IsList(list[e].addresses)
           /\ list[e].conditions \in [ready : Flags, terminating : Flags] \union {Absent}
  BY DEF Inputs
<1>3. Listing(list, DOMAIN list, list) /\ ListPer(list, ss)
  BY <1>2, WholeListing DEF ListPer
<1>4. ASSUME NEW e \in DOMAIN list
      PROVE  W[e] = ImageOf([a \in DOMAIN list[e].addresses |-> <<s, e, a>>],
                            {a \in DOMAIN list[e].addresses : Ready(e) /\ list[e].addresses[a] \in Addresses})
  <2> DEFINE f == [a \in DOMAIN list[e].addresses |-> <<s, e, a>>]
             P == {a \in DOMAIN list[e].addresses : Ready(e) /\ list[e].addresses[a] \in Addresses}
  <2>1. \A a \in DOMAIN list[e].addresses :
          /\ <<s, e, a>> \in Places(store)
          /\ EndpointAt(store, <<s, e, a>>) = list[e]
          /\ AddressAt(store, <<s, e, a>>) = list[e].addresses[a]
    BY PlaceFacts DEF EndpointAt, AddressAt
  <2>2. \A a \in DOMAIN list[e].addresses :
          Serves(list[e], list[e].addresses[a]) <=> list[e].addresses[a] \in Addresses /\ Ready(e)
    BY <1>2, ServesReady
  <2>3. ASSUME NEW at \in W[e] PROVE at \in ImageOf(f, P)
    <3>1. at \in Places(store) /\ at[1] = s /\ at[2] = e /\ Serves(EndpointAt(store, at), AddressAt(store, at))
      BY <2>3 DEF ReadyPlaces
    <3>2. at = <<s, e, at[3]>> /\ at[3] \in DOMAIN list[e].addresses
      BY <3>1, PlaceTriples, PlaceFacts
    <3>3. at[3] \in P
      BY <2>1, <2>2, <3>1, <3>2
    <3> QED  BY <3>2, <3>3 DEF ImageOf
  <2>4. ASSUME NEW at \in ImageOf(f, P) PROVE at \in W[e]
    <3>1. PICK a \in P : at = <<s, e, a>>
      BY <2>4 DEF ImageOf
    <3>2. at \in ReadyPlaces(store, s) /\ at[2] = e
      BY <2>1, <2>2, <3>1 DEF ReadyPlaces
    <3> QED  BY <3>2
  <2> QED  BY <2>3, <2>4
<1>5. ASSUME NEW n \in DOMAIN list, NEW e \in DOMAIN list, list[n] = list[e]
      PROVE  Listing(ss[n], W[e], AddressOf(store))
  <2> DEFINE f == [a \in DOMAIN list[e].addresses |-> <<s, e, a>>]
             P == {a \in DOMAIN list[e].addresses : list[e].addresses[a] \in Addresses}
  <2>1. CASE Ready(e)
    <3>1. ss[n] = Parsed(list[e].addresses)
      BY <1>5, <2>1
    <3>2. W[e] = ImageOf(f, P)
      BY <1>4, <2>1
    <3>3. /\ \A a \in P : AddressOf(store)[f[a]] = list[e].addresses[a]
          /\ \A a, c \in P : f[a] = f[c] => a = c
      BY PlaceFacts DEF AddressOf, AddressAt, EndpointAt
    <3> HIDE DEF f, W, ss
    <3>4. Listing(Parsed(list[e].addresses), ImageOf(f, P), AddressOf(store))
      <4> DEFINE addresses == list[e].addresses
      <4>1. IsList(addresses) /\ P = {a \in DOMAIN addresses : addresses[a] \in Addresses}
        BY <1>2
      <4>2. \A a \in P : AddressOf(store)[f[a]] = addresses[a]
        BY <3>3
      <4> HIDE DEF addresses, P
      <4>3. Listing(Parsed(addresses), ImageOf(f, P), AddressOf(store))
        BY <3>3, <4>1, <4>2, ParsedListing
      <4> QED  BY <4>3 DEF addresses
    <3> QED  BY <3>1, <3>2, <3>4
  <2>2. CASE ~Ready(e)
    <3>1. ss[n] = <<>>
      BY <1>5, <2>2
    <3>2. W[e] = {}
      BY <1>4, <2>2 DEF ImageOf
    <3> QED  BY <3>1, <3>2, EmptyListing
  <2> QED  BY <2>1, <2>2
<1>6. \A x, y \in DOMAIN list : x # y => W[x] \intersect W[y] = {}
  OBVIOUS
<1>7. AllOf(W, DOMAIN list) = ReadyPlaces(store, s)
  <2>1. \A at \in ReadyPlaces(store, s) : at[2] \in DOMAIN list
    BY PlaceTriples, PlaceFacts DEF ReadyPlaces
  <2>2. \A at \in ReadyPlaces(store, s) : at \in W[at[2]]
    BY <2>1
  <2>3. \A e \in DOMAIN list : W[e] \subseteq ReadyPlaces(store, s)
    OBVIOUS
  <2> HIDE DEF W, list
  <2> QED  BY <2>1, <2>2, <2>3 DEF AllOf
<1> HIDE DEF list, ss, W
<1>8. Listing(FlattenSeq(ss), AllOf(W, DOMAIN list), AddressOf(store))
  BY <1>3, <1>5, <1>6, LoopListing
<1> QED  BY <1>1, <1>7, <1>8

-----------------------------------------------------------------------------
(* The mappings, one for each place and port of the Service.               *)
SliceMappings(svc, slice) ==
  ForEach(BackendIps(slice), LAMBDA ip :
    ForEach(ServicePorts(svc), LAMBDA p :
      Only(BackendPort(slice, p.name, p.protocol) # Absent, Mapping(slice, ip, p))))

MappingOf(svc, store) ==
  [m \in Places(store) \X DOMAIN svc.ports |->
    Mapping(store[m[1][1]], AddressAt(store, m[1]), Named(svc.ports[m[2]]))]

Mapped(svc, store, s) ==
  {m \in ReadyPlaces(store, s) \X KnownPorts(svc) : HasPort(store[s], svc.ports[m[2]])}

(* The mappings of a slice.                                                *)
LEMMA SliceListing ==
  ASSUME NEW svc, NEW store, Inputs(svc, store), NEW s \in DOMAIN store
  PROVE  Listing(SliceMappings(svc, store[s]), Mapped(svc, store, s), MappingOf(svc, store))
<1> DEFINE slice == store[s]
           ips == BackendIps(slice)
           ports == ServicePorts(svc)
           tt(n) == [k \in DOMAIN ports |->
                      Only(BackendPort(slice, ports[k].name, ports[k].protocol) # Absent,
                           Mapping(slice, ips[n], ports[k]))]
           ss == [n \in DOMAIN ips |-> FlattenSeq(tt(n))]
           W == [at \in ReadyPlaces(store, s) |-> {m \in Mapped(svc, store, s) : m[1] = at}]
           u == MappingOf(svc, store)
<1>1. SliceMappings(svc, store[s]) = FlattenSeq(ss)
  BY DEF SliceMappings, ForEach
<1>2. /\ Listing(ips, ReadyPlaces(store, s), AddressOf(store)) /\ ListPer(ips, ss)
      /\ Listing(ports, KnownPorts(svc), PortOf(svc))
  BY BackendIpsListing, PortsListing DEF Inputs, ListPer
<1>3. ASSUME NEW n \in DOMAIN ips, NEW at \in ReadyPlaces(store, s), ips[n] = AddressOf(store)[at]
      PROVE  Listing(FlattenSeq(tt(n)), W[at], u)
  <2> DEFINE P == {q \in KnownPorts(svc) : HasPort(slice, svc.ports[q])}
             f == [q \in KnownPorts(svc) |-> <<at, q>>]
             t == tt(n)
  <2>1. at \in Places(store) /\ at[1] = s /\ ips[n] = AddressAt(store, at)
    BY <1>3 DEF ReadyPlaces, AddressOf
  <2>2. W[at] = ImageOf(f, P)
    BY DEF ImageOf, Mapped
  <2>3. ListPer(ports, t) /\ P \subseteq KnownPorts(svc) /\ \A q, r \in P : f[q] = f[r] => q = r
    BY DEF ListPer
  <2>4. ASSUME NEW k \in DOMAIN ports, NEW q \in KnownPorts(svc), ports[k] = PortOf(svc)[q]
        PROVE  t[k] = IF q \in P THEN <<u[f[q]]>> ELSE <<>>
    <3>1. q \in DOMAIN svc.ports /\ ports[k] = Named(svc.ports[q])
      BY <2>4 DEF KnownPorts, PortOf
    <3>2. BackendPort(slice, ports[k].name, ports[k].protocol) # Absent <=> HasPort(slice, svc.ports[q])
      BY <3>1, FirstPort DEF Inputs
    <3>3. u[f[q]] = Mapping(slice, ips[n], ports[k])
      BY <2>1, <3>1 DEF MappingOf
    <3> QED  BY <3>2, <3>3 DEF Only
  <2>5. /\ \A k \in DOMAIN ports, q \in P : ports[k] = PortOf(svc)[q] => t[k] = <<u[f[q]]>>
        /\ \A k \in DOMAIN ports, q \in KnownPorts(svc) \ P : ports[k] = PortOf(svc)[q] => t[k] = <<>>
    <3> HIDE DEF P, f, t, ports, u
    <3> QED  BY <2>3, <2>4
  <2> HIDE DEF P, f, t, W, ports, u
  <2>6. Listing(FlattenSeq(t), ImageOf(f, P), u)
    BY <1>2, <2>3, <2>5, FilterListing
  <2> QED  BY <2>2, <2>6 DEF t
<1>4. \A x, y \in ReadyPlaces(store, s) : x # y => W[x] \intersect W[y] = {}
  OBVIOUS
<1>5. AllOf(W, ReadyPlaces(store, s)) = Mapped(svc, store, s)
  BY DEF AllOf, Mapped
<1>6. \A n \in DOMAIN ips, at \in ReadyPlaces(store, s) :
        ips[n] = AddressOf(store)[at] => Listing(ss[n], W[at], u)
  BY <1>3
<1> HIDE DEF ips, ss, W, u
<1>7. Listing(FlattenSeq(ss), AllOf(W, ReadyPlaces(store, s)), u)
  BY <1>2, <1>4, <1>6, LoopListing
<1> QED  BY <1>1, <1>5, <1>7 DEF u

(* The mappings of all slices of the Service.                              *)
AllMapped(svc, store) ==
  {m \in Places(store) \X KnownPorts(svc) :
     /\ store[m[1][1]].own /\ Serves(EndpointAt(store, m[1]), AddressAt(store, m[1]))
     /\ HasPort(store[m[1][1]], svc.ports[m[2]])}

LEMMA MappingsListing ==
  ASSUME NEW svc, NEW store, Inputs(svc, store)
  PROVE  Listing(GenerateSpec(svc, store).mappings, AllMapped(svc, store), MappingOf(svc, store))
<1> DEFINE own == {s \in DOMAIN store : store[s].own}
           id == [s \in DOMAIN store |-> s]
           oo == [n \in DOMAIN store |-> Only(store[n].own, store[n])]
           owned == OwnedSlices(store)
           ss == [n \in DOMAIN owned |-> SliceMappings(svc, owned[n])]
           W == [s \in own |-> Mapped(svc, store, s)]
<1>1. GenerateSpec(svc, store).mappings = FlattenSeq(ss)
  BY DEF GenerateSpec, ForEach, SliceMappings
<1>2. Listing(owned, own, store)
  <2>1. owned = FlattenSeq(oo) /\ ImageOf(id, own) = own
    BY DEF OwnedSlices, ForEach, ImageOf
  <2>2. Listing(store, DOMAIN store, store) /\ ListPer(store, oo) /\ own \subseteq DOMAIN store
    BY WholeListing DEF Inputs, ListPer
  <2>3. /\ \A n \in DOMAIN store, s \in own : store[n] = store[s] => oo[n] = <<store[id[s]]>>
        /\ \A n \in DOMAIN store, s \in DOMAIN store \ own : store[n] = store[s] => oo[n] = <<>>
        /\ \A x, y \in own : id[x] = id[y] => x = y
    BY DEF Only
  <2> HIDE DEF oo, own, id, owned
  <2>4. Listing(FlattenSeq(oo), ImageOf(id, own), store)
    BY <2>2, <2>3, FilterListing
  <2> QED  BY <2>1, <2>4
<1>3. \A n \in DOMAIN owned, s \in own : owned[n] = store[s] => Listing(ss[n], W[s], MappingOf(svc, store))
  BY SliceListing
<1>4. \A x, y \in own : x # y => W[x] \intersect W[y] = {}
  BY DEF Mapped, ReadyPlaces
<1>5. AllOf(W, own) = AllMapped(svc, store)
  <2>1. \A m \in Places(store) \X KnownPorts(svc) : m[1][1] \in DOMAIN store
    BY PlaceTriples, PlaceFacts
  <2>2. ASSUME NEW m \in AllMapped(svc, store) PROVE m \in W[m[1][1]] /\ m[1][1] \in own
    BY <2>1 DEF AllMapped, Mapped, ReadyPlaces
  <2>3. ASSUME NEW s \in own PROVE W[s] \subseteq AllMapped(svc, store)
    BY DEF AllMapped, Mapped, ReadyPlaces
  <2> HIDE DEF W, own
  <2> QED  BY <2>2, <2>3 DEF AllOf
<1>6. ListPer(owned, ss)
  BY DEF ListPer
<1> HIDE DEF owned, own, ss, W
<1>7. Listing(FlattenSeq(ss), AllOf(W, own), MappingOf(svc, store))
  BY <1>2, <1>3, <1>4, <1>6, LoopListing
<1> QED  BY <1>1, <1>5, <1>7

(* What is pushed, once for each route.                                    *)
PushOf(svc, store) ==
  [r \in Routes(svc, store) |-> [key |-> RouteKey(svc, r), endpoint |-> RouteEnd(svc, store, r)]]

(* A route is an address of the Service and a mapping, of one family.      *)
LEMMA RouteFacts ==
  ASSUME NEW svc, NEW store
  PROVE  \A i, at, q : <<i, at, q>> \in Routes(svc, store) <=>
           /\ i \in DOMAIN svc.ips /\ svc.ips[i] \in Addresses
           /\ <<at, q>> \in AllMapped(svc, store)
           /\ Family[svc.ips[i]] = Family[AddressAt(store, at)]
<1> SUFFICES ASSUME NEW i, NEW at, NEW q
             PROVE  <<i, at, q>> \in Routes(svc, store) <=>
                      /\ i \in DOMAIN svc.ips /\ svc.ips[i] \in Addresses
                      /\ <<at, q>> \in AllMapped(svc, store)
                      /\ Family[svc.ips[i]] = Family[AddressAt(store, at)]
  OBVIOUS
<1> DEFINE r == <<i, at, q>>
           m == <<at, q>>
<1>1. r[1] = i /\ r[2] = at /\ r[3] = q /\ m[1] = at /\ m[2] = q
  OBVIOUS
<1>2. r \in (DOMAIN svc.ips) \X Places(store) \X (DOMAIN svc.ports) <=>
        i \in DOMAIN svc.ips /\ at \in Places(store) /\ q \in DOMAIN svc.ports
  OBVIOUS
<1>3. m \in Places(store) \X KnownPorts(svc) <=>
        at \in Places(store) /\ q \in DOMAIN svc.ports /\ svc.ports[q].protocol \in Protocols
  BY DEF KnownPorts
<1> HIDE DEF r, m
<1> QED  BY <1>1, <1>2, <1>3 DEF Routes, AllMapped, HasPort, r, m

LEMMA RouteTriples ==
  ASSUME NEW svc, NEW store, NEW r \in Routes(svc, store)
  PROVE  r = <<r[1], r[2], r[3]>>
<1>1. r \in (DOMAIN svc.ips) \X Places(store) \X (DOMAIN svc.ports)
  BY DEF Routes
<1> QED  BY <1>1

(* All that is pushed to lists.                                            *)
LEMMA PushedListing ==
  ASSUME NEW svc, NEW store, Inputs(svc, store)
  PROVE  Listing(Pushed(GenerateSpec(svc, store)), Routes(svc, store), PushOf(svc, store))
<1> DEFINE ips == Parsed(svc.ips)
           maps == GenerateSpec(svc, store).mappings
           v == MappingOf(svc, store)
           u == PushOf(svc, store)
           M == AllMapped(svc, store)
           I == {i \in DOMAIN svc.ips : svc.ips[i] \in Addresses}
           id == [i \in DOMAIN svc.ips |-> i]
           tt(n) == [k \in DOMAIN maps |->
                      Only(Family[ips[n]] = Family[maps[k].ip],
                           [key |-> <<ips[n], maps[k].servicePort, KubeProto(maps[k].protocol)>>,
                            endpoint |-> <<maps[k].ip, maps[k].backendPort>>])]
           ss == [n \in DOMAIN ips |-> FlattenSeq(tt(n))]
           W == [i \in I |-> {r \in Routes(svc, store) : r[1] = i}]
<1>1. Pushed(GenerateSpec(svc, store)) = FlattenSeq(ss)
  BY DEF Pushed, ForEach, GenerateSpec
<1>2. Listing(ips, I, svc.ips)
  <2>1. ImageOf(id, I) = I /\ \A i \in I : svc.ips[id[i]] = svc.ips[i]
    BY DEF ImageOf
  <2>2. IsList(svc.ips) /\ \A x, y \in I : id[x] = id[y] => x = y
    BY DEF Inputs
  <2>3. Listing(Parsed(svc.ips), ImageOf(id, I), svc.ips)
    <3> HIDE DEF id
    <3> QED  BY <2>1, <2>2, ParsedListing
  <2> QED  BY <2>1, <2>3
<1>3. Listing(maps, M, v) /\ ListPer(ips, ss)
  BY MappingsListing DEF ListPer
<1>4. ASSUME NEW n \in DOMAIN ips, NEW i \in I, ips[n] = svc.ips[i]
      PROVE  Listing(FlattenSeq(tt(n)), W[i], u)
  <2> DEFINE P == {m \in M : Family[svc.ips[i]] = Family[AddressAt(store, m[1])]}
             f == [m \in M |-> <<i, m[1], m[2]>>]
             t == tt(n)
  <2>1. \A m \in M : m = <<m[1], m[2]>>
    BY DEF AllMapped
  <2>2. W[i] = ImageOf(f, P)
    <3>1. ASSUME NEW r \in W[i] PROVE r \in ImageOf(f, P)
      <4>1. r = <<i, r[2], r[3]>>
        BY <3>1, RouteTriples
      <4> DEFINE m == <<r[2], r[3]>>
      <4>2. m \in P /\ f[m] = r
        BY <3>1, <4>1, RouteFacts
      <4> QED  BY <4>2 DEF ImageOf
    <3>2. ASSUME NEW r \in ImageOf(f, P) PROVE r \in W[i]
      <4>1. PICK m \in P : r = <<i, m[1], m[2]>>
        BY <3>2 DEF ImageOf
      <4>2. <<m[1], m[2]>> \in M
        BY <2>1, <4>1
      <4>3. r \in Routes(svc, store) /\ r[1] = i
        BY <4>1, <4>2, RouteFacts
      <4> QED  BY <4>3
    <3> QED  BY <3>1, <3>2
  <2>3. ListPer(maps, t) /\ P \subseteq M /\ \A x, y \in P : f[x] = f[y] => x = y
    BY <2>1 DEF ListPer
  <2>4. ASSUME NEW k \in DOMAIN maps, NEW m \in M, maps[k] = v[m]
        PROVE  t[k] = IF m \in P THEN <<u[f[m]]>> ELSE <<>>
    <3> DEFINE slice == store[m[1][1]]
               q == svc.ports[m[2]]
    <3>1. /\ m \in Places(store) \X DOMAIN svc.ports /\ HasPort(slice, q) /\ m[1][1] \in DOMAIN store
          /\ KubeProto(q.protocol) = q.protocol
      BY PlaceTriples, PlaceFacts DEF AllMapped, KnownPorts, KubeProto
    <3>2. maps[k] = Mapping(slice, AddressAt(store, m[1]), Named(q))
      BY <2>4, <3>1 DEF MappingOf
    <3>3. BackendPort(slice, Named(q).name, Named(q).protocol) = PortIn(slice, q)
      BY <3>1, FirstPort DEF Inputs
    <3>4. /\ maps[k].ip = AddressAt(store, m[1]) /\ maps[k].servicePort = U16(q.port)
          /\ KubeProto(maps[k].protocol) = q.protocol /\ maps[k].backendPort = PortIn(slice, q)
      <4>1. Named(q).port = U16(q.port) /\ Named(q).protocol = q.protocol
        BY DEF Named
      <4> HIDE DEF maps, slice, q
      <4> QED  BY <3>1, <3>2, <3>3, <4>1 DEF Mapping
    <3>5. m \in P <=> Family[ips[n]] = Family[maps[k].ip]
      BY <1>4, <3>4
    <3>6. ASSUME m \in P PROVE u[f[m]] = [key |-> <<ips[n], maps[k].servicePort, KubeProto(maps[k].protocol)>>,
                                          endpoint |-> <<maps[k].ip, maps[k].backendPort>>]
      <4> DEFINE r == <<i, m[1], m[2]>>
      <4>1. f[m] = r /\ r \in Routes(svc, store)
        BY <2>1, <3>6, RouteFacts
      <4>2. RouteKey(svc, r) = <<ips[n], maps[k].servicePort, KubeProto(maps[k].protocol)>>
        BY <1>4, <3>4 DEF RouteKey
      <4>3. RouteEnd(svc, store, r) = <<maps[k].ip, maps[k].backendPort>>
        BY <3>4 DEF RouteEnd, PortIn
      <4> QED  BY <4>1, <4>2, <4>3 DEF PushOf
    <3> QED  BY <3>5, <3>6 DEF Only
  <2>5. /\ \A k \in DOMAIN maps, m \in P : maps[k] = v[m] => t[k] = <<u[f[m]]>>
        /\ \A k \in DOMAIN maps, m \in M \ P : maps[k] = v[m] => t[k] = <<>>
    <3> HIDE DEF P, f, t, maps, u, v, M
    <3> QED  BY <2>3, <2>4
  <2> HIDE DEF P, f, t, W, maps, u, v, M
  <2>6. Listing(FlattenSeq(t), ImageOf(f, P), u)
    BY <1>3, <2>3, <2>5, FilterListing
  <2> QED  BY <2>2, <2>6 DEF t
<1>5. \A x, y \in I : x # y => W[x] \intersect W[y] = {}
  OBVIOUS
<1>6. AllOf(W, I) = Routes(svc, store)
  <2>1. ASSUME NEW r \in Routes(svc, store) PROVE r[1] \in I /\ r \in W[r[1]]
    <3>1. <<r[1], r[2], r[3]>> \in Routes(svc, store)
      BY RouteTriples
    <3> QED  BY <3>1, RouteFacts
  <2>2. \A i \in I : W[i] \subseteq Routes(svc, store)
    OBVIOUS
  <2> HIDE DEF W, I
  <2> QED  BY <2>1, <2>2 DEF AllOf
<1>7. \A n \in DOMAIN ips, i \in I : ips[n] = svc.ips[i] => Listing(ss[n], W[i], u)
  BY <1>4
<1> HIDE DEF ips, ss, W, I, u
<1>8. Listing(FlattenSeq(ss), AllOf(W, I), u)
  BY <1>2, <1>3, <1>5, <1>7, LoopListing
<1> QED  BY <1>1, <1>6, <1>8 DEF u

RoutesOf(svc, store, key) == {r \in Routes(svc, store) : RouteKey(svc, r) = key}
EndOf(svc, store) == [r \in Routes(svc, store) |-> RouteEnd(svc, store, r)]

(* The lists of a key.                                                     *)
LEMMA KeyListing ==
  ASSUME NEW svc, NEW store, Inputs(svc, store)
  PROVE  LET lists == GenerateEndpoints(GenerateSpec(svc, store)) IN
           /\ DOMAIN lists = {RouteKey(svc, r) : r \in Routes(svc, store)}
           /\ \A key \in DOMAIN lists : Listing(lists[key], RoutesOf(svc, store, key), EndOf(svc, store))
<1> DEFINE lists == GenerateEndpoints(GenerateSpec(svc, store))
           pushed == Pushed(GenerateSpec(svc, store))
           R == Routes(svc, store)
           v == PushOf(svc, store)
           u == EndOf(svc, store)
           id == [r \in R |-> r]
<1>1. Listing(pushed, R, v)
  BY PushedListing
<1>2. \A r \in R : v[r].key = RouteKey(svc, r) /\ v[r].endpoint = RouteEnd(svc, store, r)
  BY DEF PushOf
<1>3. DOMAIN lists = {pushed[n].key : n \in DOMAIN pushed}
  BY DEF GenerateEndpoints
<1>4. /\ \A n \in DOMAIN pushed : \E r \in R : pushed[n] = v[r]
      /\ \A r \in R : \E n \in DOMAIN pushed : pushed[n] = v[r]
  <2> HIDE DEF pushed, R, v
  <2> QED  BY <1>1, ListingCounts
<1>5. {pushed[n].key : n \in DOMAIN pushed} = {RouteKey(svc, r) : r \in R}
  <2> HIDE DEF pushed, R, v
  <2> QED  BY <1>2, <1>4
<1>6. ASSUME NEW key \in DOMAIN lists PROVE Listing(lists[key], RoutesOf(svc, store, key), u)
  <2> DEFINE ss == [n \in DOMAIN pushed |-> Only(pushed[n].key = key, pushed[n].endpoint)]
             P == RoutesOf(svc, store, key)
  <2>1. lists[key] = FlattenSeq(ss)
    BY <1>6 DEF GenerateEndpoints, ForEach
  <2>2. ListPer(pushed, ss) /\ P \subseteq R /\ ImageOf(id, P) = P
    BY DEF ListPer, RoutesOf, ImageOf
  <2>3. /\ \A n \in DOMAIN pushed, r \in P : pushed[n] = v[r] => ss[n] = <<u[id[r]]>>
        /\ \A n \in DOMAIN pushed, r \in R \ P : pushed[n] = v[r] => ss[n] = <<>>
        /\ \A x, y \in P : id[x] = id[y] => x = y
    <3>1. \A r \in R : r \in P <=> v[r].key = key
      BY <1>2 DEF RoutesOf
    <3>2. \A r \in R : u[id[r]] = v[r].endpoint
      BY <1>2 DEF EndOf
    <3>3. \A n \in DOMAIN pushed : ss[n] = IF pushed[n].key = key THEN <<pushed[n].endpoint>> ELSE <<>>
      BY DEF Only
    <3>4. P \subseteq R /\ \A r \in R : id[r] = r
      BY <2>2
    <3>5. \A x, y \in P : id[x] = id[y] => x = y
      BY <3>4
    <3> HIDE DEF pushed, R, v, u, P, ss, id
    <3>6. ASSUME NEW n \in DOMAIN pushed, NEW r \in P, pushed[n] = v[r] PROVE ss[n] = <<u[id[r]]>>
      <4>1. r \in R /\ v[r].key = key
        BY <3>1, <3>4
      <4>2. pushed[n].key = key /\ pushed[n].endpoint = v[r].endpoint
        BY <3>6, <4>1
      <4>3. ss[n] = <<pushed[n].endpoint>>
        BY <3>3, <4>2
      <4>4. u[id[r]] = v[r].endpoint
        BY <3>2, <4>1
      <4> QED  BY <4>2, <4>3, <4>4
    <3>7. ASSUME NEW n \in DOMAIN pushed, NEW r \in R \ P, pushed[n] = v[r] PROVE ss[n] = <<>>
      BY <3>1, <3>3, <3>7
    <3> QED  BY <3>5, <3>6, <3>7
  <2> HIDE DEF pushed, R, v, u, P, ss, id, lists
  <2>4. Listing(FlattenSeq(ss), ImageOf(id, P), u)
    BY <1>1, <2>2, <2>3, FilterListing
  <2> QED  BY <2>1, <2>2, <2>4 DEF P
<1> QED  BY <1>3, <1>5, <1>6

(* All of AreRoutes.                                                       *)
LEMMA ListsAreOfRoutes ==
  ASSUME NEW svc \in ServiceInputs, NEW store \in StoreInputs
  PROVE  AreRoutes(GenerateEndpoints(GenerateSpec(svc, store)), svc, store)
<1> DEFINE lists == GenerateEndpoints(GenerateSpec(svc, store))
           u == EndOf(svc, store)
<1>1. /\ DOMAIN lists = {RouteKey(svc, r) : r \in Routes(svc, store)}
      /\ \A key \in DOMAIN lists : Listing(lists[key], RoutesOf(svc, store, key), u)
  BY InputsFit, KeyListing
<1>2. ASSUME NEW key \in DOMAIN lists
      PROVE  /\ Len(lists[key]) = Cardinality(RoutesOf(svc, store, key))
             /\ \A e : Cardinality({n \in DOMAIN lists[key] : lists[key][n] = e}) =
                         Cardinality({r \in RoutesOf(svc, store, key) : RouteEnd(svc, store, r) = e})
  <2> DEFINE list == lists[key]
             mine == RoutesOf(svc, store, key)
  <2>1. Listing(list, mine, u)
    BY <1>1
  <2>2. \A r \in mine : u[r] = RouteEnd(svc, store, r)
    BY DEF EndOf, RoutesOf
  <2> HIDE DEF list, mine, u
  <2>3. Len(list) = Cardinality(mine)
    BY <2>1, ListingCounts
  <2>4. ASSUME NEW e
        PROVE  Cardinality({n \in DOMAIN list : list[n] = e}) =
                 Cardinality({r \in mine : RouteEnd(svc, store, r) = e})
    <3>1. {r \in mine : u[r] = e} = {r \in mine : RouteEnd(svc, store, r) = e}
      BY <2>2
    <3>2. CountOf(list, DOMAIN list, e) = CountOf(u, mine, e)
      BY <2>1, ListingCounts
    <3> QED  BY <3>1, <3>2 DEF CountOf
  <2> QED  BY <2>3, <2>4 DEF list, mine
<1> HIDE DEF lists
<1>3. AreRoutes(lists, svc, store)
  BY <1>1, <1>2 DEF AreRoutes, RoutesOf
<1> QED  BY <1>3 DEF lists

(* Every list of endpoints has the routes of its key, each as often as it  *)
(* is one, and no list is empty or missing, under port numbers cut to a    *)
(* u16 as the code casts them: for any Service and any number of slices,   *)
(* endpoints, addresses and ports (meshendpoint.rs:49-232).                *)
THEOREM ListsCorrect == InputSpec => []ListsAreExact
<1> DEFINE Fits == input \in [svc : ServiceInputs, store : StoreInputs]
<1>1. InputInit => Fits
  BY DEF InputInit
<1>2. Fits /\ [UNCHANGED input]_input => Fits'
  OBVIOUS
<1>3. Fits => ListsAreExact
  BY ListsAreOfRoutes DEF ListsAreExact
<1> QED  BY <1>1, <1>2, <1>3, PTL DEF InputSpec
-----------------------------------------------------------------------------
(***************************************************************************)
(* The controller of the control plane that publishes the MeshEndpoints.   *)
(* It runs elsewhere and shares no state with the above.                   *)
(***************************************************************************)
CONSTANTS Ports, Lists, Capacity, MaxChanges, MaxFailures

VARIABLES
  service, slices, mesh, serviceStore, slicesKnown, meshStore, watched, unread,
  due, call, misled, changes, failures

Publisher == INSTANCE MeshEndpoints WITH sliceStore <- slicesKnown, run <- call

(* What MeshEndpoints assumes of its constants.                            *)
PublisherAssumed ==
  {Capacity, MaxChanges, MaxFailures} \subseteq Nat /\ None \notin Publisher!MeshObjects

LEMMA PublisherInit == PublisherAssumed => (Publisher!Init => Publisher!TypeOK)
<1> USE DEF PublisherAssumed
<1> SUFFICES ASSUME PublisherAssumed, Publisher!Init PROVE Publisher!TypeOK
  OBVIOUS
<1>1. Capacity \in Nat /\ MaxChanges \in Nat /\ MaxFailures \in Nat
  OBVIOUS
<1>2. 0 \in Publisher!Versions /\ 0 \in 0 .. Capacity + 1 /\ 0 \in 0 .. MaxFailures
  BY <1>1 DEF Publisher!Versions
<1>3. slices \in Publisher!Slices
  BY <1>2 DEF Publisher!Init, Publisher!Slices
<1> QED
  BY <1>2, <1>3 DEF Publisher!Init, Publisher!TypeOK, Publisher!NoCall, Publisher!Versions

(* What a reconcile decides on.                                            *)
LEMMA CallForType ==
  ASSUME PublisherAssumed, Publisher!TypeOK
  PROVE  LET c == Publisher!CallFor(serviceStore) IN
           /\ c \in [op : {"none", "delete", "apply"}, object : Publisher!MeshObjects \union {None}]
           /\ c.object = None <=> c.op # "apply"
<1> DEFINE o == Publisher!MeshObject(serviceStore, slicesKnown)
<1>1. ASSUME serviceStore # None PROVE o \in Publisher!MeshObjects /\ o # None
  <2>1. serviceStore \in Publisher!Services /\ slicesKnown \in Publisher!Slices
    BY <1>1 DEF Publisher!TypeOK
  <2>2. serviceStore.ports \in Ports /\ serviceStore.uid \in Publisher!Versions
        /\ slicesKnown.list \in Lists
    BY <2>1 DEF Publisher!Services, Publisher!Slices
  <2>3. o \in Publisher!MeshObjects
    BY <2>2 DEF Publisher!MeshObject, Publisher!MeshObjects
  <2> QED  BY <2>3 DEF PublisherAssumed
<1>2. Publisher!CallFor(serviceStore) \in {Publisher!NoCall, Publisher!Delete}
        \/ (serviceStore # None /\ Publisher!CallFor(serviceStore) = Publisher!Apply(o))
  BY DEF Publisher!CallFor
<1> HIDE DEF o
<1> QED  BY <1>1, <1>2 DEF Publisher!NoCall, Publisher!Delete, Publisher!Apply

LEMMA PublisherStep ==
  PublisherAssumed =>
    (Publisher!TypeOK /\ [Publisher!Next]_(Publisher!vars) => Publisher!TypeOK')
<1> SUFFICES ASSUME PublisherAssumed, Publisher!TypeOK, [Publisher!Next]_(Publisher!vars)
             PROVE  Publisher!TypeOK'
  OBVIOUS
<1> USE DEF PublisherAssumed, Publisher!TypeOK, Publisher!clusterVars, Publisher!storeVars
<1>1. ASSUME Publisher!Change PROVE changes' \in 0 .. MaxChanges /\ changes' \in Publisher!Versions
  BY <1>1 DEF Publisher!Change, Publisher!Versions
<1>2. CASE Publisher!EditService
  <2>1. PICK m \in BOOLEAN, p \in Ports :
          service' = [mesh |-> m, ports |-> p, version |-> changes',
                      uid |-> IF service = None THEN changes' ELSE service.uid]
    BY <1>2 DEF Publisher!EditService
  <2>2. service # None => service.uid \in Publisher!Versions
    BY DEF Publisher!Services
  <2>3. service' \in Publisher!Services
    BY <1>1, <1>2, <2>1, <2>2 DEF Publisher!EditService, Publisher!Services
  <2> QED  BY <1>1, <1>2, <2>3 DEF Publisher!EditService, Publisher!Change
<1>3. CASE Publisher!DeleteService
  BY <1>1, <1>3 DEF Publisher!DeleteService, Publisher!Change
<1>4. CASE Publisher!EditSlices
  <2>1. slices' \in Publisher!Slices
    BY <1>1, <1>4 DEF Publisher!EditSlices, Publisher!Slices
  <2> QED  BY <1>1, <1>4, <2>1 DEF Publisher!EditSlices, Publisher!Change
<1>5. CASE Publisher!CollectMesh
  BY <1>5 DEF Publisher!CollectMesh
<1>6. CASE Publisher!SyncService \/ Publisher!WatchSlices \/ Publisher!SyncMesh \/ Publisher!Timer
  BY <1>6 DEF Publisher!SyncService, Publisher!WatchSlices, Publisher!SyncMesh, Publisher!Timer
<1>7. CASE Publisher!SyncSlices
  <2>1. unread' \in 0 .. Capacity + 1
    BY <1>7 DEF Publisher!SyncSlices, Publisher!Stuck
  <2> QED  BY <1>7, <2>1 DEF Publisher!SyncSlices
<1>8. CASE Publisher!Start
  <2>1. misled' \in BOOLEAN /\ due' = "no"
    BY <1>8 DEF Publisher!Start
  <2> QED  BY <1>8, <2>1, CallForType DEF Publisher!Start
<1>9. ASSUME call' = Publisher!NoCall
      PROVE  /\ call' \in [op : {"none", "delete", "apply"}, object : Publisher!MeshObjects \union {None}]
             /\ call'.object = None <=> call'.op # "apply"
  BY <1>9 DEF Publisher!NoCall
<1>10. CASE Publisher!Call
  BY <1>9, <1>10 DEF Publisher!Call
<1>11. CASE Publisher!NothingToDelete
  BY <1>9, <1>11 DEF Publisher!NothingToDelete, Publisher!Requeue
<1>12. CASE Publisher!CallFails
  <2>1. failures' \in 0 .. MaxFailures
    BY <1>12 DEF Publisher!CallFails
  <2> QED  BY <1>9, <1>12, <2>1 DEF Publisher!CallFails, Publisher!Requeue
<1>13. CASE Publisher!Restart
  <2>1. failures' \in 0 .. MaxFailures /\ 0 \in 0 .. Capacity + 1
    BY <1>13 DEF Publisher!Restart
  <2> QED  BY <1>9, <1>13, <2>1 DEF Publisher!Restart
<1>14. CASE UNCHANGED Publisher!vars
  BY <1>14 DEF Publisher!vars
<1> QED
  BY <1>2, <1>3, <1>4, <1>5, <1>6, <1>7, <1>8, <1>10, <1>11, <1>12, <1>13, <1>14
     DEF Publisher!Next, Publisher!Reconcile

(* The types of the publisher's state: in particular a call under way      *)
(* carries a MeshEndpoint exactly if it is an apply                        *)
(* (mesh-cni-service-controller/src/controller.rs:62-123).                 *)
THEOREM PublisherTypeCorrect == PublisherAssumed => (Publisher!Spec => []Publisher!TypeOK)
<1> SUFFICES ASSUME PublisherAssumed PROVE Publisher!Spec => []Publisher!TypeOK
  OBVIOUS
<1>1. Publisher!Init => Publisher!TypeOK
  BY PublisherInit
<1>2. Publisher!TypeOK /\ [Publisher!Next]_(Publisher!vars) => Publisher!TypeOK'
  BY PublisherStep
<1> QED  BY <1>1, <1>2, PTL DEF Publisher!Spec

(* The cluster's changes are counted.                                      *)
Counted == changes \in Nat

LEMMA ChangesCounted == Publisher!Spec => []Counted
<1>1. Publisher!Init => Counted
  BY DEF Publisher!Init, Counted
<1>2. Counted /\ [Publisher!Next]_(Publisher!vars) => Counted'
  <2> USE DEF Publisher!clusterVars, Counted
  <2> SUFFICES ASSUME changes \in Nat, changes' # changes, [Publisher!Next]_(Publisher!vars)
               PROVE  changes' \in Nat
    OBVIOUS
  <2>1. Publisher!EditService \/ Publisher!DeleteService \/ Publisher!EditSlices
    BY DEF Publisher!Next, Publisher!vars, Publisher!CollectMesh, Publisher!SyncService,
           Publisher!WatchSlices, Publisher!SyncSlices, Publisher!SyncMesh, Publisher!Reconcile,
           Publisher!Start, Publisher!Call, Publisher!NothingToDelete, Publisher!CallFails,
           Publisher!Timer, Publisher!Restart
  <2> QED
    BY <2>1 DEF Publisher!EditService, Publisher!DeleteService, Publisher!EditSlices,
                Publisher!Change
<1> QED  BY <1>1, <1>2, PTL DEF Publisher!Spec

LEMMA SettledStep ==
  ASSUME changes \in Nat, Publisher!Settled, [Publisher!Next]_(Publisher!vars)
  PROVE  Publisher!Settled' \/ Publisher!clusterVars' # Publisher!clusterVars
<1> USE DEF Publisher!clusterVars
<1> SUFFICES ASSUME UNCHANGED <<service, slices, changes>> PROVE Publisher!Settled'
  OBVIOUS
<1>1. ~(Publisher!EditService \/ Publisher!DeleteService \/ Publisher!EditSlices)
  BY DEF Publisher!EditService, Publisher!DeleteService, Publisher!EditSlices, Publisher!Change
<1>2. /\ mesh = Publisher!Desired /\ Publisher!Desired' = Publisher!Desired
      /\ serviceStore = service /\ slicesKnown = slices /\ meshStore = mesh
      /\ call # Publisher!NoCall => call.object = Publisher!Desired
  BY DEF Publisher!Settled, Publisher!Published, Publisher!Caught, Publisher!Desired,
         Publisher!MeshObject
<1> USE DEF Publisher!Settled, Publisher!Published, Publisher!Caught
<1>3. ASSUME mesh' = mesh, UNCHANGED <<serviceStore, slicesKnown, meshStore>>,
             call' # Publisher!NoCall => call'.object = Publisher!Desired
      PROVE  Publisher!Settled'
  BY <1>2, <1>3 DEF Publisher!NoCall
<1>4. CASE Publisher!Start
  <2>1. call' = Publisher!CallFor(service)
    BY <1>2, <1>4 DEF Publisher!Start
  <2>2. service = None \/ ~service.mesh => call' = Publisher!NoCall
    BY <1>2, <2>1 DEF Publisher!CallFor, Publisher!Desired
  <2>3. ~(service = None \/ ~service.mesh) /\ call' # Publisher!NoCall =>
          call'.object = Publisher!Desired
    BY <1>2, <2>1 DEF Publisher!CallFor, Publisher!Desired, Publisher!Apply
  <2> QED  BY <1>3, <1>4, <2>2, <2>3 DEF Publisher!Start, Publisher!storeVars
<1>5. CASE Publisher!Call \/ Publisher!CallFails
  <2>1. /\ mesh' = Publisher!Desired /\ call' = Publisher!NoCall
        /\ UNCHANGED <<serviceStore, slicesKnown, meshStore>>
    BY <1>2, <1>5 DEF Publisher!Call, Publisher!CallFails, Publisher!Requeue, Publisher!storeVars
  <2> QED  BY <1>2, <1>3, <2>1
<1>6. CASE Publisher!CollectMesh
  <2>1. mesh # None /\ (service # None => service.uid # mesh.owner)
    BY <1>6 DEF Publisher!CollectMesh, Publisher!Orphan
  <2>2. service # None /\ mesh = Publisher!MeshObject(service, slices)
    BY <1>2, <2>1 DEF Publisher!Desired
  <2>3. mesh.owner = service.uid
    BY <2>2 DEF Publisher!MeshObject
  <2> QED  BY <2>1, <2>2, <2>3
<1>7. CASE Publisher!NothingToDelete
  BY <1>2, <1>3, <1>7 DEF Publisher!NothingToDelete, Publisher!Requeue, Publisher!storeVars
<1>8. CASE Publisher!Restart
  <2>1. /\ mesh' = mesh /\ call' = Publisher!NoCall
        /\ serviceStore' = service /\ slicesKnown' = slices /\ meshStore' = mesh
    BY <1>8 DEF Publisher!Restart
  <2> QED  BY <1>2, <1>3, <2>1
<1>9. CASE Publisher!WatchSlices \/ Publisher!Timer \/ UNCHANGED Publisher!vars
  <2>1. UNCHANGED <<mesh, call, serviceStore, slicesKnown, meshStore>>
    BY <1>9 DEF Publisher!WatchSlices, Publisher!Timer, Publisher!vars, Publisher!storeVars
  <2> QED  BY <1>2, <1>3, <2>1
<1>10. CASE Publisher!SyncService \/ Publisher!SyncSlices \/ Publisher!SyncMesh
  BY <1>2, <1>10 DEF Publisher!SyncService, Publisher!SyncSlices, Publisher!SyncMesh
<1> QED
  BY <1>1, <1>4, <1>5, <1>6, <1>7, <1>8, <1>9, <1>10 DEF Publisher!Next, Publisher!Reconcile

(* A MeshEndpoint that is as it should be stays so until the cluster       *)
(* changes, whatever call is under way, fails or comes late, and whenever  *)
(* the controller restarts, for any Services and lists                     *)
(* (mesh-cni-service-controller/src/controller.rs:62-123).                 *)
THEOREM PublishedStays == Publisher!Spec => Publisher!SettledStays
<1> DEFINE Stays == Publisher!Settled =>
                      Publisher!Settled' \/ Publisher!clusterVars' # Publisher!clusterVars
<1>1. Counted /\ [Publisher!Next]_(Publisher!vars) => [Stays]_(Publisher!vars)
  BY SettledStep DEF Counted
<1>2. Publisher!Spec => [][Stays]_(Publisher!vars)
  <2> HIDE DEF Stays
  <2> QED  BY <1>1, ChangesCounted, PTL DEF Publisher!Spec
<1> QED  BY <1>2 DEF Publisher!SettledStays
=============================================================================
