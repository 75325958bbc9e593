------------------------- MODULE PodIdentity_proofs -------------------------
(***************************************************************************)
(* That the cache of the ip map says what the map says, that the addresses *)
(* of nodes stay the nodes', and that an identity that is right stays, for *)
(* any number of pods, nodes, addresses and failures.                      *)
(***************************************************************************)
EXTENDS PodIdentity, TLAPS

Values  == Ids \union NodeIds \union {None}
PodIps  == UNION PodAddresses
NodeIps == UNION {NodeAddresses[n] : n \in Nodes}

(* As much of the types as the invariants need.                            *)
ClusterTypes ==
  /\ pods \in [Pods -> PodObject \union {None}]
  /\ nsLabels \in NsLabels \union {None}
  /\ identities \in [Names -> Ids \union {None}]
  /\ nodes \subseteq Nodes
  /\ changes \in Nat

StoreTypes ==
  /\ podStore \in [Pods -> PodObject \union {None}]
  /\ nsStore \in NsLabels \union {None}
  /\ idStore \in [Names -> Ids \union {None}]

MapTypes == ipMap \in [Addresses -> Values] /\ ipCache \in [Addresses -> Values]

(* What pods of the pods' network have, and what a run of either           *)
(* controller writes.                                                      *)
AddressesOf(f) == \A p \in Pods \ HostPods : f[p] # None => f[p].addrs \subseteq PodIps

PodRunOK ==
  /\ podRun \in RunType
  /\ podRun # Idle => podRun.name \in Names
  /\ podRun.todo \subseteq PodIps

NodeRunOK ==
  /\ nodeRun \in RunType
  /\ nodeRun.todo \subseteq NodeIps
  /\ nodeRun.todo # {} => nodeRun.id \in NodeIds

IpInv ==
  /\ ClusterTypes /\ AddressesOf(pods)
  /\ StoreTypes /\ AddressesOf(podStore)
  /\ PodRunOK /\ NodeRunOK
  /\ MapTypes /\ CacheInMap /\ NodeAddressesAreNodes

-----------------------------------------------------------------------------
LEMMA AddressKinds == PodIps \subseteq Addresses /\ NodeIps \subseteq Addresses /\ PodIps \intersect NodeIps = {}
  BY PodCidr DEF PodIps, NodeIps, Addresses

LEMMA NodeIdsAreNoNone == None \notin NodeIds /\ None \notin Ids
  BY NoneIsNothing

LEMMA IdleRun ==
  /\ Idle \in RunType /\ Idle.todo = {} /\ Idle.id = None /\ Idle.object = None /\ Idle.name = None
  BY DEF Idle, RunType

LEMMA EmptyIsMap == EmptyMap \in [Addresses -> Values]
  BY DEF EmptyMap, Values

LEMMA InitIp == Init => IpInv
<1> SUFFICES ASSUME Init PROVE IpInv
  OBVIOUS
<1>1. \A p \in Pods : /\ pods[p] \in PodObject \union {None}
                      /\ pods[p] # None => pods[p].addrs \in {{}} \union PodAddresses
  <2>1. \A s \in {{}} \union PodAddresses : s \in SUBSET Addresses
    BY DEF Addresses
  <2>2. \A p \in Pods : pods[p] \in {None} \union [labels : PodLabels, addrs : {{}} \union PodAddresses, ended : {FALSE}]
    BY DEF Init
  <2> QED
    BY <2>1, <2>2, NoneIsNoPod DEF PodObject
<1>2. pods \in [Pods -> PodObject \union {None}]
  <2>1. pods \in [Pods -> {None} \union [labels : PodLabels, addrs : {{}} \union PodAddresses, ended : {FALSE}]]
    BY DEF Init
  <2> QED
    BY <2>1, <1>1
<1>3. identities \in [Names -> Ids \union {None}]
  BY DEF Init
<1>4. ClusterTypes
  BY <1>2, <1>3 DEF Init, ClusterTypes
<1>5. StoreTypes
  BY <1>4 DEF Init, StoreTypes, ClusterTypes
<1>6. AddressesOf(pods) /\ AddressesOf(podStore)
  <2>1. AddressesOf(pods)
    BY <1>1, HostPodsArePods DEF AddressesOf, PodIps
  <2> QED
    BY <2>1 DEF Init
<1>7. PodRunOK /\ NodeRunOK
  BY IdleRun DEF Init, PodRunOK, NodeRunOK
<1>8. MapTypes
  BY EmptyIsMap DEF Init, MapTypes
<1>9. CacheInMap /\ NodeAddressesAreNodes
  <2>1. \A a \in Addresses : ipMap[a] = None /\ ipCache[a] = None
    BY DEF Init, EmptyMap
  <2>2. \A n \in Nodes : NodeAddresses[n] \subseteq Addresses
    BY DEF Addresses
  <2> QED
    BY <2>1, <2>2 DEF CacheInMap, NodeAddressesAreNodes
<1> QED
  BY <1>4, <1>5, <1>6, <1>7, <1>8, <1>9 DEF IpInv

-----------------------------------------------------------------------------
(* The cluster: only pods change that concerns the invariant.              *)
LEMMA PodsAfter ==
  ASSUME IpInv, NEW p \in Pods, NEW o \in PodObject \union {None}, Change, SetPod(p, o),
         o # None /\ p \notin HostPods => o.addrs \subseteq PodIps
  PROVE  IpInv'
<1>1. changes' \in Nat
  BY DEF IpInv, ClusterTypes, Change
<1>2. pods' = [pods EXCEPT ![p] = o] /\ UNCHANGED <<nodes, nsLabels, identities>>
  BY DEF SetPod
<1>3. UNCHANGED <<storeVars, podRun, nodeRun, mapVars>>
  BY DEF Change
<1>4. ClusterTypes' /\ AddressesOf(pods)'
  BY <1>1, <1>2 DEF IpInv, ClusterTypes, AddressesOf
<1>5. StoreTypes' /\ AddressesOf(podStore)'
  BY <1>3 DEF IpInv, StoreTypes, AddressesOf, storeVars
<1>6. PodRunOK' /\ NodeRunOK' /\ MapTypes' /\ CacheInMap' /\ NodeAddressesAreNodes'
  BY <1>3 DEF IpInv, PodRunOK, NodeRunOK, MapTypes, CacheInMap, NodeAddressesAreNodes, mapVars
<1> QED
  BY <1>4, <1>5, <1>6 DEF IpInv

LEMMA ChangePodStep == ASSUME IpInv, NEW p \in Pods, ChangePod(p) PROVE IpInv'
<1>0. pods \in [Pods -> PodObject \union {None}] /\ AddressesOf(pods)
  BY DEF IpInv, ClusterTypes
<1>1. CASE CreatePod(p)
  <2>1. PICK l \in PodLabels : SetPod(p, [labels |-> l, addrs |-> {}, ended |-> FALSE])
    BY <1>1 DEF CreatePod
  <2>2. [labels |-> l, addrs |-> {}, ended |-> FALSE] \in PodObject
    BY DEF PodObject
  <2> QED
    BY <1>1, <2>1, <2>2, PodsAfter DEF CreatePod
<1>2. CASE AssignAddresses(p)
  <2>1. PICK s \in AddressSets(p) : SetPod(p, [pods[p] EXCEPT !.addrs = s])
    BY <1>2 DEF AssignAddresses
  <2>2. nodes \subseteq Nodes
    BY DEF IpInv, ClusterTypes
  <2>3. s \subseteq Addresses
    BY <2>1, <2>2, NodesHaveAddresses DEF AddressSets, Addresses
  <2>4. p \notin HostPods => s \subseteq PodIps
    BY <2>1 DEF AddressSets, PodIps
  <2>5. pods[p] \in PodObject
    BY <1>0, <1>2 DEF AssignAddresses, Running, Exists
  <2>6. [pods[p] EXCEPT !.addrs = s] \in PodObject /\ [pods[p] EXCEPT !.addrs = s].addrs = s
    BY <2>3, <2>5 DEF PodObject
  <2> QED
    BY <1>2, <2>1, <2>4, <2>6, PodsAfter DEF AssignAddresses
<1>3. CASE RelabelPod(p)
  <2>1. PICK l \in PodLabels : SetPod(p, [pods[p] EXCEPT !.labels = l])
    BY <1>3 DEF RelabelPod
  <2>2. pods[p] \in PodObject
    BY <1>0, <1>3 DEF RelabelPod, Exists
  <2>3. /\ [pods[p] EXCEPT !.labels = l] \in PodObject
        /\ [pods[p] EXCEPT !.labels = l].addrs = pods[p].addrs
    BY <2>2 DEF PodObject
  <2>4. p \notin HostPods => pods[p].addrs \subseteq PodIps
    BY <1>0, <1>3 DEF AddressesOf, RelabelPod, Exists
  <2> QED
    BY <1>3, <2>1, <2>3, <2>4, PodsAfter DEF RelabelPod
<1>4. CASE EndPod(p)
  <2>1. SetPod(p, [pods[p] EXCEPT !.ended = TRUE])
    BY <1>4 DEF EndPod
  <2>2. pods[p] \in PodObject
    BY <1>0, <1>4 DEF EndPod, Running, Exists
  <2>3. /\ [pods[p] EXCEPT !.ended = TRUE] \in PodObject
        /\ [pods[p] EXCEPT !.ended = TRUE].addrs = pods[p].addrs
    BY <2>2 DEF PodObject
  <2>4. p \notin HostPods => pods[p].addrs \subseteq PodIps
    BY <1>0, <1>4 DEF AddressesOf, EndPod, Running, Exists
  <2> QED
    BY <1>4, <2>1, <2>3, <2>4, PodsAfter DEF EndPod
<1>5. CASE DeletePod(p)
  BY <1>5, PodsAfter DEF DeletePod
<1> QED
  BY <1>1, <1>2, <1>3, <1>4, <1>5 DEF ChangePod

LEMMA ClusterStep ==
  ASSUME IpInv, RelabelNamespace \/ Identify PROVE IpInv'
<1>1. ClusterTypes' /\ UNCHANGED pods
  <2>1. CASE RelabelNamespace
    BY <2>1 DEF IpInv, ClusterTypes, RelabelNamespace, Change
  <2>2. ASSUME NEW n \in Names, Generate(n) \/ Collect(n) PROVE ClusterTypes' /\ UNCHANGED pods
    <3>1. PICK id \in Ids \union {None} : SetIdentity(n, id)
      BY <2>2 DEF Generate, Collect
    <3> QED
      BY <3>1 DEF IpInv, ClusterTypes, SetIdentity
  <2> QED
    BY <2>1, <2>2 DEF Identify
<1>2. UNCHANGED <<storeVars, podRun, nodeRun, mapVars>>
  BY DEF RelabelNamespace, Change, Identify, Generate, Collect, SetIdentity
<1>3. StoreTypes' /\ AddressesOf(podStore)' /\ AddressesOf(pods)'
  BY <1>1, <1>2 DEF IpInv, StoreTypes, AddressesOf, storeVars
<1>4. PodRunOK' /\ NodeRunOK' /\ MapTypes' /\ CacheInMap' /\ NodeAddressesAreNodes'
  BY <1>2 DEF IpInv, PodRunOK, NodeRunOK, MapTypes, CacheInMap, NodeAddressesAreNodes, mapVars
<1> QED
  BY <1>1, <1>3, <1>4 DEF IpInv

-----------------------------------------------------------------------------
(* Steps that leave alone all that the invariant is about but the stores.  *)
LEMMA SyncStep == ASSUME IpInv, Sync PROVE IpInv'
<1>1. UNCHANGED <<clusterVars, podRun, nodeRun, mapVars>>
  BY DEF Sync, SyncPod, SyncNamespace, SyncIdentity
<1>2. StoreTypes' /\ AddressesOf(podStore)'
  <2>1. ASSUME NEW p \in Pods, SyncPod(p) PROVE StoreTypes' /\ AddressesOf(podStore)'
    <3>1. podStore' = [podStore EXCEPT ![p] = pods[p]] /\ UNCHANGED <<nsStore, idStore>>
      BY <2>1 DEF SyncPod
    <3>2. pods[p] \in PodObject \union {None}
      BY DEF IpInv, ClusterTypes
    <3> QED
      BY <3>1, <3>2 DEF IpInv, StoreTypes, AddressesOf
  <2>2. CASE SyncNamespace
    BY <2>2 DEF SyncNamespace, IpInv, ClusterTypes, StoreTypes, AddressesOf
  <2>3. ASSUME NEW n \in Names, SyncIdentity(n) PROVE StoreTypes' /\ AddressesOf(podStore)'
    <3>1. idStore' = [idStore EXCEPT ![n] = identities[n]] /\ UNCHANGED <<podStore, nsStore>>
      BY <2>3 DEF SyncIdentity
    <3>2. identities[n] \in Ids \union {None}
      BY DEF IpInv, ClusterTypes
    <3> QED
      BY <3>1, <3>2 DEF IpInv, StoreTypes, AddressesOf
  <2> QED
    BY <2>1, <2>2, <2>3 DEF Sync
<1>3. ClusterTypes' /\ AddressesOf(pods)'
  BY <1>1 DEF IpInv, ClusterTypes, AddressesOf, clusterVars
<1>4. PodRunOK' /\ NodeRunOK' /\ MapTypes' /\ CacheInMap' /\ NodeAddressesAreNodes'
  BY <1>1 DEF IpInv, PodRunOK, NodeRunOK, MapTypes, CacheInMap, NodeAddressesAreNodes, mapVars
<1> QED
  BY <1>2, <1>3, <1>4 DEF IpInv

(* ... or the runs and the map.                                            *)
LEMMA RunsAndMapOnly ==
  ASSUME IpInv, UNCHANGED <<clusterVars, storeVars>>,
         PodRunOK', NodeRunOK', MapTypes', CacheInMap', NodeAddressesAreNodes'
  PROVE  IpInv'
<1>1. ClusterTypes' /\ AddressesOf(pods)'
  BY DEF IpInv, ClusterTypes, AddressesOf, clusterVars
<1>2. StoreTypes' /\ AddressesOf(podStore)'
  BY DEF IpInv, StoreTypes, AddressesOf, storeVars
<1> QED
  BY <1>1, <1>2 DEF IpInv

LEMMA RunsOnly ==
  ASSUME IpInv, UNCHANGED <<clusterVars, storeVars, mapVars>>, PodRunOK', NodeRunOK'
  PROVE  IpInv'
<1>1. MapTypes' /\ CacheInMap' /\ NodeAddressesAreNodes'
  BY DEF IpInv, MapTypes, CacheInMap, NodeAddressesAreNodes, mapVars
<1> QED
  BY <1>1, RunsAndMapOnly

(* An update that keeps nodes and pods apart.                              *)
LEMMA UpdateKeeps ==
  ASSUME MapTypes, CacheInMap, NodeAddressesAreNodes,
         NEW a \in Addresses, NEW id \in Values, Update(a, id),
         a \in NodeIps => id \in NodeIds
  PROVE  MapTypes' /\ CacheInMap' /\ NodeAddressesAreNodes'
<1>1. CASE UNCHANGED mapVars
  BY <1>1 DEF mapVars, MapTypes, CacheInMap, NodeAddressesAreNodes
<1>2. CASE ipMap' = [ipMap EXCEPT ![a] = id] /\ ipCache' = [ipCache EXCEPT ![a] = id]
  <2>1. MapTypes'
    BY <1>2 DEF MapTypes
  <2>2. CacheInMap'
    BY <1>2 DEF MapTypes, CacheInMap
  <2>3. \A n \in Nodes : \A b \in NodeAddresses[n] : b \in NodeIps /\ b \in Addresses
    BY AddressKinds DEF NodeIps
  <2>4. NodeAddressesAreNodes'
    BY <1>2, <2>3 DEF MapTypes, NodeAddressesAreNodes
  <2> QED
    BY <2>1, <2>2, <2>4
<1> QED
  BY <1>1, <1>2 DEF Update

-----------------------------------------------------------------------------
LEMMA IdleIsOK == ASSUME podRun' = Idle PROVE PodRunOK'
  BY IdleRun DEF PodRunOK

LEMMA StartPodStep == ASSUME IpInv, NEW p \in Pods, StartPod(p) PROVE IpInv'
<1>1. PodRunOK'
  <2>1. CASE UNCHANGED podRun
    BY <2>1 DEF IpInv, PodRunOK
  <2>2. CASE Begin(p) /\ podStore[p] # None /\ nsStore # None /\ p \notin HostPods
    <3>1. podStore[p] \in PodObject /\ podStore[p].addrs \subseteq PodIps
      BY <2>2 DEF IpInv, StoreTypes, AddressesOf
    <3>2. nsStore \in NsLabels /\ podStore[p].labels \in PodLabels
      BY <2>2, <3>1 DEF IpInv, StoreTypes, PodObject
    <3>3. <<nsStore, podStore[p].labels>> \in Names
      BY <3>2 DEF Names
    <3> DEFINE name == <<nsStore, podStore[p].labels>>
    <3> HIDE DEF name
    <3>4. podRun' = [object |-> p, name |-> name, id |-> None, todo |-> podStore[p].addrs]
      BY <2>2 DEF Begin, Idle, name
    <3>5. podStore[p].addrs \in SUBSET Addresses /\ name \in Names
      BY <3>1, <3>3, AddressKinds DEF name
    <3>6. podRun' \in RunType
      BY <3>4, <3>5 DEF RunType, Objects
    <3> QED
      BY <3>1, <3>4, <3>5, <3>6 DEF PodRunOK
  <2> QED
    BY <2>1, <2>2 DEF StartPod
<1>2. NodeRunOK'
  BY DEF IpInv, NodeRunOK, StartPod
<1> QED
  BY <1>1, <1>2, RunsOnly DEF StartPod

LEMMA PodStepKeeps == ASSUME IpInv, PodStep PROVE IpInv'
<1>0. podRun \in RunType /\ podRun.todo \subseteq PodIps
  BY DEF IpInv, PodRunOK
<1>1. CASE MatchIdentity
  <2>1. PodRunOK'
    <3>1. CASE EndPodRun
      BY <3>1, IdleIsOK DEF EndPodRun
    <3>2. CASE podRun' = [podRun EXCEPT !.id = idStore[podRun.name]]
      <4>1. podRun.name \in Names
        BY <1>1 DEF IpInv, PodRunOK, MatchIdentity
      <4>2. idStore[podRun.name] \in Ids \union {None}
        BY <4>1 DEF IpInv, StoreTypes
      <4>3. podRun' \in RunType /\ podRun'.name = podRun.name /\ podRun'.todo = podRun.todo
        BY <1>0, <3>2, <4>2 DEF RunType
      <4> QED
        BY <1>0, <4>1, <4>3 DEF PodRunOK
    <3> QED
      BY <1>1, <3>1, <3>2 DEF MatchIdentity
  <2>2. NodeRunOK'
    BY <1>1 DEF IpInv, NodeRunOK, MatchIdentity
  <2> QED
    BY <1>1, <2>1, <2>2, RunsOnly DEF MatchIdentity
<1>2. CASE WritePodAddress
  <2>1. PICK a \in podRun.todo : Update(a, podRun.id) /\ podRun' = [podRun EXCEPT !.todo = @ \ {a}]
    BY <1>2 DEF WritePodAddress
  <2>2. podRun # Idle
    BY <2>1, IdleRun
  <2>3. PodRunOK'
    <3>1. podRun' \in RunType /\ podRun'.name = podRun.name /\ podRun'.todo \subseteq podRun.todo
      BY <1>0, <2>1 DEF RunType
    <3>2. podRun.name \in Names
      BY <2>2 DEF IpInv, PodRunOK
    <3> QED
      BY <1>0, <3>1, <3>2 DEF PodRunOK
  <2>4. NodeRunOK'
    BY <1>2 DEF IpInv, NodeRunOK, WritePodAddress
  <2>5. podRun.id \in Values
    BY <1>0 DEF RunType, Values
  <2>6. a \in Addresses /\ a \notin NodeIps
    BY <1>0, <2>1, AddressKinds
  <2>7. MapTypes' /\ CacheInMap' /\ NodeAddressesAreNodes'
    BY <2>1, <2>5, <2>6, UpdateKeeps DEF IpInv
  <2> QED
    BY <1>2, <2>3, <2>4, <2>7, RunsAndMapOnly DEF WritePodAddress
<1>3. CASE FinishPod
  <2>1. PodRunOK'
    BY <1>3, IdleIsOK DEF FinishPod, EndPodRun
  <2>2. NodeRunOK'
    BY <1>3 DEF IpInv, NodeRunOK, FinishPod
  <2> QED
    BY <1>3, <2>1, <2>2, RunsOnly DEF FinishPod
<1> QED
  BY <1>1, <1>2, <1>3 DEF PodStep

LEMMA NodeStepKeeps == ASSUME IpInv, NodeStep \/ (\E n \in Nodes : StartNode(n)) PROVE IpInv'
<1>0. nodeRun \in RunType /\ nodeRun.todo \subseteq NodeIps
  BY DEF IpInv, NodeRunOK
<1>1. UNCHANGED <<clusterVars, storeVars, podRun>>
  BY DEF NodeStep, WriteNodeAddress, FinishNode, StartNode
<1>2. PodRunOK'
  BY <1>1 DEF IpInv, PodRunOK
<1>3. ASSUME NEW n \in Nodes, StartNode(n) PROVE IpInv'
  <2>1. nodeRun' = [object |-> n, name |-> None, id |-> NodeId(n), todo |-> NodeAddresses[n]]
    BY <1>3 DEF StartNode, Idle
  <2>2. NodeId(n) \in NodeIds /\ NodeAddresses[n] \subseteq NodeIps
    BY DEF NodeId, NodeIds, NodeIps
  <2>3. nodeRun' \in RunType
    BY <2>1, <2>2, AddressKinds DEF RunType, Objects
  <2>4. NodeRunOK'
    BY <2>1, <2>2, <2>3 DEF NodeRunOK
  <2> QED
    BY <1>1, <1>2, <1>3, <2>4, RunsOnly DEF StartNode
<1>4. CASE WriteNodeAddress
  <2>1. PICK a \in nodeRun.todo : Update(a, nodeRun.id) /\ nodeRun' = [nodeRun EXCEPT !.todo = @ \ {a}]
    BY <1>4 DEF WriteNodeAddress
  <2>2. nodeRun.id \in NodeIds
    BY <2>1 DEF IpInv, NodeRunOK
  <2>3. NodeRunOK'
    <3>1. nodeRun' \in RunType /\ nodeRun'.id = nodeRun.id /\ nodeRun'.todo \subseteq nodeRun.todo
      BY <1>0, <2>1 DEF RunType
    <3> QED
      BY <1>0, <2>2, <3>1 DEF NodeRunOK
  <2>4. a \in Addresses /\ nodeRun.id \in Values
    BY <1>0, <2>1, <2>2, AddressKinds DEF Values
  <2>5. MapTypes' /\ CacheInMap' /\ NodeAddressesAreNodes'
    BY <2>1, <2>2, <2>4, UpdateKeeps DEF IpInv
  <2> QED
    BY <1>1, <1>2, <2>3, <2>5, RunsAndMapOnly
<1>5. CASE FinishNode
  <2>1. NodeRunOK'
    BY <1>5, IdleRun DEF FinishNode, EndNodeRun, NodeRunOK
  <2> QED
    BY <1>1, <1>2, <1>5, <2>1, RunsOnly DEF FinishNode
<1> QED
  BY <1>3, <1>4, <1>5 DEF NodeStep

LEMMA FailureStep == ASSUME IpInv, PodUpdateFails \/ NodeUpdateFails PROVE IpInv'
<1>1. UNCHANGED <<clusterVars, storeVars, mapVars>>
  BY DEF PodUpdateFails, NodeUpdateFails, MapCallFails
<1>2. PodRunOK' /\ NodeRunOK'
  BY IdleRun DEF PodUpdateFails, NodeUpdateFails, EndPodRun, EndNodeRun, IpInv, PodRunOK, NodeRunOK
<1> QED
  BY <1>1, <1>2, RunsOnly

LEMMA RestartStep == ASSUME IpInv, Restart PROVE IpInv'
<1>1. UNCHANGED clusterVars
  BY DEF Restart
<1>2. ClusterTypes' /\ AddressesOf(pods)'
  BY <1>1 DEF IpInv, ClusterTypes, AddressesOf, clusterVars
<1>3. StoreTypes' /\ AddressesOf(podStore)'
  BY DEF IpInv, ClusterTypes, StoreTypes, AddressesOf, Restart
<1>4. PodRunOK' /\ NodeRunOK'
  BY IdleRun DEF Restart, PodRunOK, NodeRunOK
<1>5. MapTypes' /\ CacheInMap' /\ NodeAddressesAreNodes'
  <2>1. MapTypes'
    BY EmptyIsMap DEF IpInv, MapTypes, Restart
  <2>2. CacheInMap'
    BY DEF CacheInMap, Restart, EmptyMap
  <2>3. \A n \in Nodes : NodeAddresses[n] \subseteq Addresses
    BY NodesHaveAddresses
  <2>4. NodeAddressesAreNodes'
    BY <2>3 DEF IpInv, NodeAddressesAreNodes, Restart, EmptyMap
  <2> QED
    BY <2>1, <2>2, <2>4
<1> QED
  BY <1>2, <1>3, <1>4, <1>5 DEF IpInv

LEMMA StepIp == IpInv /\ [Next]_vars => IpInv'
<1> SUFFICES ASSUME IpInv, [Next]_vars PROVE IpInv'
  OBVIOUS
<1>1. ASSUME NEW o \in Objects, Timer(o) PROVE IpInv'
  BY <1>1, RunsOnly DEF Timer, IpInv, PodRunOK, NodeRunOK
<1>2. CASE UNCHANGED vars
  BY <1>2, RunsOnly DEF vars, IpInv, PodRunOK, NodeRunOK
<1> QED
  BY <1>1, <1>2, ChangePodStep, ClusterStep, SyncStep, StartPodStep, PodStepKeeps, NodeStepKeeps,
     FailureStep, RestartStep DEF Next

LEMMA IpInvariant == Spec => []IpInv
<1>1. Init => IpInv
  BY InitIp
<1>2. IpInv /\ [Next]_vars => IpInv'
  BY StepIp
<1> QED
  BY <1>1, <1>2, PTL DEF Spec

(* Whatever calls fail and however often the agent restarts, what the      *)
(* cache has is in the map (ip/state.rs:155-169).                          *)
THEOREM CacheAlwaysInMap == Spec => []CacheInMap
<1>1. IpInv => CacheInMap
  BY DEF IpInv
<1> QED
  BY <1>1, IpInvariant, PTL

(* The address of a node is never taken for that of a pod, although pods   *)
(* of the host network have it, too (pod.rs:28-34).                        *)
THEOREM NodesKeepTheirAddresses == Spec => []NodeAddressesAreNodes
<1>1. IpInv => NodeAddressesAreNodes
  BY DEF IpInv
<1> QED
  BY <1>1, IpInvariant, PTL

-----------------------------------------------------------------------------
(* An identity that is right stays.  What a step must keep of it, while    *)
(* the cluster does not change.                                            *)
RunAgrees(p, a) ==
  a \in podRun.todo => podRun.name = Name(p) /\ podRun.id \in {None, identities[Name(p)]}

StoresAgree(p, a) ==
  /\ Claims(podStore, p, a)
  /\ podStore[p].labels = pods[p].labels
  /\ nsStore = nsLabels /\ idStore[Name(p)] = identities[Name(p)]
  /\ \A q \in Pods \ {p} : ~Claims(podStore, q, a)

LEMMA SettledAfter ==
  ASSUME NEW p \in Pods, NEW a \in PodIps, Settled(p, a), UNCHANGED clusterVars,
         StoresAgree(p, a)', RunAgrees(p, a)', ipMap'[a] = ipMap[a]
  PROVE  Settled(p, a)'
<1>1. UNCHANGED <<pods, identities, nsLabels>>
  BY DEF clusterVars
<1>2. UNCHANGED Name(p)
  BY <1>1 DEF Name
<1>3. Claims(pods, p, a)' /\ \A q \in Pods \ {p} : ~Claims(pods, q, a)'
  BY <1>1 DEF Settled, Claims
<1>4. identities'[Name(p)'] # None /\ ipMap'[a] = identities'[Name(p)']
  BY <1>1, <1>2 DEF Settled
<1> QED
  BY <1>3, <1>4 DEF Settled, StoresAgree, RunAgrees

LEMMA StoresStay ==
  ASSUME NEW p \in Pods, NEW a \in PodIps, Settled(p, a), UNCHANGED <<clusterVars, storeVars>>
  PROVE  StoresAgree(p, a)'
<1>1. UNCHANGED <<pods, identities, nsLabels, podStore, nsStore, idStore>>
  BY DEF clusterVars, storeVars
<1> QED
  BY <1>1 DEF Settled, StoresAgree, Claims, Name

LEMMA RunStays ==
  ASSUME NEW p \in Pods, NEW a \in PodIps, Settled(p, a), UNCHANGED <<clusterVars, podRun>>
  PROVE  RunAgrees(p, a)'
<1>1. UNCHANGED <<identities, Name(p)>>
  BY DEF clusterVars, Name
<1> QED
  BY <1>1 DEF Settled, RunAgrees

LEMMA NoRunAgrees == ASSUME NEW p, NEW a, podRun' = Idle PROVE RunAgrees(p, a)'
  BY IdleRun DEF RunAgrees

(* Stores that catch up agree the more; the others are as the cluster is.  *)
LEMMA SyncSettled ==
  ASSUME IpInv, NEW p \in Pods, NEW a \in PodIps, Settled(p, a), UNCHANGED clusterVars, Sync
  PROVE  Settled(p, a)'
<1>1. UNCHANGED <<pods, identities, nsLabels, podRun, ipMap, Name(p)>>
  BY DEF Sync, SyncPod, SyncNamespace, SyncIdentity, clusterVars, mapVars, Name
<1>2. /\ StoresAgree(p, a)
      /\ Claims(pods, p, a) /\ \A q \in Pods \ {p} : ~Claims(pods, q, a)
      /\ podStore \in [Pods -> PodObject \union {None}]
  BY DEF Settled, StoresAgree, IpInv, StoreTypes
<1>3. StoresAgree(p, a)'
  <2>1. ASSUME NEW q \in Pods, SyncPod(q) PROVE StoresAgree(p, a)'
    <3>1. podStore' = [podStore EXCEPT ![q] = pods[q]] /\ UNCHANGED <<nsStore, idStore>>
      BY <2>1 DEF SyncPod
    <3>2. \A r \in Pods : podStore'[r] \in {podStore[r], pods[r]}
      BY <3>1, <1>2
    <3>3. Claims(podStore, p, a)' /\ podStore'[p].labels = pods[p].labels
      BY <3>2, <1>2 DEF StoresAgree, Claims
    <3>4. \A r \in Pods \ {p} : ~Claims(podStore, r, a)'
      BY <3>2, <1>2 DEF StoresAgree, Claims
    <3> QED
      BY <1>1, <1>2, <3>1, <3>3, <3>4 DEF StoresAgree
  <2>2. ~SyncNamespace
    BY <1>2 DEF SyncNamespace, StoresAgree
  <2>3. ASSUME NEW n \in Names, SyncIdentity(n) PROVE StoresAgree(p, a)'
    <3>1. idStore' = [idStore EXCEPT ![n] = identities[n]] /\ UNCHANGED <<podStore, nsStore>>
      BY <2>3 DEF SyncIdentity
    <3>2. idStore'[Name(p)] = identities[Name(p)]
      BY <3>1, <1>2 DEF StoresAgree, IpInv, StoreTypes
    <3> QED
      BY <1>1, <1>2, <3>1, <3>2 DEF StoresAgree, Claims
  <2> QED
    BY <2>1, <2>2, <2>3 DEF Sync
<1> QED
  BY <1>1, <1>3, RunStays, SettledAfter

(* A pod that starts and has the address is the one that claims it.        *)
LEMMA StartPodSettled ==
  ASSUME IpInv, NEW p \in Pods, NEW a \in PodIps, Settled(p, a), NEW q \in Pods, StartPod(q)
  PROVE  Settled(p, a)'
<1>1. UNCHANGED <<clusterVars, storeVars, mapVars>>
  BY DEF StartPod
<1>2. CASE UNCHANGED podRun
  BY <1>1, <1>2, StoresStay, RunStays, SettledAfter DEF mapVars
<1>3. CASE Begin(q) /\ podStore[q] # None /\ q \notin HostPods
  <2> DEFINE name == <<nsStore, podStore[q].labels>>
  <2>1. q = p => name = Name(p)
    BY DEF Settled, Name
  <2> HIDE DEF name
  <2>2. podRun' = [object |-> q, name |-> name, id |-> None, todo |-> podStore[q].addrs]
    BY <1>3 DEF Begin, Idle, name
  <2>3. a \in podStore[q].addrs => q = p
    BY <1>3 DEF Settled, Claims
  <2>4. UNCHANGED <<identities, Name(p)>>
    BY <1>1 DEF clusterVars, Name
  <2>5. RunAgrees(p, a)'
    BY <2>1, <2>2, <2>3, <2>4 DEF RunAgrees
  <2> QED
    BY <1>1, <2>5, StoresStay, SettledAfter DEF mapVars
<1> QED
  BY <1>2, <1>3 DEF StartPod

LEMMA UpdateLeaves ==
  ASSUME IpInv, NEW a \in PodIps, NEW b, NEW id, Update(b, id), a = b => id = ipMap[a]
  PROVE  ipMap'[a] = ipMap[a]
<1>1. ipMap \in [Addresses -> Values] /\ a \in Addresses
  BY AddressKinds DEF IpInv, MapTypes
<1>2. ipMap' = ipMap \/ ipMap' = [ipMap EXCEPT ![b] = id]
  BY DEF Update, mapVars
<1> QED
  BY <1>1, <1>2

LEMMA PodStepSettled ==
  ASSUME IpInv, NEW p \in Pods, NEW a \in PodIps, Settled(p, a), PodStep
  PROVE  Settled(p, a)'
<1>1. UNCHANGED <<clusterVars, storeVars>>
  BY DEF PodStep, MatchIdentity, WritePodAddress, FinishPod
<1>2. StoresAgree(p, a)' /\ UNCHANGED <<identities, Name(p)>>
  BY <1>1, StoresStay DEF clusterVars, Name
<1>3. podRun \in RunType /\ RunAgrees(p, a)
  BY DEF IpInv, PodRunOK, Settled, RunAgrees
<1>4. CASE MatchIdentity
  <2>1. ipMap' = ipMap
    BY <1>4 DEF MatchIdentity, mapVars
  <2>2. CASE EndPodRun
    BY <1>1, <1>2, <2>1, <2>2, NoRunAgrees, SettledAfter DEF EndPodRun
  <2>3. CASE podRun' = [podRun EXCEPT !.id = idStore[podRun.name]]
    <3>1. podRun'.todo = podRun.todo /\ podRun'.name = podRun.name /\ podRun'.id = idStore[podRun.name]
      BY <1>3, <2>3 DEF RunType
    <3>2. RunAgrees(p, a)'
      BY <1>2, <1>3, <3>1 DEF RunAgrees, Settled
    <3> QED
      BY <1>1, <1>2, <2>1, <3>2, SettledAfter
  <2> QED
    BY <1>4, <2>2, <2>3 DEF MatchIdentity
<1>5. CASE WritePodAddress
  <2>1. PICK b \in podRun.todo : Update(b, podRun.id) /\ podRun' = [podRun EXCEPT !.todo = @ \ {b}]
    BY <1>5 DEF WritePodAddress
  <2>2. podRun'.todo \subseteq podRun.todo /\ podRun'.name = podRun.name /\ podRun'.id = podRun.id
    BY <1>3, <2>1 DEF RunType
  <2>3. RunAgrees(p, a)'
    BY <1>2, <1>3, <2>2 DEF RunAgrees
  <2>4. a = b => podRun.id = ipMap[a]
    BY <1>3, <1>5, <2>1 DEF RunAgrees, Settled, WritePodAddress
  <2>5. ipMap'[a] = ipMap[a]
    BY <2>1, <2>4, UpdateLeaves
  <2> QED
    BY <1>1, <1>2, <2>3, <2>5, SettledAfter
<1>6. CASE FinishPod
  <2>1. ipMap' = ipMap /\ podRun' = Idle
    BY <1>6 DEF FinishPod, EndPodRun, mapVars
  <2> QED
    BY <1>1, <1>2, <2>1, NoRunAgrees, SettledAfter
<1> QED
  BY <1>4, <1>5, <1>6 DEF PodStep

(* A node's reconcile writes the addresses of the node.                    *)
LEMMA NodeStepSettled ==
  ASSUME IpInv, NEW p \in Pods, NEW a \in PodIps, Settled(p, a),
         NodeStep \/ (\E n \in Nodes : StartNode(n)) \/ PodUpdateFails \/ NodeUpdateFails
  PROVE  Settled(p, a)'
<1>1. UNCHANGED <<clusterVars, storeVars>>
  BY DEF NodeStep, WriteNodeAddress, FinishNode, StartNode, PodUpdateFails, NodeUpdateFails, MapCallFails
<1>2. RunAgrees(p, a)'
  <2>1. podRun' = podRun \/ podRun' = Idle
    BY DEF NodeStep, WriteNodeAddress, FinishNode, StartNode, PodUpdateFails, NodeUpdateFails, EndPodRun
  <2> QED
    BY <1>1, <2>1, RunStays, NoRunAgrees
<1>3. ipMap'[a] = ipMap[a]
  <2>1. CASE WriteNodeAddress
    <3>1. PICK b \in nodeRun.todo : Update(b, nodeRun.id)
      BY <2>1 DEF WriteNodeAddress
    <3>2. a # b
      BY <3>1, AddressKinds DEF IpInv, NodeRunOK
    <3> QED
      BY <3>1, <3>2, UpdateLeaves
  <2>2. CASE FinishNode \/ (\E n \in Nodes : StartNode(n)) \/ PodUpdateFails \/ NodeUpdateFails
    BY <2>2 DEF FinishNode, StartNode, PodUpdateFails, NodeUpdateFails, MapCallFails, mapVars
  <2> QED
    BY <2>1, <2>2 DEF NodeStep
<1> QED
  BY <1>1, <1>2, <1>3, StoresStay, SettledAfter

LEMMA RestartSettled ==
  ASSUME NEW p \in Pods, NEW a \in PodIps, Settled(p, a), Restart
  PROVE  Settled(p, a)' \/ ipMap' = EmptyMap
<1>1. UNCHANGED <<clusterVars, pods, identities, nsLabels, Name(p)>>
  BY DEF Restart, clusterVars, Name
<1>2. podStore' = pods /\ nsStore' = nsLabels /\ idStore' = identities /\ podRun' = Idle
  BY DEF Restart
<1>3. StoresAgree(p, a)'
  BY <1>1, <1>2 DEF StoresAgree, Settled, Claims
<1>4. RunAgrees(p, a)'
  BY <1>2, NoRunAgrees
<1> QED
  BY <1>1, <1>3, <1>4, SettledAfter DEF Restart

(* The other steps change the cluster or nothing of this.                  *)
LEMMA ClusterMoves ==
  ASSUME IpInv, (\E p \in Pods : ChangePod(p)) \/ RelabelNamespace \/ Identify
  PROVE  clusterVars' # clusterVars
<1>1. ASSUME Change PROVE clusterVars' # clusterVars
  BY <1>1 DEF Change, clusterVars, IpInv, ClusterTypes
<1>2. ASSUME NEW n \in Names, Generate(n) \/ Collect(n) PROVE identities' # identities
  <2>1. PICK id \in Ids \union {None} : SetIdentity(n, id) /\ id # identities[n]
    BY <1>2, NodeIdsAreNoNone DEF Generate, Collect
  <2>2. identities'[n] = id
    BY <2>1 DEF SetIdentity, IpInv, ClusterTypes
  <2> QED
    BY <2>1, <2>2
<1> QED
  BY <1>1, <1>2 DEF ChangePod, CreatePod, AssignAddresses, RelabelPod, EndPod, DeletePod,
     RelabelNamespace, Identify, clusterVars

LEMMA StepSettled ==
  ASSUME IpInv, [Next]_vars, NEW p \in Pods, NEW a \in PodIps, Settled(p, a)
  PROVE  Settled(p, a)' \/ clusterVars' # clusterVars \/ ipMap' = EmptyMap
<1>1. CASE UNCHANGED vars \/ \E o \in Objects : Timer(o)
  <2>1. UNCHANGED <<clusterVars, storeVars, podRun, ipMap>>
    BY <1>1 DEF vars, Timer, mapVars
  <2> QED
    BY <2>1, StoresStay, RunStays, SettledAfter
<1>2. CASE Sync
  BY <1>2, SyncSettled
<1>3. CASE \E q \in Pods : StartPod(q)
  BY <1>3, StartPodSettled
<1>4. CASE PodStep
  BY <1>4, PodStepSettled
<1>5. CASE NodeStep \/ (\E n \in Nodes : StartNode(n)) \/ PodUpdateFails \/ NodeUpdateFails
  BY <1>5, NodeStepSettled
<1>6. CASE Restart
  BY <1>6, RestartSettled
<1>7. CASE (\E q \in Pods : ChangePod(q)) \/ RelabelNamespace \/ Identify
  BY <1>7, ClusterMoves
<1> QED
  BY <1>1, <1>2, <1>3, <1>4, <1>5, <1>6, <1>7 DEF Next

(* What the controllers know and have written right, no requeue, no late   *)
(* reconcile, no failure and no restart takes back (pod.rs:23-70).         *)
THEOREM RightIdentitiesStay == Spec => SettledStays
<1>1. ASSUME IpInv, [Next]_vars
      PROVE  [\A p \in Pods, a \in UNION PodAddresses :
                Settled(p, a) => \/ Settled(p, a)'
                                 \/ clusterVars' # clusterVars
                                 \/ ipMap' = EmptyMap]_vars
  BY <1>1, StepSettled DEF PodIps
<1> QED
  BY <1>1, IpInvariant, PTL DEF Spec, SettledStays
=============================================================================
