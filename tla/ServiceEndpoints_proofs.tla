----------------------- MODULE ServiceEndpoints_proofs -----------------------
(***************************************************************************)
(* Proofs about ServiceEndpoints for every value of its constants, and     *)
(* that it implements ServiceTable while nothing fails and ids last.       *)
(***************************************************************************)
EXTENDS ServiceRefinement, FiniteSetTheorems, SequenceTheorems, TLAPS

USE FamiliesDisjoint, NoneIsNoValue, PoolsOfEndpoints, IdsBounded, CountsBounded, AccidentKinds

(* A list passed to update is a sequence over its set, of legal length.    *)
LEMMA ListFacts ==
  ASSUME NEW S, NEW eps \in EndpointLists(S)
  PROVE  /\ Len(eps) \in Counts
         /\ \A i \in 1 .. Len(eps) : eps[i] \in S
  BY DEF EndpointLists, Counts

LEMMA EmptyList == ASSUME NEW S PROVE <<>> \in EndpointLists(S)
  BY DEF EndpointLists, Counts

LEMMA ListsGrow ==
  ASSUME NEW S, NEW T, S \subseteq T
  PROVE  EndpointLists(S) \subseteq EndpointLists(T)
  BY DEF EndpointLists, Counts

(* The counter stays a u16 whatever id it is advanced past.                *)
LEMMA BumpStaysInIds ==
  ASSUME nextId \in Ids, NEW id \in Ids
  PROVE  BumpedId(id) \in Ids /\ Wrapped(id) \in Ids
  BY DEF BumpedId, Wrapped, Ids

LEMMA IdleFacts == Idle.kind = "idle" /\ Idle.kind \notin OpKinds
  BY DEF Idle, OpKinds

-----------------------------------------------------------------------------
(* The part of TypeOK about the call in progress, with the facts that its  *)
(* kind gives.                                                             *)
LEMMA OpFacts ==
  ASSUME op \in OpType, op # Idle
  PROVE  /\ op.kind \in OpKinds
         /\ op.key \in Keys
         /\ op.id \in Ids
         /\ op.eps \in EndpointLists(Endpoints)
         /\ op.pos \in Counts
         /\ op.end \in Counts
  BY DEF OpType

LEMMA OpFields ==
  ASSUME op \in OpType, op # Idle,
         NEW kind \in OpKinds, NEW pos \in Counts
  PROVE  /\ [op EXCEPT !.pos = pos] \in OpType
         /\ [op EXCEPT !.kind = kind] \in OpType
  BY DEF OpType

LEMMA LookupFields ==
  ASSUME NEW p \in PendingLookup, NEW values \in SUBSET Endpoints, NEW freed \in BOOLEAN
  PROVE  [p EXCEPT !.freed = freed, !.values = values] \in PendingLookup
  BY DEF PendingLookup

(* What a write or a deletion does to the element a connection holds.      *)
LEMMA ElementFacts ==
  ASSUME TypeOK, NEW f, NEW entry, NEW written \in SUBSET Endpoints,
         pending' = ElementsAfter(f, entry, written), NEW c \in Conns
  PROVE  /\ pending'[c] \in PendingLookup \union {None}
         /\ pending'[c] = None <=> pending[c] = None
         /\ pending[c] # None => /\ pending'[c].key = pending[c].key
                                /\ pending'[c].id = pending[c].id
                                /\ pending'[c].pos = pending[c].pos
         /\ Holds(c)' <=> Holds(c)
         /\ ~Holds(c) => pending'[c] = pending[c]
         /\ Holds(c) => pending'[c].freed \/ pending'[c] = pending[c]
<1>1. CASE f = "v4" /\ Holds(c)
  <2> DEFINE p == pending[c]
             q == [p EXCEPT !.freed = p.freed \/ entry = <<p.id, p.pos>>,
                            !.values = IF p.freed THEN p.values \union written ELSE p.values]
  <2>1. pending'[c] = q
    BY <1>1 DEF ElementsAfter
  <2>2. p \in [key : KeysV4, id : Ids, pos : Counts, values : SUBSET Endpoints, freed : BOOLEAN]
        /\ p.values # {} /\ p # None
    BY <1>1 DEF TypeOK, PendingLookup, Holds
  <2>3. /\ q.key = p.key /\ q.id = p.id /\ q.pos = p.pos
        /\ q.values = IF p.freed THEN p.values \union written ELSE p.values
        /\ q.freed = (p.freed \/ entry = <<p.id, p.pos>>)
    BY <2>2
  <2>4. q \in PendingLookup /\ q # None /\ q.values # {}
    <3>1. /\ (IF p.freed THEN p.values \union written ELSE p.values) \in SUBSET Endpoints
          /\ q.values # {}
      BY <2>2, <2>3
    <3>2. (p.freed \/ entry = <<p.id, p.pos>>) \in BOOLEAN
      BY <2>2
    <3>3. q \in PendingLookup
      BY <2>2, <3>1, <3>2, LookupFields DEF PendingLookup
    <3> QED  BY <3>1, <3>3
  <2>5. q.freed \/ q = p
    <3>1. CASE ~p.freed /\ entry # <<p.id, p.pos>>
      BY <2>2, <3>1
    <3> QED  BY <2>3, <3>1
  <2> HIDE DEF q
  <2> QED  BY <1>1, <2>1, <2>2, <2>3, <2>4, <2>5 DEF Holds
<1>2. CASE ~(f = "v4" /\ Holds(c))
  <2>1. pending'[c] = pending[c]
    BY <1>2 DEF ElementsAfter
  <2> QED  BY <2>1 DEF TypeOK, Holds
<1> QED  BY <1>1, <1>2

LEMMA ElementsType ==
  ASSUME TypeOK, NEW f, NEW entry, NEW written \in SUBSET Endpoints,
         pending' = ElementsAfter(f, entry, written)
  PROVE  pending' \in [Conns -> PendingLookup \union {None}]
<1>1. \A c \in Conns : pending'[c] \in PendingLookup \union {None}
  BY ElementFacts
<1> QED  BY <1>1 DEF ElementsAfter

LEMMA TypeInit == Init => TypeOK
<1> SUFFICES ASSUME Init PROVE TypeOK
  OBVIOUS
<1>1. nextId \in Ids
  BY DEF Init
<1>2. QED
  BY <1>1 DEF Init, TypeOK, OpType

LEMMA TypeStep == TypeOK /\ [Next]_vars => TypeOK'
<1> SUFFICES ASSUME TypeOK, [Next]_vars PROVE TypeOK'
  OBVIOUS
<1>1. ASSUME NEW k \in Keys, NEW eps \in EndpointLists(Pool[k]), BeginInsert(k, eps)
      PROVE  TypeOK'
  <2>1. eps \in EndpointLists(Endpoints) /\ Len(eps) \in Counts
    BY ListFacts, ListsGrow
  <2>2. [id |-> nextId, count |-> Len(eps)] \in ServiceValue
    BY <2>1 DEF TypeOK, ServiceValue
  <2>3. op' \in OpType
    BY <1>1, <2>1 DEF BeginInsert, TypeOK, OpType, OpKinds, Counts
  <2>4. serviceMap' \in [Keys -> ServiceValue \union {None}]
        /\ serviceCache' \in [Keys -> ServiceValue \union {None}]
    BY <1>1, <2>2 DEF BeginInsert, TypeOK
  <2>5. QED
    BY <1>1, <2>3, <2>4 DEF BeginInsert, TypeOK
<1>2. ASSUME NEW k \in Keys, NEW eps \in EndpointLists(Pool[k]), BeginOverwrite(k, eps)
      PROVE  TypeOK'
  <2>1. eps \in EndpointLists(Endpoints)
    BY ListsGrow
  <2>2. serviceCache[k] \in ServiceValue
    BY <1>2 DEF BeginOverwrite, TypeOK
  <2>3. op' \in OpType
    BY <1>2, <2>1, <2>2 DEF BeginOverwrite, OpType, OpKinds, Counts, ServiceValue
  <2>4. QED
    BY <1>2, <2>3 DEF BeginOverwrite, TypeOK, kernelVars, agentVars
<1>3. ASSUME NEW k \in Keys, BeginRemove(k)
      PROVE  TypeOK'
  <2>1. serviceCache[k] \in ServiceValue
    BY <1>3 DEF BeginRemove, TypeOK
  <2>2. op' \in OpType
    BY <1>3, <2>1, EmptyList DEF BeginRemove, OpType, OpKinds, Counts, ServiceValue
  <2>3. QED
    BY <1>3, <2>2 DEF BeginRemove, TypeOK, kernelVars, agentVars
<1>4. CASE WriteEndpoint
  <2>1. op # Idle
    BY <1>4 DEF WriteEndpoint, Idle
  <2>2. op.eps[op.pos + 1] \in Endpoints /\ op.pos + 1 \in Counts
    <3>1. op.eps \in EndpointLists(Endpoints) /\ op.pos \in Counts
      BY <2>1, OpFacts DEF TypeOK
    <3>2. Len(op.eps) \in Counts /\ \A i \in 1 .. Len(op.eps) : op.eps[i] \in Endpoints
      BY <3>1, ListFacts
    <3>3. op.pos + 1 \in 1 .. Len(op.eps)
      BY <1>4, <3>1, <3>2 DEF WriteEndpoint, Counts
    <3>4. QED
      BY <3>2, <3>3 DEF Counts
  <2>3. op' \in OpType
    BY <1>4, <2>1, <2>2, OpFields, OpFacts DEF WriteEndpoint, TypeOK
  <2>4. endpointMap' \in [Families -> [EndpointKeys -> Endpoints \union {None}]]
        /\ endpointCache' \in [Families -> [EndpointKeys -> Endpoints \union {None}]]
    BY <1>4, <2>2 DEF WriteEndpoint, TypeOK
  <2>5. pending' \in [Conns -> PendingLookup \union {None}]
    <3> DEFINE ep == op.eps[op.pos + 1]
    <3>1. pending' = ElementsAfter(Family(op.key), <<op.id, op.pos>>, {ep})
      BY <1>4 DEF WriteEndpoint
    <3>2. {ep} \in SUBSET Endpoints
      BY <2>2
    <3> QED  BY <3>1, <3>2, ElementsType
  <2>6. QED
    BY <1>4, <2>3, <2>4, <2>5 DEF WriteEndpoint, TypeOK
<1>5. CASE FinishInsert
  <2>1. op.id \in Ids
    BY <1>5, OpFacts DEF FinishInsert, TypeOK, Idle
  <2>2. nextId' \in Ids
    BY <1>5, <2>1, BumpStaysInIds DEF FinishInsert, TypeOK
  <2>3. QED
    BY <1>5, <2>2 DEF FinishInsert, TypeOK, OpType, kernelVars
<1>6. CASE FinishOverwrite
  <2>1. op # Idle
    BY <1>6 DEF FinishOverwrite, Idle
  <2>2. nextId' \in Ids
    BY <1>6, <2>1, OpFacts, BumpStaysInIds DEF FinishOverwrite, TypeOK
  <2>3. op' \in OpType
    BY <1>6, <2>1, OpFields, OpFacts DEF FinishOverwrite, TypeOK, OpType, OpKinds
  <2>4. QED
    BY <1>6, <2>2, <2>3 DEF FinishOverwrite, TypeOK, kernelVars
<1>7. CASE DeleteEndpoint
  <2>1. op # Idle
    BY <1>7 DEF DeleteEndpoint, DeletionPending, Idle
  <2>2. op.pos + 1 \in Counts
    BY <1>7, <2>1, OpFacts DEF DeleteEndpoint, DeletionPending, TypeOK, Counts
  <2>3. op' \in OpType
    BY <1>7, <2>1, <2>2, OpFields, OpFacts DEF DeleteEndpoint, TypeOK
  <2>4. endpointMap' \in [Families -> [EndpointKeys -> Endpoints \union {None}]]
        /\ endpointCache' \in [Families -> [EndpointKeys -> Endpoints \union {None}]]
    BY <1>7 DEF DeleteEndpoint, TypeOK
  <2>5. pending' \in [Conns -> PendingLookup \union {None}]
    BY <1>7, ElementsType DEF DeleteEndpoint
  <2>6. QED
    BY <1>7, <2>3, <2>4, <2>5 DEF DeleteEndpoint, TypeOK
<1>8. CASE DeleteAbsent
  BY <1>8 DEF DeleteAbsent, TypeOK, OpType, kernelVars, agentVars
<1>9. CASE FinishTrim
  <2>1. nextId' \in Ids
    BY <1>9, OpFacts, BumpStaysInIds DEF FinishTrim, TypeOK, Idle
  <2>2. QED
    BY <1>9, <2>1 DEF FinishTrim, TypeOK, OpType, kernelVars
<1>10. CASE FinishRemove
  BY <1>10 DEF FinishRemove, TypeOK, OpType
<1>11. CASE UpdateFails
  BY <1>11 DEF UpdateFails, TypeOK, OpType, kernelVars, agentVars
<1>12. CASE Restart
  BY <1>12 DEF Restart, TypeOK, OpType, kernelVars
<1>13. ASSUME NEW c \in Conns, NEW k \in KeysV4, LookupService(c, k)
       PROVE  TypeOK'
  <2>1. serviceMap[k] \in ServiceValue
    BY <1>13 DEF LookupService, TypeOK, Keys
  <2>2. PICK position \in 0 .. serviceMap[k].count - 1 :
          pending' = [pending EXCEPT ![c] = [key |-> k, id |-> serviceMap[k].id, pos |-> position,
                                             values |-> {}, freed |-> FALSE]]
    BY <1>13 DEF LookupService
  <2>3. position \in Counts
    BY <2>1, <2>2 DEF ServiceValue, Counts
  <2>4. pending' \in [Conns -> PendingLookup \union {None}]
    BY <2>1, <2>2, <2>3 DEF TypeOK, PendingLookup, ServiceValue
  <2>5. QED
    BY <1>13, <2>4 DEF LookupService, TypeOK, kernelVars, agentVars
<1>14. ASSUME NEW c \in Conns, LookupEndpoint(c) \/ Redirect(c)
       PROVE  TypeOK'
  <2>1. CASE LookupEndpoint(c)
    <3>1. pending[c] \in PendingLookup /\ Found(c) \in Endpoints \union {None}
      BY <2>1 DEF LookupEndpoint, TypeOK, Found, PendingLookup, EndpointKeys, Families
    <3>2. Found(c) # None => [pending[c] EXCEPT !.values = {Found(c)}] \in PendingLookup
      BY <3>1 DEF PendingLookup
    <3> QED  BY <2>1, <3>2 DEF LookupEndpoint, TypeOK, kernelVars, agentVars
  <2>2. CASE Redirect(c)
    BY <2>2 DEF Redirect, TypeOK, kernelVars, agentVars
  <2> QED  BY <1>14, <2>1, <2>2
<1>15. CASE UNCHANGED vars
  BY <1>15 DEF TypeOK, vars, kernelVars, agentVars
<1>16. QED
  BY <1>1, <1>2, <1>3, <1>4, <1>5, <1>6, <1>7, <1>8, <1>9, <1>10, <1>11, <1>12, <1>13,
     <1>14, <1>15 DEF Next, AgentCall, AgentStep, DataPlane

(***************************************************************************)
(* Every reachable state is well typed: in particular the id counter never *)
(* leaves u16, no call writes or deletes beyond the positions a service    *)
(* may have, and connect4 never looks up an entry that cannot exist.       *)
(***************************************************************************)
THEOREM TypeCorrect == Spec => []TypeOK
<1>1. QED
  BY TypeInit, TypeStep, PTL DEF Spec

-----------------------------------------------------------------------------
(* The cache and the maps change together.                                 *)
LEMMA CacheInit == Init => CacheMatchesMap
  BY DEF Init, CacheMatchesMap

LEMMA CacheStep == TypeOK /\ CacheMatchesMap /\ [Next]_vars => CacheMatchesMap'
<1> SUFFICES ASSUME TypeOK, CacheMatchesMap, [Next]_vars PROVE CacheMatchesMap'
  OBVIOUS
<1> USE DEF CacheMatchesMap
<1>1. ASSUME NEW k \in Keys, NEW eps \in EndpointLists(Pool[k]), BeginInsert(k, eps)
      PROVE  CacheMatchesMap'
  BY <1>1 DEF BeginInsert, TypeOK
<1>2. ASSUME NEW k \in Keys, NEW eps \in EndpointLists(Pool[k]), BeginOverwrite(k, eps)
      PROVE  CacheMatchesMap'
  BY <1>2 DEF BeginOverwrite, kernelVars, agentVars
<1>3. ASSUME NEW k \in Keys, BeginRemove(k) PROVE CacheMatchesMap'
  BY <1>3 DEF BeginRemove, kernelVars, agentVars
<1>4. CASE WriteEndpoint
  <2> DEFINE f == Family(op.key)
             entry == <<op.id, op.pos>>
             ep == op.eps[op.pos + 1]
  <2>1. /\ endpointMap'   = [endpointMap EXCEPT ![f][entry] = ep]
        /\ endpointCache' = [endpointCache EXCEPT ![f][entry] = ep]
        /\ UNCHANGED <<serviceMap, serviceCache, lapses>>
    BY <1>4 DEF WriteEndpoint
  <2> HIDE DEF f, entry, ep
  <2>2. ASSUME NEW f2 \in Families, NEW e \in EndpointKeys, endpointCache'[f2][e] # None
        PROVE  endpointMap'[f2][e] = endpointCache'[f2][e]
    <3>1. CASE f2 = f /\ e = entry
      BY <2>1, <3>1 DEF TypeOK
    <3>2. CASE ~(f2 = f /\ e = entry)
      BY <2>1, <2>2, <3>2 DEF TypeOK
    <3>3. QED
      BY <3>1, <3>2
  <2>3. QED
    BY <2>1, <2>2
<1>5. CASE FinishInsert
  BY <1>5 DEF FinishInsert, kernelVars
<1>6. CASE FinishOverwrite
  BY <1>6 DEF FinishOverwrite, kernelVars
<1>7. CASE DeleteEndpoint
  <2> DEFINE f == Family(op.key)
             entry == <<op.id, op.pos>>
  <2>1. /\ endpointMap'   = [endpointMap EXCEPT ![f][entry] = None]
        /\ endpointCache' = [endpointCache EXCEPT ![f][entry] = None]
        /\ UNCHANGED <<serviceMap, serviceCache, lapses>>
    BY <1>7 DEF DeleteEndpoint
  <2> HIDE DEF f, entry
  <2>2. ASSUME NEW f2 \in Families, NEW e \in EndpointKeys, endpointCache'[f2][e] # None
        PROVE  endpointMap'[f2][e] = endpointCache'[f2][e]
    <3>1. CASE f2 = f /\ e = entry
      BY <2>1, <2>2, <3>1 DEF TypeOK
    <3>2. CASE ~(f2 = f /\ e = entry)
      BY <2>1, <2>2, <3>2 DEF TypeOK
    <3>3. QED
      BY <3>1, <3>2
  <2>3. QED
    BY <2>1, <2>2
<1>8. CASE DeleteAbsent
  BY <1>8 DEF DeleteAbsent, kernelVars, agentVars
<1>9. CASE FinishTrim
  BY <1>9 DEF FinishTrim, kernelVars
<1>10. CASE FinishRemove
  <2>1. UNCHANGED <<endpointMap, endpointCache, lapses>>
    BY <1>10 DEF FinishRemove
  <2>2. CASE UNCHANGED <<serviceMap, serviceCache>>
    BY <2>1, <2>2
  <2>3. CASE /\ serviceMap'   = [serviceMap EXCEPT ![op.key] = None]
             /\ serviceCache' = [serviceCache EXCEPT ![op.key] = None]
    <3>1. \A k \in Keys : serviceCache'[k] # None =>
            serviceCache'[k] = serviceCache[k] /\ serviceMap'[k] = serviceMap[k]
      BY <2>3 DEF TypeOK
    <3> QED  BY <2>1, <2>3, <3>1
  <2> QED  BY <1>10, <2>2, <2>3 DEF FinishRemove
<1>11. CASE UpdateFails
  BY <1>11 DEF UpdateFails, kernelVars, agentVars
<1>12. CASE Restart
  BY <1>12 DEF Restart, kernelVars
<1>13. ASSUME NEW c \in Conns, LookupEndpoint(c) \/ Redirect(c) \/ \E k \in KeysV4 : LookupService(c, k)
       PROVE  CacheMatchesMap'
  BY <1>13 DEF LookupEndpoint, Redirect, LookupService, kernelVars, agentVars
<1>14. CASE UNCHANGED vars
  BY <1>14 DEF vars, kernelVars, agentVars
<1>15. QED
  BY <1>1, <1>2, <1>3, <1>4, <1>5, <1>6, <1>7, <1>8, <1>9, <1>10, <1>11, <1>12, <1>13,
     <1>14 DEF Next, AgentCall, AgentStep, DataPlane

(***************************************************************************)
(* At every moment, after any failures and restarts, each cached entry is  *)
(* in the kernel with the same value, and an agent that was never          *)
(* restarted has cached every entry.                                       *)
(***************************************************************************)
THEOREM CacheCorrect == Spec => []CacheMatchesMap
<1>1. QED
  BY CacheInit, CacheStep, TypeCorrect, PTL DEF Spec

-----------------------------------------------------------------------------
(* Once ids are intact after a step they were before it.                   *)
LEMMA IntactBackwards ==
  ASSUME TypeOK, [Next]_vars, IdsIntact'
  PROVE  IdsIntact
<1>1. CASE Restart
  BY <1>1 DEF Restart, IdsIntact
<1>2. CASE ~Restart
  <2>1. lapses = {}
    BY <1>2 DEF IdsIntact, Next, AgentCall, AgentStep, DataPlane, vars, BeginInsert, BeginOverwrite,
       BeginRemove, WriteEndpoint, FinishInsert, FinishOverwrite, DeleteEndpoint, DeleteAbsent,
       FinishTrim, FinishRemove, UpdateFails, LookupService, LookupEndpoint, Redirect
  <2>2. nextId' = nextId \/ \E id \in Ids : nextId' = BumpedId(id)
    <3>1. CASE FinishInsert
      <4>1. op.id \in Ids
        BY <3>1, OpFacts DEF FinishInsert, TypeOK, Idle
      <4>2. QED
        BY <3>1, <4>1, BumpStaysInIds DEF FinishInsert, TypeOK
    <3>2. CASE FinishOverwrite
      <4>1. op.id \in Ids
        BY <3>2, OpFacts DEF FinishOverwrite, TypeOK, Idle
      <4>2. QED
        BY <3>2, <4>1 DEF FinishOverwrite
    <3>3. CASE FinishTrim
      <4>1. op.id \in Ids
        BY <3>3, OpFacts DEF FinishTrim, TypeOK, Idle
      <4>2. QED
        BY <3>3, <4>1 DEF FinishTrim
    <3>4. CASE ~FinishInsert /\ ~FinishOverwrite /\ ~FinishTrim
      BY <1>2, <3>4 DEF Next, AgentCall, AgentStep, DataPlane, vars, agentVars, BeginInsert,
         BeginOverwrite, BeginRemove, WriteEndpoint, DeleteEndpoint, DeleteAbsent,
         FinishRemove, UpdateFails, LookupService, LookupEndpoint, Redirect
    <3>5. QED
      BY <3>1, <3>2, <3>3, <3>4
  <2>3. nextId <= nextId'
    BY <2>2 DEF TypeOK, BumpedId, Ids
  <2>4. nextId \in Nat /\ nextId' \in Nat
    BY TypeStep DEF TypeOK, Ids
  <2>5. QED
    BY <2>1, <2>3, <2>4 DEF IdsIntact
<1>3. QED
  BY <1>1, <1>2

LEMMA IdsInit == Init => IdsInv
  BY DEF Init, IdsInv, OpIsPublished, UsedIdsOnly, PendingIdIsOwn, OwnEndpointsOnly, Unshared,
     TargetsOwn, Holds, Idle, EndpointKeys

(* IdsInv without its premise.                                             *)
IdsFacts ==
  /\ serviceMap = serviceCache
  /\ OpIsPublished
  /\ UsedIdsOnly
  /\ PendingIdIsOwn
  /\ OwnEndpointsOnly
  /\ Unshared
  /\ TargetsOwn

(* A step that leaves the maps, the caches, the counter and the pending    *)
(* connections alone and ends or narrows a call other than an insert.      *)
LEMMA IdsQuiet ==
  ASSUME TypeOK, IdsFacts,
         UNCHANGED <<kernelVars, agentVars, pending>>,
         op' = Idle \/ (op' # Idle /\ serviceMap[op'.key] # None
                        /\ serviceMap[op'.key].id = op'.id
                        /\ op'.kind # "insert"
                        /\ (op'.kind = "overwrite" =>
                              \A i \in 1 .. Len(op'.eps) : op'.eps[i] \in Pool[op'.key])),
         op.kind # "insert"
  PROVE  IdsFacts'
<1>1. serviceMap' = serviceMap /\ endpointMap' = endpointMap /\ serviceCache' = serviceCache
      /\ nextId' = nextId /\ pending' = pending
  BY DEF kernelVars, agentVars
<1>2. OpIsPublished'
  BY <1>1 DEF OpIsPublished, Idle
<1>3. UsedIdsOnly'
  BY <1>1 DEF IdsFacts, UsedIdsOnly, UsedId, Inserting
<1>4. PendingIdIsOwn' /\ OwnEndpointsOnly' /\ Unshared'
  BY <1>1 DEF IdsFacts, PendingIdIsOwn, OwnEndpointsOnly, Unshared
<1>5. TargetsOwn'
  BY <1>1 DEF IdsFacts, TargetsOwn, OwnEndpoint, Targets, Found, Holds
<1>6. QED
  BY <1>1, <1>2, <1>3, <1>4, <1>5 DEF IdsFacts

(* A write or deletion that leaves the entries connections look for their   *)
(* own: an element that was not freed is as it was.                         *)
LEMMA TargetsStayOwn ==
  ASSUME TypeOK, TargetsOwn, NEW f, NEW entry, NEW written \in SUBSET Endpoints,
         pending' = ElementsAfter(f, entry, written),
         \A c \in Conns : pending[c] # None /\ ~Holds(c) =>
           endpointMap'["v4"][<<pending[c].id, pending[c].pos>>]
             \in Pool[pending[c].key] \union {None}
  PROVE  TargetsOwn'
<1> SUFFICES ASSUME NEW c \in Conns
             PROVE  /\ Holds(c)' => pending'[c].freed \/ OwnEndpoint(c)'
                    /\ pending'[c] # None /\ ~Holds(c)' =>
                         Found(c)' \in Pool[pending'[c].key] \union {None}
  BY DEF TargetsOwn
<1>1. CASE Holds(c)
  <2>1. pending'[c].freed \/ pending'[c] = pending[c]
    BY <1>1, ElementFacts
  <2>2. pending[c].freed \/ OwnEndpoint(c)
    BY <1>1 DEF TargetsOwn
  <2> QED  BY <1>1, <2>1, <2>2, ElementFacts DEF OwnEndpoint, Targets
<1>2. CASE ~Holds(c)
  <2>1. pending'[c] = pending[c] /\ ~Holds(c)'
    BY <1>2, ElementFacts
  <2> QED  BY <1>2, <2>1 DEF Found
<1> QED  BY <1>1, <1>2

LEMMA IdsInsert ==
  ASSUME TypeOK, IdsFacts, NEW k \in Keys, NEW eps \in EndpointLists(Pool[k]),
         BeginInsert(k, eps)
  PROVE  IdsFacts'
<1> DEFINE value == [id |-> nextId, count |-> Len(eps)]
<1>1. /\ serviceMap[k] = None /\ op = Idle
      /\ serviceMap' = [serviceMap EXCEPT ![k] = value]
      /\ serviceCache' = serviceMap'
      /\ endpointMap' = endpointMap /\ nextId' = nextId /\ pending' = pending
  BY DEF BeginInsert, IdsFacts
<1>2. /\ op'.kind = "insert" /\ op'.key = k /\ op'.id = nextId /\ op'.eps = eps
      /\ op' # Idle
  BY DEF BeginInsert, Idle
<1>3. value # None
  <2>1. Len(eps) \in Counts
    BY ListFacts
  <2>2. QED
    BY <2>1 DEF TypeOK, ServiceValue
<1>4. \A k2 \in Keys : serviceMap'[k2] = IF k2 = k THEN value ELSE serviceMap[k2]
  BY <1>1 DEF TypeOK
<1>5. \A k2 \in Keys : k2 # k /\ serviceMap[k2] # None => serviceMap[k2].id < nextId
  BY <1>1 DEF IdsFacts, UsedIdsOnly, Inserting, Idle
<1>6. nextId \in Nat /\ ~(nextId < nextId)
  BY DEF TypeOK, Ids
<1> HIDE DEF value
<1>7. value.id = nextId
  BY DEF value
<1>8. OpIsPublished'
  BY <1>1, <1>2, <1>3, <1>4, <1>7, ListFacts DEF OpIsPublished
<1>9. UsedIdsOnly'
  BY <1>1, <1>2, <1>4, <1>5 DEF IdsFacts, UsedIdsOnly, UsedId, Inserting, Idle
<1>10. Unshared'
  BY <1>4, <1>5, <1>6, <1>7 DEF IdsFacts, Unshared
<1>11. PendingIdIsOwn'
  <2>1. \A c \in Conns : pending[c] # None => pending[c].id < nextId
    BY <1>1 DEF IdsFacts, UsedIdsOnly, UsedId, Idle
  <2>2. QED
    BY <1>1, <1>4, <1>6, <1>7, <2>1 DEF IdsFacts, PendingIdIsOwn
<1>12. OwnEndpointsOnly'
  <2>1. \A pos \in Counts : endpointMap[Family(k)][<<nextId, pos>>] = None
    BY <1>1, <1>6 DEF IdsFacts, UsedIdsOnly, UsedId, Idle, TypeOK, Family, Families
  <2>2. QED
    BY <1>1, <1>4, <1>7, <2>1 DEF IdsFacts, OwnEndpointsOnly
<1>13. TargetsOwn'
  BY <1>1 DEF IdsFacts, TargetsOwn, OwnEndpoint, Targets, Found, Holds
<1>14. QED
  BY <1>1, <1>8, <1>9, <1>10, <1>11, <1>12, <1>13 DEF IdsFacts

LEMMA IdsWrite ==
  ASSUME TypeOK, IdsFacts, WriteEndpoint
  PROVE  IdsFacts'
<1> DEFINE f == Family(op.key)
           entry == <<op.id, op.pos>>
           ep == op.eps[op.pos + 1]
<1>1. /\ endpointMap' = [endpointMap EXCEPT ![f][entry] = ep]
      /\ serviceMap' = serviceMap /\ serviceCache' = serviceCache
      /\ nextId' = nextId /\ pending' = ElementsAfter(f, entry, {ep})
  BY DEF WriteEndpoint
<1>2. op # Idle /\ op.kind \in {"insert", "overwrite"}
  BY DEF WriteEndpoint, Idle
<1>3. op.key \in Keys /\ op.id \in Ids /\ op.pos \in Counts /\ op.eps \in EndpointLists(Endpoints)
  BY <1>2, OpFacts DEF TypeOK
<1>4. op' # Idle /\ op'.kind = op.kind /\ op'.key = op.key /\ op'.id = op.id /\ op'.eps = op.eps
  <2>1. op' = [op EXCEPT !.pos = op.pos + 1]
    BY DEF WriteEndpoint
  <2>2. op \in [kind : OpKinds, key : Keys, id : Ids, eps : EndpointLists(Endpoints),
                pos : Counts, end : Counts]
    BY <1>2 DEF TypeOK, OpType
  <2>3. QED
    BY <1>2, <2>1, <2>2 DEF Idle
<1>5. ep \in Pool[op.key] /\ ep # None
  <2>1. op.pos + 1 \in 1 .. Len(op.eps)
    <3>1. Len(op.eps) \in Counts
      BY <1>3, ListFacts
    <3>2. QED
      BY <1>3, <3>1 DEF WriteEndpoint, Counts
  <2>2. ep \in Pool[op.key]
    BY <1>2, <2>1 DEF IdsFacts, OpIsPublished
  <2>3. QED
    BY <1>3, <2>2
<1>6. serviceMap[op.key] # None /\ serviceMap[op.key].id = op.id /\ (op.kind = "insert" => op.id = nextId)
  BY <1>2 DEF IdsFacts, OpIsPublished
<1>7. UsedId(op.id)
  BY <1>3, <1>6 DEF IdsFacts, UsedIdsOnly, Inserting, UsedId
<1> HIDE DEF f, entry, ep
<1>0. {ep} \in SUBSET Endpoints
  BY <1>3, <1>5 DEF Keys
<1>15. \A c \in Conns : pending'[c] # None =>
         pending[c] # None /\ pending'[c].id = pending[c].id /\ pending'[c].key = pending[c].key
  BY <1>0, <1>1, ElementFacts
<1>8. \A f2 \in Families, id \in Ids, pos \in Counts :
        endpointMap'[f2][<<id, pos>>] =
          IF f2 = f /\ <<id, pos>> = entry THEN ep ELSE endpointMap[f2][<<id, pos>>]
  BY <1>1 DEF TypeOK, EndpointKeys
<1>9. OpIsPublished'
  BY <1>1, <1>2, <1>4 DEF IdsFacts, OpIsPublished
<1>10. UsedIdsOnly'
  <2>1. \A id : UsedId(id)' <=> UsedId(id)
    BY <1>1, <1>4 DEF UsedId
  <2>2. ASSUME NEW f2 \in Families, NEW id \in Ids, NEW pos \in Counts,
               endpointMap'[f2][<<id, pos>>] # None
        PROVE  UsedId(id)
    BY <1>7, <1>8, <2>2 DEF IdsFacts, UsedIdsOnly, entry
  <2>3. QED
    BY <1>1, <1>4, <1>15, <2>1, <2>2 DEF IdsFacts, UsedIdsOnly, Inserting
<1>11. PendingIdIsOwn' /\ Unshared'
  BY <1>1, <1>15 DEF IdsFacts, PendingIdIsOwn, Unshared
<1>12. OwnEndpointsOnly'
  <2> SUFFICES ASSUME NEW k \in Keys, NEW pos \in Counts, serviceMap[k] # None
               PROVE  endpointMap'[Family(k)][<<serviceMap[k].id, pos>>] \in Pool[k] \union {None}
    BY <1>1 DEF OwnEndpointsOnly
  <2>1. serviceMap[k].id \in Ids /\ Family(k) \in Families
    BY DEF TypeOK, ServiceValue, Family, Families
  <2>2. CASE <<serviceMap[k].id, pos>> = entry
    <3>1. k = op.key
      BY <1>3, <1>6, <2>2 DEF IdsFacts, Unshared, entry
    <3>2. QED
      BY <1>5, <1>8, <2>1, <3>1, <2>2 DEF f
  <2>3. CASE <<serviceMap[k].id, pos>> # entry
    BY <1>8, <2>1, <2>3 DEF IdsFacts, OwnEndpointsOnly
  <2>4. QED
    BY <2>2, <2>3
<1>13. TargetsOwn'
  <2>1. ASSUME NEW c \in Conns, pending[c] # None, ~Holds(c)
        PROVE  endpointMap'["v4"][<<pending[c].id, pending[c].pos>>]
                 \in Pool[pending[c].key] \union {None}
    <3>1. pending[c].id \in Ids /\ pending[c].pos \in Counts /\ "v4" \in Families
      BY <2>1 DEF TypeOK, PendingLookup, Families
    <3>2. Found(c) \in Pool[pending[c].key] \union {None}
      BY <2>1 DEF IdsFacts, TargetsOwn
    <3>3. CASE <<pending[c].id, pending[c].pos>> = entry
      <4>1. op.key = pending[c].key
        BY <1>3, <1>6, <2>1, <3>3 DEF IdsFacts, PendingIdIsOwn, entry
      <4>2. ep \in Pool[pending[c].key]
        BY <1>5, <4>1
      <4> QED  BY <1>8, <3>1, <3>2, <3>3, <4>2 DEF Found
    <3>4. CASE <<pending[c].id, pending[c].pos>> # entry
      BY <1>8, <3>1, <3>2, <3>4 DEF Found
    <3> QED  BY <3>3, <3>4
  <2> QED  BY <1>0, <1>1, <2>1, TargetsStayOwn DEF IdsFacts
<1>14. QED
  BY <1>1, <1>9, <1>10, <1>11, <1>12, <1>13 DEF IdsFacts

(* A step that only removes entries of the maps for the call in progress.  *)
LEMMA IdsDelete ==
  ASSUME TypeOK, IdsFacts, DeleteEndpoint
  PROVE  IdsFacts'
<1> DEFINE f == Family(op.key)
           entry == <<op.id, op.pos>>
<1>1. /\ endpointMap' = [endpointMap EXCEPT ![f][entry] = None]
      /\ serviceMap' = serviceMap /\ serviceCache' = serviceCache
      /\ nextId' = nextId /\ pending' = ElementsAfter(f, entry, {})
      /\ {} \in SUBSET Endpoints
  BY DEF DeleteEndpoint
<1>2. op # Idle /\ op.kind \in {"trim", "remove"}
  BY DEF DeleteEndpoint, DeletionPending, Idle
<1>3. op' # Idle /\ op'.kind = op.kind /\ op'.key = op.key /\ op'.id = op.id
  <2>1. op' = [op EXCEPT !.pos = op.pos + 1]
    BY DEF DeleteEndpoint
  <2>2. op \in [kind : OpKinds, key : Keys, id : Ids, eps : EndpointLists(Endpoints),
                pos : Counts, end : Counts]
    BY <1>2 DEF TypeOK, OpType
  <2>3. QED
    BY <1>2, <2>1, <2>2 DEF Idle
<1> HIDE DEF f, entry
<1>4. \A f2 \in Families, id \in Ids, pos \in Counts :
        endpointMap'[f2][<<id, pos>>] \in {None, endpointMap[f2][<<id, pos>>]}
  BY <1>1 DEF TypeOK, EndpointKeys
<1>5. OpIsPublished'
  BY <1>1, <1>2, <1>3 DEF IdsFacts, OpIsPublished
<1>6. UsedIdsOnly'
  BY <1>1, <1>2, <1>3, <1>4, ElementFacts DEF IdsFacts, UsedIdsOnly, UsedId, Inserting
<1>7. PendingIdIsOwn' /\ Unshared'
  BY <1>1, ElementFacts DEF IdsFacts, PendingIdIsOwn, Unshared
<1>8. OwnEndpointsOnly'
  BY <1>1, <1>4 DEF IdsFacts, OwnEndpointsOnly, TypeOK, ServiceValue, Family, Families
<1>9. TargetsOwn'
  <2>1. ASSUME NEW c \in Conns, pending[c] # None, ~Holds(c)
        PROVE  endpointMap'["v4"][<<pending[c].id, pending[c].pos>>]
                 \in Pool[pending[c].key] \union {None}
    <3>1. pending[c].id \in Ids /\ pending[c].pos \in Counts /\ "v4" \in Families
      BY <2>1 DEF TypeOK, PendingLookup, Families
    <3> QED  BY <1>4, <2>1, <3>1 DEF IdsFacts, TargetsOwn, Found
  <2> QED  BY <1>1, <2>1, TargetsStayOwn DEF IdsFacts
<1>10. QED
  BY <1>1, <1>5, <1>6, <1>7, <1>8, <1>9 DEF IdsFacts

LEMMA IdsFinishInsert ==
  ASSUME TypeOK, IdsFacts, IdsIntact, FinishInsert
  PROVE  IdsFacts'
<1>1. op # Idle /\ op.id = nextId /\ op.key \in Keys
  BY OpFacts DEF FinishInsert, Idle, IdsFacts, OpIsPublished, TypeOK
<1>2. nextId' = nextId + 1
  <2>1. nextId \in Nat /\ IdLimit \in Nat /\ nextId + 1 < IdLimit
    BY DEF IdsIntact, TypeOK, Ids
  <2>2. (nextId + 1) % IdLimit = nextId + 1
    BY <2>1
  <2>3. QED
    BY <1>1, <2>1, <2>2 DEF FinishInsert, BumpedId, Wrapped
<1>3. /\ op' = Idle /\ serviceMap' = serviceMap /\ serviceCache' = serviceCache
      /\ endpointMap' = endpointMap /\ pending' = pending
  BY DEF FinishInsert, kernelVars
<1>4. \A id \in Ids : UsedId(id) => id < nextId'
  BY <1>2 DEF UsedId, TypeOK, Ids
<1>5. \A k \in Keys : serviceMap[k] # None => serviceMap[k].id < nextId'
  <2> SUFFICES ASSUME NEW k \in Keys, serviceMap[k] # None PROVE serviceMap[k].id < nextId'
    OBVIOUS
  <2>1. serviceMap[k].id \in Ids
    BY DEF TypeOK, ServiceValue
  <2>2. serviceMap[k].id < nextId \/ serviceMap[k].id = nextId
    BY <1>1 DEF IdsFacts, UsedIdsOnly, Inserting, OpIsPublished
  <2>3. QED
    BY <1>2, <2>1, <2>2 DEF TypeOK, Ids
<1>6. UsedIdsOnly'
  <2>1. \A c \in Conns : pending[c] # None => pending[c].id < nextId'
    BY <1>4 DEF IdsFacts, UsedIdsOnly, TypeOK, PendingLookup
  <2>2. QED
    BY <1>3, <1>4, <1>5, <2>1 DEF IdsFacts, UsedIdsOnly, UsedId
<1>7. OpIsPublished'
  BY <1>3 DEF OpIsPublished, Idle
<1>8. PendingIdIsOwn' /\ Unshared' /\ OwnEndpointsOnly' /\ TargetsOwn'
  BY <1>3 DEF IdsFacts, PendingIdIsOwn, Unshared, OwnEndpointsOnly, TargetsOwn, OwnEndpoint, Targets, Found, Holds
<1>9. QED
  BY <1>3, <1>6, <1>7, <1>8 DEF IdsFacts

(* Past the insert, ids returned by update are in use already: the counter *)
(* stays.                                                                  *)
LEMMA NoBump ==
  ASSUME TypeOK, IdsFacts, op # Idle, op.kind # "insert"
  PROVE  BumpedId(op.id) = nextId
<1>1. op.key \in Keys /\ serviceMap[op.key] # None /\ serviceMap[op.key].id = op.id
  BY OpFacts DEF IdsFacts, OpIsPublished, TypeOK
<1>2. op.id < nextId
  BY <1>1 DEF IdsFacts, UsedIdsOnly, Inserting
<1>3. QED
  BY <1>2, OpFacts DEF BumpedId, TypeOK, Ids

LEMMA IdsFinishRemove ==
  ASSUME TypeOK, IdsFacts, FinishRemove
  PROVE  IdsFacts'
<1>1. op # Idle /\ op.key \in Keys /\ op.kind # "insert"
  BY OpFacts DEF FinishRemove, TypeOK, Idle
<1>2. serviceMap[op.key] # None
  BY <1>1 DEF IdsFacts, OpIsPublished
<1>3. /\ serviceMap' = [serviceMap EXCEPT ![op.key] = None]
      /\ serviceCache' = serviceMap' /\ op' = Idle
      /\ endpointMap' = endpointMap /\ nextId' = nextId /\ pending' = pending
  BY <1>2 DEF FinishRemove, IdsFacts
<1>4. \A k \in Keys : serviceMap'[k] # None => serviceMap'[k] = serviceMap[k] /\ serviceMap[k] # None
  BY <1>3 DEF TypeOK
<1>5. OpIsPublished'
  BY <1>3 DEF OpIsPublished, Idle
<1>6. UsedIdsOnly'
  BY <1>1, <1>3, <1>4 DEF IdsFacts, UsedIdsOnly, UsedId, Inserting
<1>7. PendingIdIsOwn' /\ Unshared' /\ OwnEndpointsOnly'
  BY <1>3, <1>4 DEF IdsFacts, PendingIdIsOwn, Unshared, OwnEndpointsOnly
<1>8. TargetsOwn'
  BY <1>3 DEF IdsFacts, TargetsOwn, OwnEndpoint, Targets, Found, Holds
<1>9. QED
  BY <1>3, <1>5, <1>6, <1>7, <1>8 DEF IdsFacts

LEMMA IdsLookup ==
  ASSUME TypeOK, IdsFacts, NEW c \in Conns, NEW k \in KeysV4, LookupService(c, k)
  PROVE  IdsFacts'
<1>1. k \in Keys /\ serviceMap[k] # None /\ serviceMap[k] \in ServiceValue /\ Family(k) = "v4"
  BY DEF LookupService, TypeOK, Keys, Family
<1>2. PICK position \in 0 .. serviceMap[k].count - 1 :
        pending' = [pending EXCEPT ![c] = [key |-> k, id |-> serviceMap[k].id, pos |-> position,
                                           values |-> {}, freed |-> FALSE]]
  BY DEF LookupService
<1>3. position \in Counts
  BY <1>1, <1>2 DEF ServiceValue, Counts
<1>4. /\ serviceMap' = serviceMap /\ endpointMap' = endpointMap /\ serviceCache' = serviceCache
      /\ nextId' = nextId /\ op' = op
  BY DEF LookupService, kernelVars, agentVars
<1>5. \A d \in Conns : pending'[d] # pending[d] =>
        pending'[d].key = k /\ pending'[d].id = serviceMap[k].id /\ pending'[d].pos = position
  BY <1>2 DEF TypeOK
<1>6. OpIsPublished' /\ OwnEndpointsOnly' /\ Unshared'
  BY <1>4 DEF IdsFacts, OpIsPublished, OwnEndpointsOnly, Unshared
<1>7. UsedIdsOnly'
  <2>1. UsedId(serviceMap[k].id)
    BY <1>1 DEF IdsFacts, UsedIdsOnly, UsedId, Inserting, OpIsPublished, Idle
  <2>2. \A id : UsedId(id)' <=> UsedId(id)
    BY <1>4 DEF UsedId
  <2>3. QED
    BY <1>4, <1>5, <2>1, <2>2 DEF IdsFacts, UsedIdsOnly, Inserting
<1>8. PendingIdIsOwn'
  BY <1>1, <1>4, <1>5 DEF IdsFacts, PendingIdIsOwn, Unshared
<1>9. TargetsOwn'
  <2>1. endpointMap["v4"][<<serviceMap[k].id, position>>] \in Pool[k] \union {None}
    BY <1>1, <1>3 DEF IdsFacts, OwnEndpointsOnly
  <2>2. pending'[c] = [key |-> k, id |-> serviceMap[k].id, pos |-> position,
                       values |-> {}, freed |-> FALSE]
    BY <1>2 DEF TypeOK
  <2>3. ~Holds(c)' /\ Found(c)' \in Pool[k] \union {None} /\ pending'[c].key = k
    BY <1>4, <2>1, <2>2 DEF Holds, Found
  <2>4. \A d \in Conns \ {c} : pending'[d] = pending[d]
    BY <1>2 DEF TypeOK
  <2> SUFFICES ASSUME NEW d \in Conns, d # c
               PROVE  /\ Holds(d)' => pending'[d].freed \/ OwnEndpoint(d)'
                      /\ pending'[d] # None /\ ~Holds(d)' =>
                           Found(d)' \in Pool[pending'[d].key] \union {None}
    BY <2>3 DEF TargetsOwn
  <2> QED
    BY <1>4, <2>4 DEF IdsFacts, TargetsOwn, OwnEndpoint, Targets, Found, Holds
<1>10. QED
  BY <1>4, <1>6, <1>7, <1>8, <1>9 DEF IdsFacts

LEMMA IdsStep == TypeOK /\ IdsInv /\ [Next]_vars => IdsInv'
<1> SUFFICES ASSUME TypeOK, IdsInv, [Next]_vars, IdsIntact' PROVE IdsFacts'
  BY DEF IdsInv, IdsFacts
<1>0. IdsIntact /\ IdsFacts
  BY IntactBackwards DEF IdsInv, IdsFacts
<1>1. ASSUME NEW k \in Keys, NEW eps \in EndpointLists(Pool[k]), BeginInsert(k, eps)
      PROVE  IdsFacts'
  BY <1>0, <1>1, IdsInsert
<1>2. ASSUME NEW k \in Keys, NEW eps \in EndpointLists(Pool[k]), BeginOverwrite(k, eps)
      PROVE  IdsFacts'
  <2>1. serviceMap[k] # None /\ op'.key = k /\ op'.id = serviceMap[k].id /\ op'.eps = eps
        /\ op'.kind = "overwrite"
    BY <1>0, <1>2 DEF BeginOverwrite, IdsFacts
  <2>2. op' # Idle /\ op.kind # "insert"
    BY <1>2, <2>1 DEF BeginOverwrite, Idle
  <2>3. \A i \in 1 .. Len(eps) : eps[i] \in Pool[k]
    BY ListFacts
  <2>4. UNCHANGED <<kernelVars, agentVars, pending>>
    BY <1>2 DEF BeginOverwrite
  <2>5. QED
    BY <1>0, <2>1, <2>2, <2>3, <2>4, IdsQuiet
<1>3. ASSUME NEW k \in Keys, BeginRemove(k)
      PROVE  IdsFacts'
  <2>1. serviceMap[k] # None /\ op'.key = k /\ op'.id = serviceMap[k].id /\ op'.kind = "remove"
    BY <1>0, <1>3 DEF BeginRemove, IdsFacts
  <2>2. op' # Idle /\ op.kind # "insert"
    BY <1>3, <2>1 DEF BeginRemove, Idle
  <2>3. UNCHANGED <<kernelVars, agentVars, pending>>
    BY <1>3 DEF BeginRemove
  <2>4. QED
    BY <1>0, <2>1, <2>2, <2>3, IdsQuiet
<1>4. CASE WriteEndpoint
  BY <1>0, <1>4, IdsWrite
<1>5. CASE FinishInsert
  BY <1>0, <1>5, IdsFinishInsert
<1>6. CASE FinishOverwrite
  <2>1. op # Idle /\ op.kind = "overwrite"
    BY <1>6 DEF FinishOverwrite, Idle
  <2>2. nextId' = nextId
    BY <1>0, <1>6, <2>1, NoBump DEF FinishOverwrite
  <2>3. UNCHANGED <<kernelVars, agentVars, pending>>
    BY <1>6, <2>2 DEF FinishOverwrite, kernelVars, agentVars
  <2>4. op' = Idle \/ (op'.kind = "trim" /\ op'.key = op.key /\ op'.id = op.id)
    <3>1. op \in [kind : OpKinds, key : Keys, id : Ids, eps : EndpointLists(Endpoints),
                  pos : Counts, end : Counts]
      BY <2>1 DEF TypeOK, OpType
    <3>2. QED
      BY <1>6, <3>1 DEF FinishOverwrite
  <2>5. serviceMap[op.key] # None /\ serviceMap[op.key].id = op.id
    BY <1>0, <2>1 DEF IdsFacts, OpIsPublished
  <2>6. QED
    BY <1>0, <2>1, <2>3, <2>4, <2>5, IdsQuiet
<1>7. CASE DeleteEndpoint
  BY <1>0, <1>7, IdsDelete
<1>8. CASE DeleteAbsent
  <2>1. op.kind # "insert" /\ op' = Idle /\ UNCHANGED <<kernelVars, agentVars, pending>>
    BY <1>8 DEF DeleteAbsent, DeletionPending
  <2>2. QED
    BY <1>0, <2>1, IdsQuiet
<1>9. CASE FinishTrim
  <2>1. op # Idle /\ op.kind = "trim" /\ op' = Idle
    BY <1>9 DEF FinishTrim, Idle
  <2>2. UNCHANGED <<kernelVars, agentVars, pending>>
    BY <1>0, <1>9, <2>1, NoBump DEF FinishTrim, kernelVars, agentVars
  <2>3. QED
    BY <1>0, <2>1, <2>2, IdsQuiet
<1>10. CASE FinishRemove
  BY <1>0, <1>10, IdsFinishRemove
<1>11. CASE UpdateFails
  <2>1. op' = Idle /\ UNCHANGED <<kernelVars, agentVars, pending>>
    BY <1>11 DEF UpdateFails
  <2>2. op.kind # "insert"
    BY <1>11 DEF UpdateFails, IdsIntact
  <2>3. QED
    BY <1>0, <2>1, <2>2, IdsQuiet
<1>12. CASE Restart
  BY <1>12 DEF Restart, IdsIntact
<1>13. ASSUME NEW c \in Conns, NEW k \in KeysV4, LookupService(c, k)
       PROVE  IdsFacts'
  BY <1>0, <1>13, IdsLookup
<1>14. ASSUME NEW c \in Conns, LookupEndpoint(c) \/ Redirect(c)
       PROVE  IdsFacts'
  <2>0. /\ \A d \in Conns \ {c} : pending'[d] = pending[d]
        /\ \/ pending'[c] = None
           \/ /\ pending[c] # None /\ ~Holds(c) /\ Found(c) # None
              /\ pending'[c] = [pending[c] EXCEPT !.values = {Found(c)}]
    BY <1>14 DEF LookupEndpoint, Redirect, TypeOK
  <2>1. \A d \in Conns : pending'[d] # None =>
          /\ pending[d] # None /\ pending'[d].key = pending[d].key /\ pending'[d].id = pending[d].id
          /\ pending'[d] = pending[d] \/ (~Holds(d) /\ Found(d) # None
                                         /\ pending'[d].values = {Found(d)})
    BY <2>0 DEF TypeOK, PendingLookup
  <2>2. UNCHANGED <<serviceMap, endpointMap, serviceCache, nextId, op>>
    BY <1>14 DEF LookupEndpoint, Redirect, kernelVars, agentVars
  <2>3. OpIsPublished' /\ OwnEndpointsOnly' /\ Unshared'
    BY <1>0, <2>2 DEF IdsFacts, OpIsPublished, OwnEndpointsOnly, Unshared
  <2>4. UsedIdsOnly' /\ PendingIdIsOwn'
    BY <1>0, <2>1, <2>2 DEF IdsFacts, UsedIdsOnly, UsedId, Inserting, PendingIdIsOwn
  <2>5. TargetsOwn'
    <3> SUFFICES ASSUME NEW d \in Conns, pending'[d] # None
                 PROVE  /\ Holds(d)' => pending'[d].freed \/ OwnEndpoint(d)'
                        /\ ~Holds(d)' => Found(d)' \in Pool[pending'[d].key] \union {None}
      BY DEF TargetsOwn, Holds
    <3>1. CASE pending'[d] = pending[d]
      BY <1>0, <2>1, <2>2, <3>1 DEF IdsFacts, TargetsOwn, OwnEndpoint, Targets, Found, Holds
    <3>2. CASE pending'[d] # pending[d]
      <4>1. /\ ~Holds(d) /\ pending[d] # None /\ Found(d) # None
            /\ pending'[d].values = {Found(d)} /\ pending'[d].key = pending[d].key
        BY <2>1, <3>2
      <4>2. Found(d) \in Pool[pending'[d].key]
        BY <1>0, <4>1 DEF IdsFacts, TargetsOwn
      <4>3. Targets(d)' = {<<Found(d), Found(d)>>}
        BY <4>1 DEF Targets
      <4>4. Holds(d)'
        BY <4>1 DEF Holds
      <4> QED  BY <4>2, <4>3, <4>4 DEF OwnEndpoint
    <3> QED  BY <3>1, <3>2
  <2>6. QED
    BY <1>0, <2>2, <2>3, <2>4, <2>5 DEF IdsFacts
<1>15. CASE UNCHANGED vars
  BY <1>0, <1>15 DEF IdsFacts, OpIsPublished, UsedIdsOnly, UsedId, Inserting, PendingIdIsOwn,
     OwnEndpointsOnly, Unshared, TargetsOwn, OwnEndpoint, Targets, Found, Holds, vars, kernelVars, agentVars
<1>16. QED
  BY <1>1, <1>2, <1>3, <1>4, <1>5, <1>6, <1>7, <1>8, <1>9, <1>10, <1>11, <1>12, <1>13,
     <1>14, <1>15 DEF Next, AgentCall, AgentStep, DataPlane

(* The strengthened invariant holds in every reachable state.              *)
THEOREM IdsCorrect == Spec => []IdsInv
<1>1. QED
  BY IdsInit, IdsStep, TypeCorrect, PTL DEF Spec

(***************************************************************************)
(* While ids are intact no two published services, of either family, have  *)
(* the same id, however calls, failures of updates and connections         *)
(* interleave.                                                             *)
(***************************************************************************)
THEOREM IdsAreDistinct == Spec => []DistinctIds
<1>1. IdsInv => DistinctIds
  BY DEF IdsInv, DistinctIds
<1>2. QED
  BY <1>1, IdsCorrect, PTL

(***************************************************************************)
(* While ids are intact connect4 finds only endpoints of the service the   *)
(* connection was made to, and sends it to the ip and the port of one of   *)
(* them, unless the agent deletes or overwrites that very entry between    *)
(* the lookup and the reads: then the element it reads may be another's    *)
(* (service.rs:52-78).                                                     *)
(***************************************************************************)
THEOREM ConnectionsStayInTheirService == Spec => []NoForeignEndpoint
<1>1. IdsInv => NoForeignEndpoint
  BY DEF IdsInv, NoForeignEndpoint
<1>2. QED
  BY <1>1, IdsCorrect, PTL

-----------------------------------------------------------------------------
(* What state_from_map reads of a published key.                           *)
LEMMA EntryFacts ==
  ASSUME TypeOK, NEW k \in Keys, serviceMap[k] # None
  PROVE  /\ serviceMap[k].count \in Counts /\ serviceMap[k].count \in Nat
         /\ serviceMap[k].id \in Ids
         /\ \A p \in Counts : Entry(k, p) \in Endpoints \union {None}
<1>1. serviceMap[k] \in ServiceValue
  BY DEF TypeOK
<1>2. serviceMap[k].count \in Counts /\ serviceMap[k].id \in Ids
  BY <1>1 DEF ServiceValue
<1>3. \A p \in Counts : Entry(k, p) \in Endpoints \union {None}
  BY <1>2 DEF TypeOK, Entry, EndpointKeys, Family, Families
<1> QED  BY <1>2, <1>3 DEF Counts

LEMMA Numbers == \A n \in Nat : IsFiniteSet(0 .. n - 1) /\ Cardinality(0 .. n - 1) = n
<1> SUFFICES ASSUME NEW n \in Nat PROVE IsFiniteSet(0 .. n - 1) /\ Cardinality(0 .. n - 1) = n
  OBVIOUS
<1>1. Cardinality(0 .. n - 1) = IF 0 > n - 1 THEN 0 ELSE n - 1 - 0 + 1
  BY FS_Interval
<1> QED  BY <1>1, FS_Interval

(* Entries present up to a position only are the list of these.            *)
LEMMA FilledPrefix ==
  ASSUME NEW es, NEW n \in Nat, DOMAIN es = 0 .. n - 1, NEW m \in 0 .. n,
         \A p \in 0 .. n - 1 : es[p] # None <=> p < m
  PROVE  Filled(es) = [i \in 1 .. m |-> es[i - 1]]
<1>1. m \in Nat
  OBVIOUS
<1>2. Present(es) = 0 .. m - 1
  BY <1>1 DEF Present
<1>3. ASSUME NEW i \in 1 .. m PROVE Nth(es, i) = i - 1
  <2>1. ASSUME NEW pos \in 0 .. m - 1
        PROVE  Cardinality({p \in 0 .. m - 1 : p < pos}) = pos
    <3>1. {p \in 0 .. m - 1 : p < pos} = 0 .. pos - 1 /\ pos \in Nat
      BY <1>1
    <3>2. Cardinality(0 .. pos - 1) = pos
      BY <3>1, Numbers
    <3> QED  BY <3>1, <3>2
  <2>2. Nth(es, i) = CHOOSE pos \in 0 .. m - 1 : Cardinality({p \in 0 .. m - 1 : p < pos}) = i - 1
    BY <1>2 DEF Nth
  <2>3. i - 1 \in 0 .. m - 1 /\ Cardinality({p \in 0 .. m - 1 : p < i - 1}) = i - 1
    BY <1>1, <2>1
  <2>4. /\ Nth(es, i) \in 0 .. m - 1
        /\ Cardinality({p \in 0 .. m - 1 : p < Nth(es, i)}) = i - 1
    BY <2>2, <2>3
  <2> QED  BY <2>1, <2>4
<1>4. Cardinality(Present(es)) = m
  BY <1>1, <1>2, Numbers
<1> QED  BY <1>3, <1>4 DEF Filled

(* Entries without gaps are present up to a position only.                 *)
LEMMA GaplessPresent ==
  ASSUME NEW es, NEW n \in Nat, DOMAIN es = 0 .. n - 1,
         \A p, q \in 0 .. n - 1 : p < q /\ es[q] # None => es[p] # None
  PROVE  \E m \in 0 .. n : \A p \in 0 .. n - 1 : es[p] # None <=> p < m
<1> DEFINE m == Cardinality(Present(es))
<1>1. Present(es) \in SUBSET (0 .. n - 1)
  BY DEF Present
<1>2. IsFiniteSet(Present(es)) /\ m <= n /\ m \in Nat
  <2>1. IsFiniteSet(0 .. n - 1) /\ Cardinality(0 .. n - 1) = n
    BY Numbers
  <2>2. IsFiniteSet(Present(es)) /\ Cardinality(Present(es)) <= Cardinality(0 .. n - 1)
    BY <1>1, <2>1, FS_Subset
  <2> QED  BY <2>1, <2>2, FS_CardinalityType
<1>3. ASSUME NEW p \in Present(es) PROVE p < m
  <2>1. p \in 0 .. n - 1 /\ p \in Nat /\ es[p] # None
    BY <1>1 DEF Present
  <2>2. 0 .. (p + 1) - 1 \in SUBSET Present(es)
    BY <2>1 DEF Present
  <2>3. Cardinality(0 .. (p + 1) - 1) <= m
    BY <1>2, <2>2, FS_Subset
  <2>4. p + 1 \in Nat
    BY <2>1
  <2>5. p + 1 <= m
    BY <2>3, <2>4, Numbers
  <2> QED  BY <1>2, <2>1, <2>5
<1>4. Present(es) = 0 .. m - 1
  <2>1. Present(es) \in SUBSET (0 .. m - 1)
    BY <1>1, <1>2, <1>3
  <2> QED  BY <1>2, <2>1, Numbers, FS_Subset
<1>5. \A p \in 0 .. n - 1 : es[p] # None <=> p \in Present(es)
  BY DEF Present
<1> HIDE DEF m
<1>6. m \in 0 .. n /\ \A p \in 0 .. n - 1 : p \in 0 .. m - 1 <=> p < m
  BY <1>2
<1>7. \A p \in 0 .. n - 1 : es[p] # None <=> p < m
  BY <1>4, <1>5, <1>6
<1> QED  BY <1>6, <1>7

(* A service's list is of endpoints, and as long as they are present.      *)
LEMMA StateIsList ==
  ASSUME TypeOK, NEW k \in Keys, serviceMap[k] # None, NoGaps(k, 0)
  PROVE  /\ StateFromMap(k) \in EndpointLists(Endpoints)
         /\ Len(StateFromMap(k)) \in 0 .. serviceMap[k].count
         /\ \A p \in 0 .. serviceMap[k].count - 1 :
              Entry(k, p) # None <=> p < Len(StateFromMap(k))
<1> DEFINE n == serviceMap[k].count
<1>1. n \in Counts /\ n \in Nat
  BY EntryFacts
<1>2. DOMAIN Entries(k) = 0 .. n - 1 /\ \A p \in 0 .. n - 1 : Entries(k)[p] = Entry(k, p)
  BY DEF Entries
<1>3. \A p, q \in 0 .. n - 1 : p < q /\ Entries(k)[q] # None => Entries(k)[p] # None
  BY <1>2 DEF NoGaps
<1>4. PICK m \in 0 .. n : \A p \in 0 .. n - 1 : Entries(k)[p] # None <=> p < m
  <2> HIDE DEF n
  <2> QED  BY <1>1, <1>2, <1>3, GaplessPresent
<1>5. StateFromMap(k) = [i \in 1 .. m |-> Entries(k)[i - 1]]
  <2> HIDE DEF n
  <2> QED  BY <1>1, <1>2, <1>4, FilledPrefix DEF StateFromMap
<1>6. ASSUME NEW i \in 1 .. m PROVE Entries(k)[i - 1] \in Endpoints
  <2>1. i - 1 \in 0 .. n - 1 /\ i - 1 < m /\ i - 1 \in Counts
    BY <1>1 DEF Counts
  <2> QED  BY <1>2, <1>4, <2>1, EntryFacts
<1>7. StateFromMap(k) \in [1 .. m -> Endpoints] /\ m \in Counts /\ m \in Nat
  BY <1>1, <1>5, <1>6 DEF Counts
<1>8. Len(StateFromMap(k)) = m
  BY <1>7
<1> QED  BY <1>2, <1>4, <1>7, <1>8 DEF EndpointLists

-----------------------------------------------------------------------------
(* ListsInv, while ids are intact and nothing fails.                       *)
LEMMA OpRecord ==
  ASSUME TypeOK, op # Idle
  PROVE  op \in [kind : OpKinds, key : Keys, id : Ids, eps : EndpointLists(Endpoints),
                 pos : Counts, end : Counts]
BY DEF TypeOK, OpType

LEMMA CallNumbers ==
  ASSUME TypeOK, op # Idle
  PROVE  /\ op.key \in Keys /\ op.kind \in OpKinds
         /\ op.pos \in Nat /\ op.end \in Nat /\ Len(op.eps) \in Nat
         /\ op.pos \in Counts /\ op.end \in Counts /\ Len(op.eps) \in Counts
         /\ \A i \in 1 .. Len(op.eps) : op.eps[i] \in Endpoints /\ op.eps[i] # None
<1>1. op.eps \in EndpointLists(Endpoints) /\ op.key \in Keys /\ op.kind \in OpKinds
      /\ op.pos \in Counts /\ op.end \in Counts
  BY OpFacts DEF TypeOK
<1>2. Len(op.eps) \in Counts /\ \A i \in 1 .. Len(op.eps) : op.eps[i] \in Endpoints
  BY <1>1, ListFacts
<1> QED  BY <1>1, <1>2 DEF Counts

(* A call writes or deletes one entry, which is of its own service.        *)
LEMMA EntriesOfCall ==
  ASSUME TypeOK, IdsFacts, op # Idle, NEW val, serviceMap' = serviceMap,
         endpointMap' = [endpointMap EXCEPT ![Family(op.key)][<<op.id, op.pos>>] = val]
  PROVE  \A k \in Keys, p \in Counts : serviceMap[k] # None =>
           Entry(k, p)' = IF k = op.key /\ p = op.pos THEN val ELSE Entry(k, p)
<1> SUFFICES ASSUME NEW k \in Keys, NEW p \in Counts, serviceMap[k] # None
             PROVE  Entry(k, p)' = IF k = op.key /\ p = op.pos THEN val ELSE Entry(k, p)
  OBVIOUS
<1>1. /\ serviceMap[op.key] # None /\ serviceMap[op.key].id = op.id /\ op.key \in Keys
      /\ op.id \in Ids /\ op.pos \in Counts
  BY OpFacts DEF TypeOK, IdsFacts, OpIsPublished
<1>2. serviceMap[k].id \in Ids /\ Family(k) \in Families /\ Family(op.key) \in Families
  BY EntryFacts DEF Family, Families
<1>3. serviceMap[k].id = op.id => k = op.key
  BY <1>1 DEF IdsFacts, Unshared
<1>4. Entry(k, p)' = endpointMap'[Family(k)][<<serviceMap[k].id, p>>]
  BY DEF Entry
<1>5. <<serviceMap[k].id, p>> \in EndpointKeys /\ <<op.id, op.pos>> \in EndpointKeys
  BY <1>1, <1>2 DEF EndpointKeys
<1>6. CASE k = op.key /\ p = op.pos
  BY <1>1, <1>2, <1>4, <1>5, <1>6 DEF TypeOK
<1>7. CASE ~(k = op.key /\ p = op.pos)
  <2>1. <<serviceMap[k].id, p>> # <<op.id, op.pos>>
    BY <1>3, <1>7
  <2> QED  BY <1>2, <1>4, <1>5, <1>7, <2>1 DEF TypeOK, Entry
<1> QED  BY <1>6, <1>7

(* A step that leaves the maps and the call alone.                         *)
LEMMA ListsStay ==
  ASSUME ListsInv, UNCHANGED <<serviceMap, endpointMap, op>>
  PROVE  ListsInv'
BY DEF ListsInv, NoGaps, Entry, Deleting, CallIsOnItsWay, Written, Deleted

LEMMA ListsWhenIdle ==
  ASSUME ListsInv, op = Idle, NEW k \in Keys, serviceMap[k] # None
  PROVE  NoGaps(k, 0)
BY DEF ListsInv, Deleting, Idle

LEMMA ListsInsert ==
  ASSUME TypeOK, IdsFacts, ListsInv,
         NEW k \in Keys, NEW eps \in EndpointLists(Pool[k]), BeginInsert(k, eps)
  PROVE  ListsInv'
<1> DEFINE value == [id |-> nextId, count |-> Len(eps)]
<1>1. /\ op = Idle /\ endpointMap' = endpointMap
      /\ serviceMap' = [serviceMap EXCEPT ![k] = value]
      /\ op' = [kind |-> "insert", key |-> k, id |-> nextId, eps |-> eps, pos |-> 0, end |-> 0]
  BY DEF BeginInsert
<1>2. Len(eps) \in Counts /\ Len(eps) \in Nat
  BY ListFacts DEF Counts
<1>3. \A j \in Keys : serviceMap'[j] = IF j = k THEN value ELSE serviceMap[j]
  BY <1>1 DEF TypeOK
<1>4. \A j \in Keys : ~Deleting(j)'
  BY <1>1 DEF Deleting
<1>5. \A pos \in Counts : Entry(k, pos)' = None
  <2>1. nextId \in Ids /\ ~UsedId(nextId)
    BY <1>1 DEF TypeOK, UsedId, Idle, Ids
  <2>2. \A pos \in Counts : endpointMap[Family(k)][<<nextId, pos>>] = None
    BY <2>1 DEF IdsFacts, UsedIdsOnly, Family, Families
  <2> QED  BY <1>1, <1>3, <2>2 DEF Entry
<1>6. NoGaps(k, 0)'
  <2>1. serviceMap'[k].count = Len(eps)
    BY <1>3
  <2>2. \A p \in 0 .. serviceMap'[k].count - 1 : p \in Counts
    BY <1>2, <2>1 DEF Counts
  <2> QED  BY <1>5, <2>2 DEF NoGaps
<1>7. ASSUME NEW j \in Keys, j # k, serviceMap'[j] # None PROVE NoGaps(j, 0)'
  <2>1. serviceMap'[j] = serviceMap[j] /\ NoGaps(j, 0)
    BY <1>1, <1>3, <1>7, ListsWhenIdle
  <2> QED  BY <1>1, <2>1 DEF NoGaps, Entry
<1>8. CallIsOnItsWay'
  <2>1. serviceMap'[k].count = Len(eps) /\ Len(eps) \in Nat
    BY <1>2, <1>3
  <2>2. op'.key = k /\ op'.kind = "insert" /\ op'.eps = eps /\ op'.pos = 0
    BY <1>1
  <2> QED  BY <2>1, <2>2 DEF CallIsOnItsWay, Written
<1> QED  BY <1>4, <1>6, <1>7, <1>8 DEF ListsInv

LEMMA ListsBegin ==
  ASSUME TypeOK, IdsFacts, ListsInv, NEW k \in Keys,
         BeginRemove(k) \/ \E eps \in EndpointLists(Pool[k]) : BeginOverwrite(k, eps)
  PROVE  ListsInv'
<1>1. /\ op = Idle /\ serviceMap[k] # None /\ op'.key = k /\ op'.pos = 0
      /\ op'.kind \in {"overwrite", "remove"} /\ op'.end = serviceMap[k].count
      /\ serviceMap' = serviceMap /\ endpointMap' = endpointMap
  BY DEF BeginRemove, BeginOverwrite, IdsFacts, kernelVars
<1>2. op'.kind = "overwrite" => Len(op'.eps) \in Nat
  <2>1. CASE BeginRemove(k)
    BY <2>1 DEF BeginRemove
  <2>2. ASSUME NEW eps \in EndpointLists(Pool[k]), BeginOverwrite(k, eps) PROVE Len(op'.eps) \in Nat
    <3>1. op'.eps = eps /\ Len(eps) \in Nat
      BY <2>2, ListFacts DEF BeginOverwrite, Counts
    <3> QED  BY <3>1
  <2> QED  BY <2>1, <2>2
<1>3. \A j \in Keys : serviceMap'[j] # None => NoGaps(j, 0)'
  BY <1>1, ListsWhenIdle DEF NoGaps, Entry
<1>4. CallIsOnItsWay'
  <2>1. serviceMap[k].count \in Nat
    BY <1>1, EntryFacts
  <2> QED  BY <1>1, <1>2, <2>1 DEF CallIsOnItsWay, Written, Deleted
<1>5. \A j \in Keys : (IF Deleting(j) THEN op.pos ELSE 0)' = 0
  BY <1>1
<1> QED  BY <1>3, <1>4, <1>5 DEF ListsInv

LEMMA ListsWrite ==
  ASSUME TypeOK, IdsFacts, ListsInv, WriteEndpoint
  PROVE  ListsInv'
<1> DEFINE ep == op.eps[op.pos + 1]
<1>1. /\ op # Idle /\ op.kind \in {"insert", "overwrite"} /\ op.pos < Len(op.eps)
      /\ serviceMap' = serviceMap
      /\ endpointMap' = [endpointMap EXCEPT ![Family(op.key)][<<op.id, op.pos>>] = ep]
      /\ op' = [op EXCEPT !.pos = op.pos + 1]
  BY DEF WriteEndpoint, Idle
<1>2. /\ op'.kind = op.kind /\ op'.key = op.key /\ op'.eps = op.eps /\ op'.end = op.end
      /\ op'.pos = op.pos + 1
  BY <1>1, OpRecord
<1>3. op.pos \in Nat /\ Len(op.eps) \in Nat /\ op.key \in Keys /\ Len(op.eps) \in Counts
  BY <1>1, CallNumbers
<1>4. ep \in Endpoints /\ ep # None
  <2>1. op.pos + 1 \in 1 .. Len(op.eps)
    BY <1>1, <1>3
  <2> QED  BY <1>1, <2>1, CallNumbers
<1>5. serviceMap[op.key] # None /\ CallIsOnItsWay /\ \A j \in Keys : ~Deleting(j) /\ ~Deleting(j)'
  BY <1>1, <1>2 DEF IdsFacts, OpIsPublished, ListsInv, Deleting
<1> HIDE DEF ep
<1>6. \A k \in Keys, p \in Counts : serviceMap[k] # None =>
        Entry(k, p)' = IF k = op.key /\ p = op.pos THEN ep ELSE Entry(k, p)
  BY <1>1, EntriesOfCall
<1>7. ASSUME NEW k \in Keys, serviceMap[k] # None PROVE NoGaps(k, 0)'
  <2>1. serviceMap[k].count \in Counts /\ serviceMap[k].count \in Nat /\ NoGaps(k, 0)
    BY <1>5, <1>7, EntryFacts DEF ListsInv
  <2>2. ASSUME NEW p \in 0 .. serviceMap[k].count - 1, NEW q \in 0 .. serviceMap[k].count - 1,
               p < q, Entry(k, q)' # None
        PROVE  Entry(k, p)' # None
    <3>1. p \in Counts /\ q \in Counts /\ p \in Nat /\ q \in Nat
      BY <2>1 DEF Counts
    <3>2. CASE k = op.key /\ p = op.pos
      BY <1>4, <1>6, <1>7, <3>1, <3>2
    <3>3. CASE k = op.key /\ q = op.pos
      <4>1. p \in 0 .. op.pos - 1 /\ p + 1 \in 1 .. Len(op.eps) /\ p # op.pos
        BY <1>1, <1>3, <2>2, <3>1, <3>3
      <4>2. Entry(k, p) = op.eps[p + 1] /\ op.eps[p + 1] # None
        BY <1>1, <1>5, <3>3, <4>1, CallNumbers DEF CallIsOnItsWay, Written
      <4> QED  BY <1>6, <1>7, <3>1, <4>1, <4>2
    <3>4. CASE ~(k = op.key /\ p = op.pos) /\ ~(k = op.key /\ q = op.pos)
      BY <1>6, <1>7, <2>1, <2>2, <3>1, <3>4 DEF NoGaps
    <3> QED  BY <3>2, <3>3, <3>4
  <2> QED  BY <1>1, <2>2 DEF NoGaps
<1>8. CallIsOnItsWay'
  <2>1. op.pos + 1 <= Len(op.eps)
    BY <1>1, <1>3
  <2>2. PICK key \in Keys : key = op.key /\ serviceMap[key] # None
    BY <1>3, <1>5
  <2>3. ASSUME NEW p \in 0 .. (op.pos + 1) - 1 PROVE Entry(key, p)' = op.eps[p + 1]
    <3>1. p \in Counts /\ (p = op.pos \/ p \in 0 .. op.pos - 1)
      BY <1>1, <1>3 DEF Counts
    <3>2. p # op.pos => Entry(key, p) = op.eps[p + 1]
      BY <1>1, <1>5, <2>2, <3>1 DEF CallIsOnItsWay, Written
    <3>3. Entry(key, p)' = IF p = op.pos THEN ep ELSE Entry(key, p)
      BY <1>6, <2>2, <3>1
    <3>4. p = op.pos => ep = op.eps[p + 1]
      BY DEF ep
    <3> QED  BY <3>2, <3>3, <3>4
  <2>4. Written(op.pos)'
    BY <1>2, <2>2, <2>3 DEF Written, Entry
  <2> QED  BY <1>1, <1>2, <1>5, <2>1, <2>4 DEF CallIsOnItsWay
<1> QED  BY <1>1, <1>5, <1>7, <1>8 DEF ListsInv

(* Only the entries before the position of a trim or a removal differ from *)
(* a list without gaps.                                                    *)
Kept == IF op.kind = "trim" THEN Len(op.eps) ELSE 0

LEMMA DeletionFacts ==
  ASSUME TypeOK, IdsFacts, ListsInv, op # Idle, op.kind \in {"trim", "remove"}
  PROVE  /\ op.key \in Keys /\ serviceMap[op.key] # None
         /\ serviceMap[op.key].count = op.end /\ op.end \in Counts
         /\ op.pos \in Nat /\ op.end \in Nat /\ Kept \in Nat /\ Kept <= op.pos /\ op.pos <= op.end
         /\ NoGaps(op.key, op.pos)
         /\ \A p \in 0 .. Kept - 1 : Entry(op.key, p) = op.eps[p + 1] /\ Entry(op.key, p) # None
         /\ \A p \in Kept .. op.pos - 1 : Entry(op.key, p) = None
<1>1. op.key \in Keys /\ op.pos \in Nat /\ op.end \in Nat /\ op.end \in Counts /\ Len(op.eps) \in Nat
      /\ \A i \in 1 .. Len(op.eps) : op.eps[i] # None
  BY CallNumbers
<1>2. serviceMap[op.key] # None
  BY DEF IdsFacts, OpIsPublished
<1>3. CallIsOnItsWay /\ NoGaps(op.key, op.pos)
  BY <1>1, <1>2 DEF ListsInv, Deleting
<1>4. serviceMap[op.key].count = op.end /\ Kept <= op.pos /\ op.pos <= op.end /\ Kept \in Nat
  BY <1>1, <1>3 DEF CallIsOnItsWay, Kept
<1>5. ASSUME NEW p \in 0 .. Kept - 1
      PROVE  Entry(op.key, p) = op.eps[p + 1] /\ Entry(op.key, p) # None
  <2>1. op.kind = "trim" /\ Kept = Len(op.eps)
    BY <1>1 DEF Kept
  <2>2. p \in 0 .. Len(op.eps) - 1 /\ p + 1 \in 1 .. Len(op.eps)
    BY <1>1, <2>1
  <2>3. Entry(op.key, p) = op.eps[p + 1]
    BY <1>3, <2>1, <2>2 DEF CallIsOnItsWay, Written
  <2> QED  BY <1>1, <2>2, <2>3
<1>6. \A p \in Kept .. op.pos - 1 : Entry(op.key, p) = None
  BY <1>3 DEF CallIsOnItsWay, Deleted, Kept
<1> QED  BY <1>1, <1>2, <1>3, <1>4, <1>5, <1>6

(* At its end, or where it meets an absent position, what is left is what  *)
(* is kept.                                                                *)
LEMMA DeletionEnds ==
  ASSUME TypeOK, IdsFacts, ListsInv, op # Idle, op.kind \in {"trim", "remove"},
         op.pos = op.end \/ (op.pos < op.end /\ CurrentEntry = None)
  PROVE  \A p \in 0 .. serviceMap[op.key].count - 1 : Entry(op.key, p) # None <=> p < Kept
<1> USE DeletionFacts
<1>1. CurrentEntry = Entry(op.key, op.pos)
  BY DEF CurrentEntry, Entry, IdsFacts, OpIsPublished
<1> SUFFICES ASSUME NEW p \in 0 .. serviceMap[op.key].count - 1
             PROVE  Entry(op.key, p) # None <=> p < Kept
  OBVIOUS
<1>2. p \in Nat /\ p < op.end
  OBVIOUS
<1>3. CASE p < Kept
  BY <1>2, <1>3
<1>4. CASE Kept <= p /\ p < op.pos
  BY <1>2, <1>4
<1>5. CASE op.pos <= p
  <2>1. op.pos < op.end /\ Entry(op.key, op.pos) = None
    BY <1>1, <1>2, <1>5
  <2>2. p # op.pos => op.pos < p /\ p \in op.pos .. op.end - 1 /\ op.pos \in op.pos .. op.end - 1
    BY <1>2, <1>5
  <2>3. Entry(op.key, p) = None
    BY <2>1, <2>2 DEF NoGaps
  <2>4. ~(p < Kept)
    BY <1>2, <1>5
  <2> QED  BY <2>3, <2>4
<1> QED  BY <1>2, <1>3, <1>4, <1>5

LEMMA ListsFinishOverwrite ==
  ASSUME TypeOK, IdsFacts, ListsInv, FinishOverwrite
  PROVE  ListsInv'
<1>1. /\ op # Idle /\ op.kind = "overwrite" /\ op.pos = Len(op.eps)
      /\ serviceMap' = serviceMap /\ endpointMap' = endpointMap
      /\ op' = Idle \/ (op.end > Len(op.eps) /\ op' = [op EXCEPT !.kind = "trim"])
  BY DEF FinishOverwrite, Idle, kernelVars
<1>2. CallIsOnItsWay /\ op.pos \in Nat /\ op.end \in Nat
  BY <1>1, CallNumbers DEF ListsInv
<1>3. \A k \in Keys : serviceMap[k] # None => NoGaps(k, 0)
  BY <1>1 DEF ListsInv, Deleting
<1>4. CASE op' = Idle
  BY <1>1, <1>3, <1>4 DEF ListsInv, NoGaps, Entry, Deleting, Idle
<1>5. CASE op' = [op EXCEPT !.kind = "trim"] /\ op.end > Len(op.eps)
  <2>1. /\ op'.kind = "trim" /\ op'.key = op.key /\ op'.eps = op.eps /\ op'.end = op.end
        /\ op'.pos = op.pos
    BY <1>1, <1>5, OpRecord
  <2>2. \A k \in Keys : serviceMap[k] # None => NoGaps(k, op.pos)
    <3> SUFFICES ASSUME NEW k \in Keys, serviceMap[k] # None PROVE NoGaps(k, op.pos)
      OBVIOUS
    <3>1. serviceMap[k].count \in Nat /\ NoGaps(k, 0)
      BY <1>3, EntryFacts
    <3>2. \A q \in op.pos .. serviceMap[k].count - 1 : q \in 0 .. serviceMap[k].count - 1
      BY <1>2, <3>1
    <3> QED  BY <3>1, <3>2 DEF NoGaps
  <2>3. \A k \in Keys : \A from : NoGaps(k, from) => NoGaps(k, from)'
    BY <1>1 DEF NoGaps, Entry
  <2>4. CallIsOnItsWay'
    <3>1. Written(Len(op.eps))'
      BY <1>1, <1>2, <2>1 DEF CallIsOnItsWay, Written, Entry
    <3>2. Deleted(Len(op.eps))'
      BY <1>1, <1>2, <2>1 DEF Deleted
    <3> QED  BY <1>1, <1>2, <1>5, <2>1, <3>1, <3>2 DEF CallIsOnItsWay, Deleted
  <2>5. \A k \in Keys : serviceMap[k] # None => NoGaps(k, 0)' /\ NoGaps(k, op.pos)'
    BY <1>3, <2>1, <2>2, <2>3
  <2> QED  BY <1>1, <2>1, <2>4, <2>5 DEF ListsInv
<1> QED  BY <1>1, <1>4, <1>5

LEMMA ListsDelete ==
  ASSUME TypeOK, IdsFacts, ListsInv, DeleteEndpoint
  PROVE  ListsInv'
<1>1. /\ op # Idle /\ op.kind \in {"trim", "remove"} /\ op.pos < op.end
      /\ serviceMap' = serviceMap
      /\ endpointMap' = [endpointMap EXCEPT ![Family(op.key)][<<op.id, op.pos>>] = None]
      /\ op' = [op EXCEPT !.pos = op.pos + 1]
  BY DEF DeleteEndpoint, DeletionPending, Idle
<1>2. /\ op'.kind = op.kind /\ op'.key = op.key /\ op'.eps = op.eps /\ op'.end = op.end
      /\ op'.pos = op.pos + 1
  BY <1>1, OpRecord
<1>3. /\ op.key \in Keys /\ serviceMap[op.key] # None
      /\ serviceMap[op.key].count = op.end /\ op.end \in Counts
      /\ op.pos \in Nat /\ op.end \in Nat /\ Kept \in Nat /\ Kept <= op.pos
      /\ NoGaps(op.key, op.pos)
      /\ \A p \in 0 .. Kept - 1 : Entry(op.key, p) = op.eps[p + 1]
      /\ \A p \in Kept .. op.pos - 1 : Entry(op.key, p) = None
  BY <1>1, DeletionFacts
<1>4. \A k \in Keys, p \in Counts : serviceMap[k] # None =>
        Entry(k, p)' = IF k = op.key /\ p = op.pos THEN None ELSE Entry(k, p)
  BY <1>1, EntriesOfCall
<1>5. ASSUME NEW k \in Keys, serviceMap[k] # None, k # op.key PROVE NoGaps(k, 0)'
  <2>1. NoGaps(k, 0) /\ serviceMap[k].count \in Counts /\ serviceMap[k].count \in Nat
    BY <1>5, EntryFacts DEF ListsInv, Deleting
  <2>2. \A p \in 0 .. serviceMap[k].count - 1 : Entry(k, p)' = Entry(k, p)
    <3>1. \A p \in 0 .. serviceMap[k].count - 1 : p \in Counts
      BY <2>1 DEF Counts
    <3> QED  BY <1>4, <1>5, <3>1
  <2> QED  BY <1>1, <2>1, <2>2 DEF NoGaps
<1>6. PICK key \in Keys : key = op.key /\ serviceMap[key] # None
  BY <1>3
<1>7. \A p \in Counts : Entry(key, p)' = IF p = op.pos THEN None ELSE Entry(key, p)
  BY <1>4, <1>6
<1>8. /\ \A p \in 0 .. op.end - 1 : p \in Counts
      /\ \A p \in 0 .. op.pos - 1 : p \in 0 .. op.end - 1 /\ p # op.pos
      /\ \A p \in op.pos + 1 .. op.end - 1 :
           p \in 0 .. op.end - 1 /\ p # op.pos /\ p \in op.pos .. op.end - 1
      /\ op.pos \in 0 .. op.end - 1
  BY <1>1, <1>3 DEF Counts
<1>9. NoGaps(key, op.pos)'
  <2>1. \A p \in op.pos + 1 .. op.end - 1 : Entry(key, p)' = Entry(key, p)
    BY <1>7, <1>8
  <2>2. \A p, q \in op.pos + 1 .. op.end - 1 :
          p < q /\ Entry(key, q)' # None => Entry(key, p)' # None
    BY <1>3, <1>6, <1>8, <2>1 DEF NoGaps
  <2>3. op'.pos = op.pos + 1 /\ serviceMap'[key].count = op.end
    BY <1>1, <1>2, <1>3, <1>6
  <2> QED  BY <2>2, <2>3 DEF NoGaps
<1>10. CallIsOnItsWay'
  <2>1. \A p \in 0 .. Kept - 1 : Entry(key, p)' = op.eps[p + 1]
    <3>1. \A p \in 0 .. Kept - 1 : p \in 0 .. op.pos - 1
      BY <1>3
    <3> QED  BY <1>3, <1>6, <1>7, <1>8, <3>1
  <2>2. \A p \in Kept .. (op.pos + 1) - 1 : Entry(key, p)' = None
    <3>1. \A p \in Kept .. (op.pos + 1) - 1 :
            p = op.pos \/ (p \in Kept .. op.pos - 1 /\ p \in 0 .. op.pos - 1)
      BY <1>3
    <3>2. \A p \in Kept .. op.pos - 1 : Entry(key, p) = None
      BY <1>3, <1>6
    <3> QED  BY <1>7, <1>8, <3>1, <3>2
  <2>3. op.pos + 1 <= op.end /\ Kept <= op.pos + 1
    BY <1>1, <1>3
  <2>4. CASE op.kind = "trim"
    <3>1. Kept = Len(op.eps)
      BY <2>4 DEF Kept
    <3>2. Written(Len(op.eps))' /\ Deleted(Len(op.eps))'
      BY <1>2, <1>6, <2>1, <2>2, <3>1 DEF Written, Deleted, Entry
    <3> QED  BY <1>1, <1>2, <1>3, <2>3, <2>4, <3>1, <3>2 DEF CallIsOnItsWay, Written, Deleted
  <2>5. CASE op.kind = "remove"
    <3>1. Kept = 0
      BY <2>5 DEF Kept
    <3>2. Deleted(0)'
      BY <1>2, <1>6, <2>2, <3>1 DEF Deleted, Entry
    <3> QED  BY <1>1, <1>2, <1>3, <2>3, <2>5, <3>2 DEF CallIsOnItsWay
  <2> QED  BY <1>1, <2>4, <2>5
<1>11. ASSUME NEW k \in Keys, serviceMap[k] # None
       PROVE  NoGaps(k, IF Deleting(k) THEN op.pos ELSE 0)'
  <2>1. CASE k = key
    <3>1. Deleting(k)'
      BY <1>1, <1>2, <1>6, <2>1 DEF Deleting
    <3>2. NoGaps(k, op.pos)'
      BY <1>2, <1>9, <2>1 DEF NoGaps
    <3> QED  BY <3>1, <3>2
  <2>2. CASE k # key
    <3>1. ~Deleting(k)'
      BY <1>2, <1>6, <2>2 DEF Deleting
    <3> QED  BY <1>5, <1>6, <1>11, <2>2, <3>1
  <2> QED  BY <2>1, <2>2
<1> QED  BY <1>1, <1>10, <1>11 DEF ListsInv

LEMMA ListsEnd ==
  ASSUME TypeOK, IdsFacts, ListsInv, DeleteAbsent \/ FinishTrim \/ FinishRemove \/ FinishInsert
  PROVE  ListsInv'
<1>1. op # Idle /\ op' = Idle /\ endpointMap' = endpointMap
      /\ op.kind \in {"trim", "remove", "insert"}
  BY DEF DeleteAbsent, DeletionPending, FinishTrim, FinishRemove, FinishInsert, Idle, kernelVars
<1>2. \A k \in Keys : serviceMap'[k] # None => serviceMap'[k] = serviceMap[k] /\ serviceMap[k] # None
  BY DEF DeleteAbsent, FinishTrim, FinishRemove, FinishInsert, kernelVars, TypeOK
<1>3. ASSUME NEW k \in Keys, serviceMap[k] # None PROVE NoGaps(k, 0)
  <2>1. CASE ~Deleting(k)
    BY <1>3, <2>1 DEF ListsInv
  <2>2. CASE Deleting(k)
    <3>1. op.kind \in {"trim", "remove"} /\ op.key = k
      BY <2>2 DEF Deleting
    <3>2. op.pos = op.end \/ (op.pos < op.end /\ CurrentEntry = None)
      BY <3>1 DEF DeleteAbsent, DeletionPending, FinishTrim, FinishRemove, FinishInsert
    <3>3. \A p \in 0 .. serviceMap[k].count - 1 : Entry(k, p) # None <=> p < Kept
      BY <1>1, <3>1, <3>2, DeletionEnds
    <3>4. serviceMap[k].count \in Nat /\ Kept \in Nat
      BY <1>1, <3>1, DeletionFacts, EntryFacts, <1>3
    <3>5. \A p, q \in 0 .. serviceMap[k].count - 1 : p < q /\ q < Kept => p < Kept
      BY <3>4
    <3> QED  BY <3>3, <3>5 DEF NoGaps
  <2> QED  BY <2>1, <2>2
<1>4. ASSUME NEW k \in Keys, serviceMap'[k] # None PROVE NoGaps(k, 0)'
  <2>1. serviceMap'[k] = serviceMap[k] /\ NoGaps(k, 0)
    BY <1>2, <1>3, <1>4
  <2> QED  BY <1>1, <2>1 DEF NoGaps, Entry
<1>5. \A k \in Keys : ~Deleting(k)'
  BY <1>1 DEF Deleting, Idle
<1> QED  BY <1>1, <1>4, <1>5 DEF ListsInv

LEMMA ListsInit == Init => ListsInv
BY DEF Init, ListsInv

LEMMA ListsStep ==
  ASSUME Accidents = {}, TypeOK, IdsFacts, ListsInv, [Next]_vars
  PROVE  ListsInv'
<1>1. ~UpdateFails /\ ~Restart
  BY DEF UpdateFails, Restart
<1>2. CASE AgentCall
  BY <1>2, ListsInsert, ListsBegin DEF AgentCall
<1>3. CASE AgentStep
  BY <1>3, ListsWrite, ListsFinishOverwrite, ListsDelete, ListsEnd DEF AgentStep
<1>4. CASE DataPlane \/ UNCHANGED vars
  <2>1. UNCHANGED <<serviceMap, endpointMap, op>>
    BY <1>4 DEF DataPlane, LookupEndpoint, Redirect, LookupService, vars, kernelVars
  <2> QED  BY <2>1, ListsStay
<1> QED  BY <1>1, <1>2, <1>3, <1>4 DEF Next

(* With no accidents there is no lapse; ids remain by assumption.          *)
NoAccident == Accidents = {} /\ lapses = {}

LEMMA NothingFails == Accidents = {} => (Spec => []NoAccident)
<1>1. Accidents = {} /\ Init => NoAccident
  BY DEF Init, NoAccident
<1>2. NoAccident /\ [Next]_vars => NoAccident'
  BY DEF NoAccident, Next, AgentCall, AgentStep, DataPlane, vars, BeginInsert, BeginOverwrite, BeginRemove,
     WriteEndpoint, FinishInsert, FinishOverwrite, DeleteEndpoint, DeleteAbsent, FinishTrim,
     FinishRemove, UpdateFails, Restart, LookupService, LookupEndpoint, Redirect
<1> QED  BY <1>1, <1>2, PTL DEF Spec

(* While no call is at work a service's endpoints have no gaps, and a call *)
(* has done its work up to where it is, wherever connections interleave,   *)
(* for any services, lists and limits (state.rs:84-173).                   *)
THEOREM ListsHaveNoGaps == Accidents = {} => (Spec /\ []IdsRemain => []ListsInv)
<1>1. TypeOK /\ IdsInv /\ NoAccident /\ IdsRemain /\ ListsInv /\ [Next]_vars => ListsInv'
  BY ListsStep DEF IdsInv, IdsIntact, IdsRemain, IdsFacts, NoAccident
<1> QED  BY <1>1, ListsInit, TypeCorrect, IdsCorrect, NothingFails, PTL DEF Spec

-----------------------------------------------------------------------------
(* The refinement: what a step does to the table that is shown.  First the *)
(* mapping's own facts: a call at work is shown as a call, a published     *)
(* service of an idle agent as the list it has.                            *)
LEMMA CallShown == ASSUME TypeOK, op # Idle PROVE CallInProgress # None
<1>1. op.kind \in OpKinds /\ op.key \in Keys /\ op.eps \in EndpointLists(Endpoints)
  BY OpFacts DEF TypeOK
<1>2. CallInProgress \in [kind : {"update"}, key : Keys, eps : EndpointLists(Endpoints)]
                         \union [kind : {"remove"}, key : Keys]
  BY <1>1 DEF CallInProgress
<1> QED  BY <1>2, NoneIsNoCall

LEMMA IdleShown ==
  ASSUME TypeOK, ListsInv, op = Idle, NEW k \in Keys
  PROVE  /\ Outcome(k) = IF serviceMap[k] = None THEN None
                         ELSE [capacity |-> serviceMap[k].count, eps |-> StateFromMap(k)]
         /\ Outcome(k) = None <=> serviceMap[k] = None
<1>1. ~BeingUpdated(k) /\ ~BeingRemoved(k)
  BY DEF BeingUpdated, BeingRemoved, Idle
<1>2. Outcome(k) = IF serviceMap[k] = None THEN None
                   ELSE [capacity |-> serviceMap[k].count, eps |-> StateFromMap(k)]
  BY <1>1 DEF Outcome, Shown
<1>3. ASSUME serviceMap[k] # None
      PROVE  [capacity |-> serviceMap[k].count, eps |-> StateFromMap(k)] # None
  <2>1. serviceMap[k].count \in Counts /\ StateFromMap(k) \in EndpointLists(Endpoints)
    BY <1>3, ListsWhenIdle, EntryFacts, StateIsList
  <2> QED  BY <2>1, NoneIsNoEntry
<1> QED  BY <1>2, <1>3

(* The table is changed where an outcome is, and nowhere else.             *)
LEMMA TableChanges ==
  ASSUME NEW k \in Keys, NEW v,
         \A j \in Keys : Outcome(j)' = IF j = k THEN v ELSE Outcome(j)
  PROVE  TableShown' = [TableShown EXCEPT ![k] = v]
BY DEF TableShown

LEMMA TableStays ==
  ASSUME \A j \in Keys : Outcome(j)' = Outcome(j)
  PROVE  TableShown' = TableShown
BY DEF TableShown

LEMMA OthersStay ==
  ASSUME NEW j \in Keys, serviceMap'[j] = serviceMap[j],
         serviceMap[j] # None =>
           \A p \in 0 .. serviceMap[j].count - 1 : Entry(j, p)' = Entry(j, p),
         ~BeingUpdated(j), ~BeingRemoved(j), ~BeingUpdated(j)', ~BeingRemoved(j)'
  PROVE  Outcome(j)' = Outcome(j)
<1>1. CASE serviceMap[j] = None
  BY <1>1 DEF Outcome
<1>2. CASE serviceMap[j] # None
  <2>1. Entries(j)' = Entries(j)
    BY <1>2 DEF Entries
  <2>2. StateFromMap(j)' = StateFromMap(j)
    BY <2>1 DEF StateFromMap
  <2> QED  BY <1>2, <2>2 DEF Outcome, Shown
<1> QED  BY <1>1, <1>2

(* Endpoints up to c, each as the call gave it, are the call's list up to c. *)
LEMMA ListIsWritten ==
  ASSUME TypeOK, op # Idle, NEW k \in Keys, serviceMap[k] # None,
         NEW c \in 0 .. serviceMap[k].count, c <= Len(op.eps),
         \A p \in 0 .. serviceMap[k].count - 1 : Entry(k, p) # None <=> p < c,
         \A p \in 0 .. c - 1 : Entry(k, p) = op.eps[p + 1]
  PROVE  StateFromMap(k) = SubSeq(op.eps, 1, c)
<1> DEFINE n == serviceMap[k].count
<1>1. n \in Nat /\ c \in Nat /\ Len(op.eps) \in Nat
  BY EntryFacts, CallNumbers
<1>2. DOMAIN Entries(k) = 0 .. n - 1 /\ \A p \in 0 .. n - 1 : Entries(k)[p] = Entry(k, p)
  BY DEF Entries
<1>3. StateFromMap(k) = [i \in 1 .. c |-> Entries(k)[i - 1]]
  <2>1. c \in 0 .. n /\ \A p \in 0 .. n - 1 : Entries(k)[p] # None <=> p < c
    BY <1>2
  <2> HIDE DEF n
  <2> QED  BY <1>1, <1>2, <2>1, FilledPrefix DEF StateFromMap
<1>4. \A i \in 1 .. c : Entries(k)[i - 1] = op.eps[i]
  <2> SUFFICES ASSUME NEW i \in 1 .. c PROVE Entries(k)[i - 1] = op.eps[i]
    OBVIOUS
  <2>1. i - 1 \in 0 .. n - 1 /\ i - 1 \in 0 .. c - 1 /\ i - 1 + 1 = i
    BY <1>1
  <2>2. Entry(k, i - 1) = op.eps[i - 1 + 1]
    BY <2>1
  <2> QED  BY <1>2, <2>1, <2>2
<1>5. \A i \in 1 .. c : op.eps[i] \in Endpoints
  <2>1. \A i \in 1 .. c : i \in 1 .. Len(op.eps)
    BY <1>1
  <2> QED  BY <2>1, CallNumbers
<1>6. /\ SubSeq(op.eps, 1, c) \in Seq(Endpoints)
      /\ Len(SubSeq(op.eps, 1, c)) = c
      /\ \A i \in 1 .. c : SubSeq(op.eps, 1, c)[i] = op.eps[i]
  <2>1. /\ SubSeq(op.eps, 1, c) \in Seq(Endpoints)
        /\ Len(SubSeq(op.eps, 1, c)) = IF 1 <= c THEN c - 1 + 1 ELSE 0
        /\ \A i \in 1 .. c - 1 + 1 : SubSeq(op.eps, 1, c)[i] = op.eps[1 + i - 1]
    BY <1>1, <1>5, SubSeqProperties
  <2>2. c - 1 + 1 = c /\ \A i \in 1 .. c : 1 + i - 1 = i
    BY <1>1
  <2> QED  BY <1>1, <2>1, <2>2
<1>7. SubSeq(op.eps, 1, c) = [i \in 1 .. c |-> op.eps[i]]
  <2>1. DOMAIN SubSeq(op.eps, 1, c) = 1 .. c
    BY <1>6
  <2> QED  BY <1>6, <2>1
<1> QED  BY <1>3, <1>4, <1>7

-----------------------------------------------------------------------------
(* One call begins.                                                        *)
LEMMA PublishStep ==
  ASSUME TypeOK, IdsFacts, ListsInv,
         NEW k \in Keys, NEW eps \in EndpointLists(Pool[k]), BeginInsert(k, eps)
  PROVE  Promised!Begin
<1> DEFINE value == [id |-> nextId, count |-> Len(eps)]
<1>1. /\ op = Idle /\ endpointMap' = endpointMap /\ serviceMap[k] = None
      /\ serviceMap' = [serviceMap EXCEPT ![k] = value]
      /\ op' = [kind |-> "insert", key |-> k, id |-> nextId, eps |-> eps, pos |-> 0, end |-> 0]
  BY DEF BeginInsert, IdsFacts
<1>2. Len(eps) \in Counts /\ Len(eps) \in Nat
  BY ListFacts DEF Counts
<1>3. value # None
  BY <1>2 DEF TypeOK, ServiceValue
<1>4. \A j \in Keys : serviceMap'[j] = IF j = k THEN value ELSE serviceMap[j]
  BY <1>1 DEF TypeOK
<1>5. SubSeq(eps, 1, Len(eps)) = eps
  <2>1. eps \in Seq(Pool[k])
    BY DEF EndpointLists, Counts
  <2> QED  BY <2>1, SubSeqFull
<1>6. Outcome(k)' = [capacity |-> Len(eps), eps |-> eps]
  <2>1. serviceMap'[k].count = Len(eps) /\ serviceMap'[k] # None
    BY <1>3, <1>4
  <2>2. BeingUpdated(k)' /\ ~BeingRemoved(k)' /\ op'.eps = eps
    BY <1>1 DEF BeingUpdated, BeingRemoved
  <2>3. ~(Len(eps) < Len(eps))
    BY <1>2
  <2>4. Shown(k)' = eps
    BY <1>5, <2>1, <2>2, <2>3 DEF Shown
  <2> QED  BY <2>1, <2>2, <2>4 DEF Outcome
<1>7. ASSUME NEW j \in Keys, j # k PROVE Outcome(j)' = Outcome(j)
  <2>1. serviceMap'[j] = serviceMap[j]
    BY <1>4, <1>7
  <2>2. ~BeingUpdated(j) /\ ~BeingRemoved(j) /\ ~BeingUpdated(j)' /\ ~BeingRemoved(j)'
    BY <1>1, <1>7 DEF BeingUpdated, BeingRemoved, Idle
  <2>3. \A p : Entry(j, p)' = Entry(j, p)
    BY <1>1, <2>1 DEF Entry
  <2> QED  BY <2>1, <2>2, <2>3, OthersStay
<1>8. TableShown' = [TableShown EXCEPT ![k] = [capacity |-> Len(eps), eps |-> eps]]
  <2> DEFINE v == [capacity |-> Len(eps), eps |-> eps]
  <2>1. \A j \in Keys : Outcome(j)' = IF j = k THEN v ELSE Outcome(j)
    BY <1>6, <1>7
  <2> HIDE DEF v
  <2>2. TableShown' = [TableShown EXCEPT ![k] = v]
    BY <2>1, TableChanges
  <2> QED  BY <2>2 DEF v
<1>9. TableShown[k] = None
  BY <1>1, IdleShown DEF TableShown
<1>10. CallInProgress = None /\ CallInProgress' = [kind |-> "update", key |-> k, eps |-> eps]
  <2>1. op' # Idle
    BY <1>1 DEF Idle
  <2> QED  BY <1>1, <2>1 DEF CallInProgress
<1> QED
  BY <1>8, <1>9, <1>10 DEF Promised!Begin, Promised!Publish, Promised!UpdateCall, ListsFor

(* The outcome of the other services when a call begins that is no insert. *)
LEMMA OthersAtBegin ==
  ASSUME NEW k \in Keys, op = Idle, op'.key = k, UNCHANGED kernelVars,
         NEW j \in Keys, j # k
  PROVE  Outcome(j)' = Outcome(j)
<1>1. ~BeingUpdated(j) /\ ~BeingRemoved(j) /\ ~BeingUpdated(j)' /\ ~BeingRemoved(j)'
  BY DEF BeingUpdated, BeingRemoved, Idle
<1>2. serviceMap'[j] = serviceMap[j] /\ \A p : Entry(j, p)' = Entry(j, p)
  BY DEF kernelVars, Entry
<1> QED  BY <1>1, <1>2, OthersStay

LEMMA ReplaceStep ==
  ASSUME TypeOK, IdsFacts, ListsInv,
         NEW k \in Keys, NEW eps \in EndpointLists(Pool[k]), BeginOverwrite(k, eps)
  PROVE  Promised!Begin
<1> DEFINE n == serviceMap[k].count
           v == [capacity |-> n, eps |-> Promised!Clip(eps, n)]
<1>1. /\ op = Idle /\ UNCHANGED kernelVars /\ serviceMap[k] # None /\ serviceMap'[k] = serviceMap[k]
      /\ op' = [kind |-> "overwrite", key |-> k, id |-> serviceMap[k].id, eps |-> eps,
                pos |-> 0, end |-> n]
  BY DEF BeginOverwrite, IdsFacts, kernelVars
<1>2. TableShown[k] = [capacity |-> n, eps |-> StateFromMap(k)] /\ TableShown[k] # None
  BY <1>1, IdleShown DEF TableShown
<1>3. Outcome(k)' = v
  <2>1. BeingUpdated(k)' /\ ~BeingRemoved(k)' /\ op'.eps = eps
    BY <1>1 DEF BeingUpdated, BeingRemoved
  <2>2. Shown(k)' = Promised!Clip(eps, n)
    BY <1>1, <2>1 DEF Shown, Promised!Clip
  <2> QED  BY <1>1, <2>1, <2>2 DEF Outcome
<1>4. \A j \in Keys : Outcome(j)' = IF j = k THEN v ELSE Outcome(j)
  BY <1>1, <1>3, OthersAtBegin
<1>5. TableShown' = [TableShown EXCEPT ![k] = v]
  <2> HIDE DEF v
  <2> QED  BY <1>4, TableChanges
<1>6. TableShown' = [TableShown EXCEPT ![k].eps = Promised!Clip(eps, TableShown[k].capacity)]
  <2>1. [TableShown[k] EXCEPT !.eps = Promised!Clip(eps, TableShown[k].capacity)] = v
    BY <1>2
  <2> HIDE DEF v
  <2> QED  BY <1>5, <2>1 DEF TableShown
<1>7. CallInProgress = None /\ CallInProgress' = [kind |-> "update", key |-> k, eps |-> eps]
  <2>1. op' # Idle
    BY <1>1 DEF Idle
  <2> QED  BY <1>1, <2>1 DEF CallInProgress
<1> QED
  BY <1>2, <1>6, <1>7 DEF Promised!Begin, Promised!Replace, Promised!UpdateCall, ListsFor

(* A list shorter than the count is one with an entry absent.              *)
LEMMA ShortList ==
  ASSUME TypeOK, NEW k \in Keys, serviceMap[k] # None, NoGaps(k, 0)
  PROVE  LET len == Len(StateFromMap(k))
             n == serviceMap[k].count
         IN  /\ len \in Nat /\ n \in Nat /\ len <= n
             /\ \A from \in 0 .. n :
                  (\E p \in from .. n - 1 : Entry(k, p) = None) <=> len < n /\ from < n
<1> DEFINE len == Len(StateFromMap(k))
           n == serviceMap[k].count
<1>1. n \in Nat /\ len \in 0 .. n /\ \A p \in 0 .. n - 1 : Entry(k, p) # None <=> p < len
  BY EntryFacts, StateIsList
<1>2. ASSUME NEW from \in 0 .. n
      PROVE  (\E p \in from .. n - 1 : Entry(k, p) = None) <=> len < n /\ from < n
  <2> HIDE DEF len, n
  <2>1. ASSUME len < n, from < n PROVE \E p \in from .. n - 1 : Entry(k, p) = None
    <3>1. n - 1 \in from .. n - 1 /\ n - 1 \in 0 .. n - 1 /\ ~(n - 1 < len)
      BY <1>1, <2>1
    <3> QED  BY <1>1, <3>1
  <2>2. ASSUME NEW p \in from .. n - 1, Entry(k, p) = None PROVE len < n /\ from < n
    <3>1. p \in 0 .. n - 1
      BY <1>1
    <3>2. ~(p < len)
      BY <1>1, <2>2, <3>1
    <3> QED  BY <1>1, <3>1, <3>2
  <2> QED  BY <2>1, <2>2
<1> QED  BY <1>1, <1>2

LEMMA WithdrawStep ==
  ASSUME TypeOK, IdsFacts, ListsInv, NEW k \in Keys, BeginRemove(k)
  PROVE  Promised!Begin
<1> DEFINE n == serviceMap[k].count
           len == Len(StateFromMap(k))
           v == IF len < n THEN [capacity |-> n, eps |-> <<>>] ELSE None
<1>1. /\ op = Idle /\ UNCHANGED kernelVars /\ serviceMap[k] # None /\ serviceMap'[k] = serviceMap[k]
      /\ op' = [kind |-> "remove", key |-> k, id |-> serviceMap[k].id, eps |-> <<>>,
                pos |-> 0, end |-> n]
  BY DEF BeginRemove, IdsFacts, kernelVars
<1>2. TableShown[k] = [capacity |-> n, eps |-> StateFromMap(k)] /\ TableShown[k] # None
  BY <1>1, IdleShown DEF TableShown
<1>3. n \in Nat /\ len \in Nat /\ len <= n /\ (WillBeRemoved' <=> len = n)
  <2>1. NoGaps(k, 0)
    BY <1>1, ListsWhenIdle
  <2>2. /\ len \in Nat /\ n \in Nat /\ len <= n
        /\ \A from \in 0 .. n :
             (\E p \in from .. n - 1 : Entry(k, p) = None) <=> len < n /\ from < n
    BY <1>1, <2>1, ShortList
  <2>3. (\E p \in 0 .. n - 1 : Entry(k, p) = None) <=> len < n
    <3> HIDE DEF len, n
    <3>1. 0 \in 0 .. n /\ (len < n => 0 < n)
      BY <2>2
    <3> QED  BY <2>2, <3>1
  <2>4. WillBeRemoved' <=> \A p \in 0 .. n - 1 : Entry(k, p) # None
    BY <1>1 DEF WillBeRemoved, Entry, kernelVars
  <2>5. WillBeRemoved' <=> ~(len < n)
    BY <2>3, <2>4
  <2> HIDE DEF len, n
  <2>6. ~(len < n) <=> len = n
    BY <2>2
  <2> QED  BY <2>2, <2>5, <2>6
<1>4. Outcome(k)' = v
  <2>1. ~BeingUpdated(k)' /\ BeingRemoved(k)'
    BY <1>1 DEF BeingUpdated, BeingRemoved
  <2>2. Outcome(k)' = IF WillBeRemoved' THEN None ELSE [capacity |-> n, eps |-> <<>>]
    BY <1>1, <2>1 DEF Outcome, Shown
  <2> HIDE DEF len, n
  <2>3. len < n <=> len # n
    BY <1>3
  <2> QED  BY <1>3, <2>2, <2>3
<1>5. \A j \in Keys : Outcome(j)' = IF j = k THEN v ELSE Outcome(j)
  BY <1>1, <1>4, OthersAtBegin
<1>6. TableShown' = [TableShown EXCEPT ![k] = v]
  <2> HIDE DEF v
  <2> QED  BY <1>5, TableChanges
<1>7. CallInProgress = None /\ CallInProgress' = [kind |-> "remove", key |-> k]
  <2>1. op' # Idle
    BY <1>1 DEF Idle
  <2> QED  BY <1>1, <2>1 DEF CallInProgress
<1>8. CASE len = n
  <2>1. Promised!Withdraw(k)
    <3>1. v = None
      <4> HIDE DEF len, n
      <4> QED  BY <1>3, <1>8 DEF v
    <3>2. Len(TableShown[k].eps) = TableShown[k].capacity
      BY <1>2, <1>8
    <3>3. TableShown' = [TableShown EXCEPT ![k] = None]
      <4> HIDE DEF v
      <4> QED  BY <1>6, <3>1
    <3> QED  BY <1>2, <3>2, <3>3 DEF Promised!Withdraw
  <2> QED  BY <1>7, <2>1 DEF Promised!Begin, Promised!RemoveCall
<1>9. CASE len # n
  <2>1. len < n
    <3> HIDE DEF len, n
    <3> QED  BY <1>3, <1>9
  <2>2. v = [TableShown[k] EXCEPT !.eps = <<>>]
    BY <1>2, <2>1
  <2>3. TableShown' = [TableShown EXCEPT ![k].eps = <<>>]
    <3> HIDE DEF v
    <3> QED  BY <1>6, <2>2 DEF TableShown
  <2>4. Promised!FailToWithdraw(k)
    BY <1>2, <2>1, <2>3 DEF Promised!FailToWithdraw
  <2> QED  BY <1>7, <2>4 DEF Promised!Begin, Promised!RemoveCall
<1> QED  BY <1>8, <1>9

-----------------------------------------------------------------------------
(* A call is on its way: nothing shows.                                    *)
LEMMA UpdateGoesOn ==
  ASSUME TypeOK, op # Idle, op' # Idle, serviceMap' = serviceMap,
         op.kind \in {"insert", "overwrite", "trim"}, op'.kind \in {"insert", "overwrite", "trim"},
         op'.key = op.key, op'.eps = op.eps,
         \A j \in Keys : j # op.key /\ serviceMap[j] # None =>
           \A p \in 0 .. serviceMap[j].count - 1 : Entry(j, p)' = Entry(j, p)
  PROVE  UNCHANGED <<TableShown, CallInProgress>>
<1>1. ASSUME NEW j \in Keys PROVE Outcome(j)' = Outcome(j)
  <2>1. ~BeingRemoved(j) /\ ~BeingRemoved(j)' /\ (BeingUpdated(j)' <=> BeingUpdated(j))
    BY DEF BeingRemoved, BeingUpdated
  <2>2. CASE j = op.key
    <3>1. BeingUpdated(j)
      BY <2>2 DEF BeingUpdated
    <3> QED  BY <2>1, <3>1 DEF Outcome, Shown
  <2>3. CASE j # op.key
    <3>1. ~BeingUpdated(j)
      BY <2>3 DEF BeingUpdated
    <3> QED  BY <2>1, <2>3, <3>1, OthersStay
  <2> QED  BY <2>2, <2>3
<1>2. CallInProgress' = CallInProgress
  BY DEF CallInProgress
<1> QED  BY <1>1, <1>2, TableStays

(* The entries of other services, when a call writes or deletes one.       *)
LEMMA OthersKeepEntries ==
  ASSUME TypeOK, IdsFacts, op # Idle, NEW val, serviceMap' = serviceMap,
         endpointMap' = [endpointMap EXCEPT ![Family(op.key)][<<op.id, op.pos>>] = val]
  PROVE  \A j \in Keys : j # op.key /\ serviceMap[j] # None =>
           \A p \in 0 .. serviceMap[j].count - 1 : Entry(j, p)' = Entry(j, p)
<1> SUFFICES ASSUME NEW j \in Keys, j # op.key, serviceMap[j] # None,
                    NEW p \in 0 .. serviceMap[j].count - 1
             PROVE  Entry(j, p)' = Entry(j, p)
  OBVIOUS
<1>1. serviceMap[j].count \in 0 .. MaxCount /\ MaxCount \in Nat
  BY EntryFacts DEF Counts
<1>2. p \in Counts
  BY <1>1 DEF Counts
<1> QED  BY <1>2, EntriesOfCall

LEMMA WriteShows ==
  ASSUME TypeOK, IdsFacts, WriteEndpoint
  PROVE  UNCHANGED <<TableShown, CallInProgress>>
<1> DEFINE ep == op.eps[op.pos + 1]
<1>1. /\ op # Idle /\ op.kind \in {"insert", "overwrite"} /\ serviceMap' = serviceMap
      /\ endpointMap' = [endpointMap EXCEPT ![Family(op.key)][<<op.id, op.pos>>] = ep]
      /\ op' = [op EXCEPT !.pos = op.pos + 1]
  BY DEF WriteEndpoint, Idle
<1>2. op'.kind = op.kind /\ op'.key = op.key /\ op'.eps = op.eps
  BY <1>1, OpRecord
<1>3. op' # Idle
  BY <1>1, <1>2 DEF Idle
<1> HIDE DEF ep
<1> QED  BY <1>1, <1>2, <1>3, OthersKeepEntries, UpdateGoesOn

LEMMA TrimBeginShows ==
  ASSUME TypeOK, FinishOverwrite, op' # Idle
  PROVE  UNCHANGED <<TableShown, CallInProgress>>
<1>1. /\ op # Idle /\ op.kind = "overwrite" /\ UNCHANGED kernelVars
      /\ op' = [op EXCEPT !.kind = "trim"]
  BY DEF FinishOverwrite, Idle
<1>2. op'.kind = "trim" /\ op'.key = op.key /\ op'.eps = op.eps
  BY <1>1, OpRecord
<1>3. serviceMap' = serviceMap /\ \A j \in Keys : \A p : Entry(j, p)' = Entry(j, p)
  BY <1>1 DEF kernelVars, Entry
<1> QED  BY <1>1, <1>2, <1>3, UpdateGoesOn

LEMMA DeleteShows ==
  ASSUME TypeOK, IdsFacts, ListsInv, DeleteEndpoint
  PROVE  UNCHANGED <<TableShown, CallInProgress>>
<1>1. /\ op # Idle /\ op.kind \in {"trim", "remove"} /\ op.pos < op.end
      /\ serviceMap' = serviceMap /\ CurrentEntry # None
      /\ endpointMap' = [endpointMap EXCEPT ![Family(op.key)][<<op.id, op.pos>>] = None]
      /\ op' = [op EXCEPT !.pos = op.pos + 1]
  BY DEF DeleteEndpoint, DeletionPending, Idle
<1>2. /\ op'.kind = op.kind /\ op'.key = op.key /\ op'.eps = op.eps /\ op'.end = op.end
      /\ op'.pos = op.pos + 1
  BY <1>1, OpRecord
<1>3. op' # Idle
  BY <1>1, <1>2 DEF Idle
<1>4. \A j \in Keys : j # op.key /\ serviceMap[j] # None =>
        \A p \in 0 .. serviceMap[j].count - 1 : Entry(j, p)' = Entry(j, p)
  BY <1>1, OthersKeepEntries
<1>5. CASE op.kind = "trim"
  BY <1>1, <1>2, <1>3, <1>4, <1>5, UpdateGoesOn
<1>6. CASE op.kind = "remove"
  <2>1. PICK key \in Keys : key = op.key /\ serviceMap[key] # None
    BY <1>1, DeletionFacts
  <2>2. op.pos \in Nat /\ op.end \in Nat /\ op.end \in Counts
    BY <1>1, DeletionFacts
  <2>3. \A p \in Counts : Entry(key, p)' = IF p = op.pos THEN None ELSE Entry(key, p)
    BY <1>1, <2>1, EntriesOfCall
  <2>4. Entry(key, op.pos) # None
    BY <1>1, <2>1 DEF CurrentEntry, Entry, IdsFacts, OpIsPublished
  <2>5. /\ \A p \in op.pos + 1 .. op.end - 1 :
             p \in Counts /\ p # op.pos /\ p \in op.pos .. op.end - 1
        /\ \A p \in op.pos .. op.end - 1 : p = op.pos \/ p \in op.pos + 1 .. op.end - 1
    BY <2>2 DEF Counts
  <2>6. WillBeRemoved' <=> \A p \in op.pos + 1 .. op.end - 1 : Entry(key, p)' # None
    BY <1>2, <2>1 DEF WillBeRemoved, Entry
  <2>7. WillBeRemoved <=> \A p \in op.pos .. op.end - 1 : Entry(key, p) # None
    BY <2>1 DEF WillBeRemoved
  <2>8. WillBeRemoved' <=> WillBeRemoved
    BY <2>3, <2>4, <2>5, <2>6, <2>7
  <2>9. ASSUME NEW j \in Keys PROVE Outcome(j)' = Outcome(j)
    <3>1. ~BeingUpdated(j) /\ ~BeingUpdated(j)' /\ (BeingRemoved(j)' <=> BeingRemoved(j))
      BY <1>2, <1>6 DEF BeingRemoved, BeingUpdated
    <3>2. CASE j = key
      <4>1. BeingRemoved(j)
        BY <1>6, <2>1, <3>2 DEF BeingRemoved
      <4> QED  BY <1>1, <2>8, <3>1, <4>1 DEF Outcome, Shown
    <3>3. CASE j # key
      <4>1. ~BeingRemoved(j)
        BY <2>1, <3>3 DEF BeingRemoved
      <4> QED  BY <1>1, <1>4, <2>1, <3>1, <3>3, <4>1, OthersStay
    <3> QED  BY <3>2, <3>3
  <2>10. CallInProgress' = CallInProgress
    BY <1>1, <1>2, <1>3 DEF CallInProgress
  <2> QED  BY <2>9, <2>10, TableStays
<1> QED  BY <1>1, <1>5, <1>6

LEMMA NothingShows ==
  ASSUME UNCHANGED <<serviceMap, endpointMap, op>>
  PROVE  UNCHANGED <<TableShown, CallInProgress>>
<1>1. \A j \in Keys : Outcome(j)' = Outcome(j)
  BY DEF Outcome, Shown, StateFromMap, Entries, Entry, BeingUpdated, BeingRemoved, WillBeRemoved
<1> QED  BY <1>1, TableStays DEF CallInProgress

-----------------------------------------------------------------------------
(* A call ends with the outcome that was shown.                            *)
LEMMA CallReturns ==
  ASSUME TypeOK, op # Idle, op' = Idle, UNCHANGED kernelVars,
         NEW key \in Keys, key = op.key, serviceMap[key] # None,
         Outcome(key) = [capacity |-> serviceMap[key].count, eps |-> StateFromMap(key)]
  PROVE  Promised!Return
<1>1. \A j \in Keys : ~BeingUpdated(j)' /\ ~BeingRemoved(j)'
  BY DEF BeingUpdated, BeingRemoved, Idle
<1>2. serviceMap' = serviceMap /\ \A j \in Keys : \A p : Entry(j, p)' = Entry(j, p)
  BY DEF kernelVars, Entry
<1>3. ASSUME NEW j \in Keys PROVE Outcome(j)' = Outcome(j)
  <2>1. CASE j = key
    <3>1. StateFromMap(key)' = StateFromMap(key)
      BY <1>2 DEF StateFromMap, Entries
    <3> QED  BY <1>1, <1>2, <2>1, <3>1 DEF Outcome, Shown
  <2>2. CASE j # key
    <3>1. ~BeingUpdated(j) /\ ~BeingRemoved(j)
      BY <2>2 DEF BeingUpdated, BeingRemoved
    <3> QED  BY <1>1, <1>2, <3>1, OthersStay
  <2> QED  BY <2>1, <2>2
<1>4. CallInProgress # None /\ CallInProgress' = None
  BY CallShown DEF CallInProgress
<1> QED  BY <1>3, <1>4, TableStays DEF Promised!Return

(* What an update has written when it ends: its list, up to the count.     *)
LEMMA UpdateEnds ==
  ASSUME TypeOK, IdsFacts, ListsInv,
         \/ FinishInsert
         \/ FinishOverwrite /\ op' = Idle
         \/ FinishTrim
         \/ DeleteAbsent /\ op.kind = "trim"
  PROVE  Promised!Return
<1>1. /\ op # Idle /\ op.kind \in {"insert", "overwrite", "trim"} /\ op' = Idle
      /\ UNCHANGED kernelVars
  BY DEF FinishInsert, FinishOverwrite, FinishTrim, DeleteAbsent, DeletionPending, Idle
<1>2. PICK key \in Keys : key = op.key /\ serviceMap[key] # None
  BY <1>1, CallNumbers DEF IdsFacts, OpIsPublished
<1> DEFINE n == serviceMap[key].count
           c == IF Len(op.eps) < n THEN Len(op.eps) ELSE n
<1>3. /\ n \in Nat /\ n \in Counts /\ Len(op.eps) \in Nat
      /\ op.pos \in Nat /\ op.end \in Nat /\ CallIsOnItsWay
  BY <1>1, <1>2, EntryFacts, CallNumbers DEF ListsInv
<1>4. /\ \A p \in 0 .. n - 1 : Entry(key, p) # None <=> p < c
      /\ \A p \in 0 .. c - 1 : Entry(key, p) = op.eps[p + 1]
  <2>1. CASE op.kind \in {"insert", "overwrite"}
    <3>1. n <= Len(op.eps) /\ op.pos = Len(op.eps)
      <4>1. CASE op.kind = "insert"
        <5>1. n = Len(op.eps) /\ op.pos = Len(op.eps)
          BY <1>2, <1>3, <4>1 DEF CallIsOnItsWay, FinishInsert, FinishOverwrite, FinishTrim, DeleteAbsent
        <5> HIDE DEF n
        <5> QED  BY <1>3, <5>1
      <4>2. CASE op.kind = "overwrite"
        <5>1. FinishOverwrite /\ n = op.end /\ op.pos = Len(op.eps)
          BY <1>2, <1>3, <4>2 DEF CallIsOnItsWay, FinishInsert, FinishOverwrite, FinishTrim, DeleteAbsent
        <5>2. ~(op.end > Len(op.eps))
          <6>1. ASSUME op.end > Len(op.eps) PROVE FALSE
            <7>1. op' = [op EXCEPT !.kind = "trim"] /\ op' = Idle
              BY <1>1, <5>1, <6>1 DEF FinishOverwrite
            <7>2. op'.kind = "trim" /\ op'.kind = "idle"
              BY <1>1, <7>1, OpRecord DEF Idle
            <7> QED  BY <7>2
          <6> QED  BY <6>1
        <5> HIDE DEF n
        <5> QED  BY <1>3, <5>1, <5>2
      <4> QED  BY <2>1, <4>1, <4>2
    <3>2. Written(Len(op.eps))
      BY <1>3, <2>1, <3>1 DEF CallIsOnItsWay
    <3>3. c = n
      <4> HIDE DEF n
      <4> QED  BY <1>3, <3>1
    <3>4. ASSUME NEW p \in 0 .. n - 1
          PROVE  p < n /\ Entry(key, p) = op.eps[p + 1] /\ Entry(key, p) # None
      <4>1. p < n /\ p \in 0 .. Len(op.eps) - 1 /\ p + 1 \in 1 .. Len(op.eps)
        <5> HIDE DEF n
        <5> QED  BY <1>3, <3>1
      <4>2. Entry(key, p) = op.eps[p + 1]
        BY <1>2, <3>2, <4>1 DEF Written
      <4> QED  BY <1>1, <4>1, <4>2, CallNumbers
    <3> HIDE DEF n, c
    <3> QED  BY <3>3, <3>4
  <2>2. CASE op.kind = "trim"
    <3>1. op.pos = op.end \/ (op.pos < op.end /\ CurrentEntry = None)
      BY <2>2 DEF FinishInsert, FinishOverwrite, FinishTrim, DeleteAbsent, DeletionPending
    <3>2. \A p \in 0 .. n - 1 : Entry(key, p) # None <=> p < Kept
      BY <1>1, <1>2, <2>2, <3>1, DeletionEnds
    <3>3. /\ n = op.end /\ Kept = Len(op.eps) /\ Kept <= op.pos /\ op.pos <= op.end
          /\ \A p \in 0 .. Kept - 1 : Entry(key, p) = op.eps[p + 1]
      BY <1>1, <1>2, <2>2, DeletionFacts DEF Kept
    <3>4. c = Kept
      <4> HIDE DEF n
      <4> QED  BY <1>3, <3>3
    <3> HIDE DEF n, c
    <3> QED  BY <3>2, <3>3, <3>4
  <2> QED  BY <1>1, <2>1, <2>2
<1>5. c \in 0 .. n /\ c <= Len(op.eps)
  <2> HIDE DEF n
  <2> QED  BY <1>3
<1>6. StateFromMap(key) = SubSeq(op.eps, 1, c)
  <2> HIDE DEF c
  <2> QED  BY <1>1, <1>2, <1>4, <1>5, ListIsWritten
<1>7. Outcome(key) = [capacity |-> n, eps |-> StateFromMap(key)]
  <2>1. BeingUpdated(key) /\ ~BeingRemoved(key)
    BY <1>1, <1>2 DEF BeingUpdated, BeingRemoved
  <2> QED  BY <1>2, <1>6, <2>1 DEF Outcome, Shown
<1> QED  BY <1>1, <1>2, <1>7, CallReturns

LEMMA RemovalFails ==
  ASSUME TypeOK, IdsFacts, ListsInv, DeleteAbsent, op.kind = "remove"
  PROVE  Promised!Return
<1>1. /\ op # Idle /\ op' = Idle /\ UNCHANGED kernelVars
      /\ op.pos < op.end /\ CurrentEntry = None
  BY DEF DeleteAbsent, DeletionPending, Idle
<1>2. PICK key \in Keys : key = op.key /\ serviceMap[key] # None
  BY <1>1, DeletionFacts
<1> DEFINE n == serviceMap[key].count
<1>3. n \in Nat /\ op.pos \in Nat /\ op.end \in Nat /\ Len(op.eps) \in Nat /\ Kept = 0
  BY <1>1, <1>2, EntryFacts, DeletionFacts, CallNumbers DEF Kept
<1>4. \A p \in 0 .. n - 1 : Entry(key, p) # None <=> p < 0
  BY <1>1, <1>2, <1>3, DeletionEnds
<1>5. StateFromMap(key) = <<>>
  <2>1. 0 \in 0 .. n /\ 0 <= Len(op.eps) /\ \A p \in 0 .. 0 - 1 : FALSE
    <3> HIDE DEF n
    <3> QED  BY <1>3
  <2>2. StateFromMap(key) = SubSeq(op.eps, 1, 0)
    BY <1>1, <1>2, <1>4, <2>1, ListIsWritten
  <2> QED  BY <2>2, SubSeqEmpty
<1>6. ~WillBeRemoved
  <2>1. op.pos \in op.pos .. op.end - 1
    BY <1>1, <1>3
  <2>2. Entry(op.key, op.pos) = None
    BY <1>1 DEF CurrentEntry, Entry, IdsFacts, OpIsPublished
  <2> QED  BY <2>1, <2>2 DEF WillBeRemoved
<1>7. Outcome(key) = [capacity |-> n, eps |-> StateFromMap(key)]
  <2>1. BeingRemoved(key) /\ ~BeingUpdated(key)
    BY <1>2 DEF BeingUpdated, BeingRemoved
  <2> QED  BY <1>2, <1>5, <1>6, <2>1 DEF Outcome, Shown
<1> QED  BY <1>1, <1>2, <1>7, CallReturns

LEMMA RemovalEnds ==
  ASSUME TypeOK, IdsFacts, ListsInv, FinishRemove
  PROVE  Promised!Return
<1>1. /\ op # Idle /\ op' = Idle /\ op.kind = "remove" /\ op.pos = op.end
      /\ endpointMap' = endpointMap
  BY DEF FinishRemove, Idle
<1>2. PICK key \in Keys : key = op.key /\ serviceMap[key] # None
  BY <1>1, DeletionFacts
<1>3. serviceMap' = [serviceMap EXCEPT ![key] = None]
  BY <1>2 DEF FinishRemove
<1>4. \A j \in Keys : ~BeingUpdated(j)' /\ ~BeingRemoved(j)'
  BY <1>1 DEF BeingUpdated, BeingRemoved, Idle
<1>5. ASSUME NEW j \in Keys PROVE Outcome(j)' = Outcome(j)
  <2>1. CASE j = key
    <3>1. op.pos \in Nat /\ op.end \in Nat
      BY <1>1, DeletionFacts
    <3>2. WillBeRemoved
      BY <1>1, <3>1 DEF WillBeRemoved
    <3>3. Outcome(key) = None
      BY <1>1, <1>2, <3>2 DEF Outcome, BeingRemoved
    <3>4. serviceMap'[key] = None
      BY <1>3 DEF TypeOK
    <3> QED  BY <2>1, <3>3, <3>4 DEF Outcome
  <2>2. CASE j # key
    <3>1. ~BeingUpdated(j) /\ ~BeingRemoved(j)
      BY <1>2, <2>2 DEF BeingUpdated, BeingRemoved
    <3>2. serviceMap'[j] = serviceMap[j]
      BY <1>3, <2>2 DEF TypeOK
    <3>3. \A p : Entry(j, p)' = Entry(j, p)
      BY <1>1, <3>2 DEF Entry
    <3> QED  BY <1>4, <3>1, <3>2, <3>3, OthersStay
  <2> QED  BY <2>1, <2>2
<1>6. CallInProgress # None /\ CallInProgress' = None
  BY <1>1, CallShown DEF CallInProgress
<1> QED  BY <1>5, <1>6, TableStays DEF Promised!Return

-----------------------------------------------------------------------------
LEMMA TableInit == Init => Promised!Init
BY DEF Init, Promised!Init, TableShown, Outcome, CallInProgress

LEMMA TableStep ==
  ASSUME Accidents = {}, TypeOK, IdsFacts, ListsInv, [Next]_vars
  PROVE  [Promised!Next]_<<TableShown, CallInProgress>>
<1>1. ~UpdateFails /\ ~Restart
  BY DEF UpdateFails, Restart
<1>2. CASE AgentCall
  BY <1>2, PublishStep, ReplaceStep, WithdrawStep DEF AgentCall, Promised!Next
<1>3. CASE WriteEndpoint
  BY <1>3, WriteShows
<1>4. CASE DeleteEndpoint
  BY <1>4, DeleteShows
<1>5. CASE FinishOverwrite
  BY <1>5, UpdateEnds, TrimBeginShows DEF Promised!Next
<1>6. CASE FinishInsert \/ FinishTrim
  BY <1>6, UpdateEnds DEF Promised!Next
<1>7. CASE DeleteAbsent
  <2>1. op.kind \in {"trim", "remove"}
    BY <1>7 DEF DeleteAbsent, DeletionPending
  <2> QED  BY <1>7, <2>1, UpdateEnds, RemovalFails DEF Promised!Next
<1>8. CASE FinishRemove
  BY <1>8, RemovalEnds DEF Promised!Next
<1>9. CASE DataPlane \/ UNCHANGED vars
  <2>1. UNCHANGED <<serviceMap, endpointMap, op>>
    BY <1>9 DEF DataPlane, LookupEndpoint, Redirect, LookupService, vars, kernelVars
  <2> QED  BY <2>1, NothingShows
<1> QED  BY <1>1, <1>2, <1>3, <1>4, <1>5, <1>6, <1>7, <1>8, <1>9 DEF Next, AgentStep

(* With no accidents and ids left, every call takes effect in one step,    *)
(* when it takes the mutex, and shows nothing else until it returns, for   *)
(* any services, lists and limits (state.rs:84-173).                       *)
THEOREM TableImplemented == Accidents = {} => (Spec /\ []IdsRemain => ImplementsTable)
<1>1. TypeOK /\ IdsInv /\ NoAccident /\ IdsRemain /\ ListsInv /\ [Next]_vars
        => [Promised!Next]_<<TableShown, CallInProgress>>
  BY TableStep DEF IdsInv, IdsIntact, IdsRemain, IdsFacts, NoAccident
<1> QED
  BY <1>1, TableInit, ListsHaveNoGaps, TypeCorrect, IdsCorrect, NothingFails, PTL
     DEF Spec, ImplementsTable, Promised!Spec

(* Under the same conditions an update fails exactly when its list and the *)
(* one it replaces are both shorter than the recorded count                *)
(* (state.rs:150-173).                                                     *)
THEOREM ErrorsAreAsPromised == Accidents = {} => (Spec /\ []IdsRemain => ErrorsAsPromised)
<1> DEFINE Agree == \A k \in Keys : \A eps \in EndpointLists(Pool[k]) :
                      BeginOverwrite(k, eps) => (TrimWillFail' <=> Promised!UpdateFails(k, eps))
<1>1. ASSUME TypeOK, IdsFacts, ListsInv PROVE Agree
  <2> SUFFICES ASSUME NEW k \in Keys, NEW eps \in EndpointLists(Pool[k]), BeginOverwrite(k, eps)
               PROVE  TrimWillFail' <=> Promised!UpdateFails(k, eps)
    OBVIOUS
  <2> DEFINE n == serviceMap[k].count
             len == Len(StateFromMap(k))
             new == Len(eps)
  <2>1. /\ op = Idle /\ UNCHANGED kernelVars /\ serviceMap[k] # None
        /\ op' = [kind |-> "overwrite", key |-> k, id |-> serviceMap[k].id, eps |-> eps,
                  pos |-> 0, end |-> n]
    BY <1>1 DEF BeginOverwrite, IdsFacts, kernelVars
  <2>2. TableShown[k] = [capacity |-> n, eps |-> StateFromMap(k)] /\ TableShown[k] # None
    BY <1>1, <2>1, IdleShown DEF TableShown
  <2>3. Promised!UpdateFails(k, eps) <=> len < n /\ new < n
    BY <2>2 DEF Promised!UpdateFails
  <2>4. /\ len \in Nat /\ n \in Nat /\ len <= n
        /\ \A from \in 0 .. n :
             (\E p \in from .. n - 1 : Entry(k, p) = None) <=> len < n /\ from < n
    BY <1>1, <2>1, ListsWhenIdle, ShortList
  <2>5. TrimWillFail' <=> \E p \in new .. n - 1 : Entry(k, p) = None
    BY <2>1 DEF TrimWillFail, Entry, kernelVars
  <2>6. new \in Nat
    BY ListFacts DEF Counts
  <2> HIDE DEF n, len, new
  <2>7. CASE new <= n
    <3>1. new \in 0 .. n
      BY <2>4, <2>6, <2>7
    <3> QED  BY <2>3, <2>4, <2>5, <3>1
  <2>8. CASE ~(new <= n)
    <3>1. ~(new < n) /\ \A p \in new .. n - 1 : FALSE
      BY <2>4, <2>6, <2>8
    <3> QED  BY <2>3, <2>5, <3>1
  <2> QED  BY <2>7, <2>8
<1>2. TypeOK /\ IdsInv /\ NoAccident /\ IdsRemain /\ ListsInv /\ [Next]_vars => [Agree]_vars
  BY <1>1 DEF IdsInv, IdsIntact, IdsRemain, IdsFacts, NoAccident
<1>3. Accidents = {} => (Spec /\ []IdsRemain => [][Agree]_vars)
  <2> HIDE DEF Agree
  <2> QED  BY <1>2, ListsHaveNoGaps, TypeCorrect, IdsCorrect, NothingFails, PTL DEF Spec
<1> QED  BY <1>3 DEF ErrorsAsPromised
-----------------------------------------------------------------------------
(* SuccessIsExact, with accidents: while a call lasts nobody else writes    *)
(* entries, so that its own are as it left them, whoever else has its id.  *)
CallIsKnown ==
  op # Idle => /\ serviceMap[op.key] # None /\ serviceMap[op.key].id = op.id
               /\ CallIsOnItsWay

LEMMA KnownBegin ==
  ASSUME TypeOK, CacheMatchesMap, NEW k \in Keys, NEW eps \in EndpointLists(Pool[k]),
         BeginInsert(k, eps) \/ BeginOverwrite(k, eps) \/ BeginRemove(k)
  PROVE  CallIsKnown'
<1>1. Len(eps) \in Nat /\ \A p \in 0 .. 0 - 1 : FALSE
  BY ListFacts DEF Counts
<1>2. CASE BeginInsert(k, eps)
  <2>1. /\ serviceMap'[k] = [id |-> nextId, count |-> Len(eps)]
        /\ op' = [kind |-> "insert", key |-> k, id |-> nextId, eps |-> eps, pos |-> 0, end |-> 0]
    BY <1>2 DEF BeginInsert, TypeOK
  <2>2. nextId \in Ids /\ Len(eps) \in Counts
    BY ListFacts DEF TypeOK
  <2>3. serviceMap'[k] # None
    BY <2>1, <2>2 DEF ServiceValue
  <2> QED  BY <1>1, <2>1, <2>3 DEF CallIsKnown, CallIsOnItsWay, Written
<1>3. CASE BeginOverwrite(k, eps)
  <2>1. /\ serviceMap' = serviceMap /\ serviceMap[k] # None
        /\ op' = [kind |-> "overwrite", key |-> k, id |-> serviceMap[k].id, eps |-> eps,
                  pos |-> 0, end |-> serviceMap[k].count]
    BY <1>3 DEF BeginOverwrite, CacheMatchesMap, kernelVars
  <2> QED  BY <1>1, <2>1 DEF CallIsKnown, CallIsOnItsWay, Written
<1>4. CASE BeginRemove(k)
  <2>1. /\ serviceMap' = serviceMap /\ serviceMap[k] # None
        /\ op' = [kind |-> "remove", key |-> k, id |-> serviceMap[k].id, eps |-> <<>>,
                  pos |-> 0, end |-> serviceMap[k].count]
    BY <1>4 DEF BeginRemove, CacheMatchesMap, kernelVars
  <2>2. serviceMap[k].count \in Nat
    BY <2>1, EntryFacts
  <2> QED  BY <1>1, <2>1, <2>2 DEF CallIsKnown, CallIsOnItsWay, Deleted
<1> QED  BY <1>2, <1>3, <1>4

(* Of its own service, a call writes or deletes one entry.                 *)
LEMMA OwnEntry ==
  ASSUME TypeOK, op # Idle, NEW key \in Keys, key = op.key,
         serviceMap[key] # None, serviceMap[key].id = op.id, NEW val, serviceMap' = serviceMap,
         endpointMap' = [endpointMap EXCEPT ![Family(op.key)][<<op.id, op.pos>>] = val]
  PROVE  \A p \in Counts : Entry(key, p)' = IF p = op.pos THEN val ELSE Entry(key, p)
<1> SUFFICES ASSUME NEW p \in Counts
             PROVE  Entry(key, p)' = IF p = op.pos THEN val ELSE Entry(key, p)
  OBVIOUS
<1>1. /\ <<op.id, p>> \in EndpointKeys /\ <<op.id, op.pos>> \in EndpointKeys
      /\ Family(key) \in Families
  BY OpFacts DEF TypeOK, EndpointKeys, Family, Families
<1>2. Entry(key, p) = endpointMap[Family(key)][<<op.id, p>>]
  BY DEF Entry
<1>3. Entry(key, p)' = endpointMap'[Family(key)][<<op.id, p>>]
  BY DEF Entry
<1>4. p = op.pos <=> <<op.id, p>> = <<op.id, op.pos>>
  OBVIOUS
<1> QED  BY <1>1, <1>2, <1>3, <1>4 DEF TypeOK

LEMMA KnownWrite ==
  ASSUME TypeOK, CallIsKnown, WriteEndpoint
  PROVE  CallIsKnown'
<1> DEFINE ep == op.eps[op.pos + 1]
<1>1. /\ op # Idle /\ op.kind \in {"insert", "overwrite"} /\ op.pos < Len(op.eps)
      /\ serviceMap' = serviceMap
      /\ endpointMap' = [endpointMap EXCEPT ![Family(op.key)][<<op.id, op.pos>>] = ep]
      /\ op' = [op EXCEPT !.pos = op.pos + 1]
  BY DEF WriteEndpoint, Idle
<1>2. /\ op'.kind = op.kind /\ op'.key = op.key /\ op'.eps = op.eps /\ op'.end = op.end
      /\ op'.pos = op.pos + 1 /\ op'.id = op.id
  BY <1>1, OpRecord
<1>3. /\ op.pos \in Nat /\ Len(op.eps) \in Nat /\ Len(op.eps) \in Counts
      /\ CallIsOnItsWay /\ Written(op.pos)
  BY <1>1, CallNumbers DEF CallIsKnown, CallIsOnItsWay
<1>4. PICK key \in Keys : key = op.key /\ serviceMap[key] # None /\ serviceMap[key].id = op.id
  BY <1>1, CallNumbers DEF CallIsKnown
<1>5. \A p \in Counts : Entry(key, p)' = IF p = op.pos THEN ep ELSE Entry(key, p)
  <2> HIDE DEF ep
  <2> QED  BY <1>1, <1>4, OwnEntry
<1>6. ASSUME NEW p \in 0 .. (op.pos + 1) - 1 PROVE Entry(key, p)' = op.eps[p + 1]
  <2>1. p \in Counts /\ (p = op.pos \/ p \in 0 .. op.pos - 1)
    BY <1>1, <1>3 DEF Counts
  <2>2. p # op.pos => Entry(key, p) = op.eps[p + 1]
    BY <1>3, <1>4, <2>1 DEF Written
  <2> QED  BY <1>5, <2>1, <2>2
<1>7. Written(op.pos)'
  BY <1>2, <1>4, <1>6 DEF Written, Entry
<1>8. op.pos + 1 <= Len(op.eps)
  BY <1>1, <1>3
<1>9. CallIsOnItsWay'
  BY <1>1, <1>2, <1>3, <1>7, <1>8 DEF CallIsOnItsWay
<1> QED  BY <1>1, <1>2, <1>4, <1>9 DEF CallIsKnown

(* How far a trim or a removal is.                                         *)
LEMMA KnownDeletion ==
  ASSUME TypeOK, CallIsKnown, op # Idle, op.kind \in {"trim", "remove"}
  PROVE  /\ op.pos \in Nat /\ op.end \in Nat /\ op.end \in Counts
         /\ Kept \in Nat /\ Kept <= op.pos /\ op.pos <= op.end
         /\ serviceMap[op.key].count = op.end
         /\ Written(Kept) /\ Deleted(Kept)
<1>1. CallIsOnItsWay /\ op.pos \in Nat /\ op.end \in Nat /\ op.end \in Counts /\ Len(op.eps) \in Nat
  BY CallNumbers DEF CallIsKnown
<1>2. CASE op.kind = "trim"
  BY <1>1, <1>2 DEF CallIsOnItsWay, Kept
<1>3. CASE op.kind = "remove"
  BY <1>1, <1>3 DEF CallIsOnItsWay, Kept, Written
<1> QED  BY <1>2, <1>3

LEMMA KnownDelete ==
  ASSUME TypeOK, CallIsKnown, DeleteEndpoint
  PROVE  CallIsKnown'
<1>1. /\ op # Idle /\ op.kind \in {"trim", "remove"} /\ op.pos < op.end
      /\ serviceMap' = serviceMap
      /\ endpointMap' = [endpointMap EXCEPT ![Family(op.key)][<<op.id, op.pos>>] = None]
      /\ op' = [op EXCEPT !.pos = op.pos + 1]
  BY DEF DeleteEndpoint, DeletionPending, Idle
<1>2. /\ op'.kind = op.kind /\ op'.key = op.key /\ op'.eps = op.eps /\ op'.end = op.end
      /\ op'.pos = op.pos + 1 /\ op'.id = op.id
  BY <1>1, OpRecord
<1>3. /\ op.pos \in Nat /\ op.end \in Nat /\ op.end \in Counts
      /\ Kept \in Nat /\ Kept <= op.pos
      /\ serviceMap[op.key].count = op.end
      /\ Written(Kept) /\ Deleted(Kept)
  BY <1>1, KnownDeletion
<1>4. PICK key \in Keys : key = op.key /\ serviceMap[key] # None /\ serviceMap[key].id = op.id
  BY <1>1, CallNumbers DEF CallIsKnown
<1>5. \A p \in Counts : Entry(key, p)' = IF p = op.pos THEN None ELSE Entry(key, p)
  BY <1>1, <1>4, OwnEntry
<1>6. ASSUME NEW p \in 0 .. Kept - 1 PROVE Entry(key, p)' = op.eps[p + 1]
  <2>1. p \in Counts /\ p # op.pos
    BY <1>1, <1>3 DEF Counts
  <2>2. Entry(key, p) = op.eps[p + 1]
    BY <1>3, <1>4 DEF Written
  <2> QED  BY <1>5, <2>1, <2>2
<1>7. ASSUME NEW p \in Kept .. (op.pos + 1) - 1 PROVE Entry(key, p)' = None
  <2>1. p \in Counts /\ (p = op.pos \/ p \in Kept .. op.pos - 1)
    BY <1>1, <1>3 DEF Counts
  <2>2. p # op.pos => Entry(key, p) = None
    BY <1>3, <1>4, <2>1 DEF Deleted
  <2> QED  BY <1>5, <2>1, <2>2
<1>8. op.pos + 1 <= op.end /\ Kept <= op.pos + 1
  BY <1>1, <1>3
<1>9. CallIsOnItsWay'
  <2>1. CASE op.kind = "trim"
    <3>1. Kept = Len(op.eps)
      BY <2>1 DEF Kept
    <3>2. Written(Len(op.eps))' /\ Deleted(Len(op.eps))'
      BY <1>2, <1>4, <1>6, <1>7, <3>1 DEF Written, Deleted, Entry
    <3> QED  BY <1>1, <1>2, <1>3, <1>8, <2>1, <3>1, <3>2 DEF CallIsOnItsWay
  <2>2. CASE op.kind = "remove"
    <3>1. Kept = 0
      BY <2>2 DEF Kept
    <3>2. Deleted(0)'
      BY <1>2, <1>4, <1>7, <3>1 DEF Deleted, Entry
    <3> QED  BY <1>1, <1>2, <1>3, <1>8, <2>2, <3>2 DEF CallIsOnItsWay
  <2> QED  BY <1>1, <2>1, <2>2
<1> QED  BY <1>1, <1>2, <1>4, <1>9 DEF CallIsKnown

LEMMA KnownFinishOverwrite ==
  ASSUME TypeOK, CallIsKnown, FinishOverwrite
  PROVE  CallIsKnown'
<1>1. /\ op # Idle /\ op.kind = "overwrite" /\ op.pos = Len(op.eps)
      /\ serviceMap' = serviceMap /\ endpointMap' = endpointMap
      /\ op' = Idle \/ (op.end > Len(op.eps) /\ op' = [op EXCEPT !.kind = "trim"])
  BY DEF FinishOverwrite, Idle, kernelVars
<1>2. CallIsOnItsWay /\ Written(op.pos) /\ op.pos \in Nat /\ op.end \in Nat
  BY <1>1, CallNumbers DEF CallIsKnown, CallIsOnItsWay
<1>3. CASE op' = [op EXCEPT !.kind = "trim"] /\ op.end > Len(op.eps)
  <2>1. /\ op'.kind = "trim" /\ op'.key = op.key /\ op'.eps = op.eps /\ op'.end = op.end
        /\ op'.pos = op.pos /\ op'.id = op.id
    BY <1>1, <1>3, OpRecord
  <2>2. Written(Len(op.eps))' /\ Deleted(Len(op.eps))'
    BY <1>1, <1>2, <2>1 DEF Written, Deleted, Entry
  <2>3. CallIsOnItsWay'
    BY <1>1, <1>2, <1>3, <2>1, <2>2 DEF CallIsOnItsWay
  <2> QED  BY <1>1, <2>1, <2>3 DEF CallIsKnown
<1> QED  BY <1>1, <1>3 DEF CallIsKnown

LEMMA KnownInit == Init => CallIsKnown
  BY DEF Init, CallIsKnown

LEMMA KnownStep == TypeOK /\ CacheMatchesMap /\ CallIsKnown /\ [Next]_vars => CallIsKnown'
<1> SUFFICES ASSUME TypeOK, CacheMatchesMap, CallIsKnown, [Next]_vars PROVE CallIsKnown'
  OBVIOUS
<1>1. ASSUME NEW k \in Keys, NEW eps \in EndpointLists(Pool[k]),
             BeginInsert(k, eps) \/ BeginOverwrite(k, eps)
      PROVE  CallIsKnown'
  BY <1>1, KnownBegin
<1>2. ASSUME NEW k \in Keys, BeginRemove(k) PROVE CallIsKnown'
  BY <1>2, KnownBegin, EmptyList
<1>3. CASE WriteEndpoint
  BY <1>3, KnownWrite
<1>4. CASE DeleteEndpoint
  BY <1>4, KnownDelete
<1>5. CASE FinishOverwrite
  BY <1>5, KnownFinishOverwrite
<1>6. CASE FinishInsert \/ DeleteAbsent \/ FinishTrim \/ FinishRemove \/ UpdateFails \/ Restart
  <2>1. op' = Idle
    BY <1>6 DEF FinishInsert, DeleteAbsent, FinishTrim, FinishRemove, UpdateFails, Restart
  <2> QED  BY <2>1 DEF CallIsKnown
<1>7. CASE UNCHANGED <<serviceMap, endpointMap, op>>
  BY <1>7 DEF CallIsKnown, CallIsOnItsWay, Written, Deleted, Entry
<1>8. CASE DataPlane \/ UNCHANGED vars
  BY <1>7, <1>8 DEF DataPlane, LookupEndpoint, Redirect, LookupService, vars, kernelVars
<1> QED
  BY <1>1, <1>2, <1>3, <1>4, <1>5, <1>6, <1>8 DEF Next, AgentCall, AgentStep

(* What a reader finds where an update ends.                               *)
LEMMA UpdateIsExact ==
  ASSUME TypeOK, CallIsKnown, UpdateSucceeds, NEW k \in Keys, op.key = k
  PROVE  StateFromMap(k)' = Promised!Clip(op.eps, serviceMap'[k].count)
<1> DEFINE n == serviceMap[k].count
           c == IF Len(op.eps) < n THEN Len(op.eps) ELSE n
<1>1. /\ op # Idle /\ op.kind \in {"insert", "overwrite", "trim"} /\ op' = Idle
      /\ serviceMap' = serviceMap /\ endpointMap' = endpointMap
      /\ op.kind \in {"insert", "overwrite"} => op.pos = Len(op.eps)
      /\ op.kind = "trim" => op.pos = op.end
  BY DEF UpdateSucceeds, FinishInsert, FinishOverwrite, FinishTrim, Idle, kernelVars
<1>2. /\ serviceMap[k] # None /\ CallIsOnItsWay
      /\ n \in Nat /\ n \in Counts /\ Len(op.eps) \in Nat /\ op.pos \in Nat /\ op.end \in Nat
  BY <1>1, EntryFacts, CallNumbers DEF CallIsKnown
<1>3. op.kind = "overwrite" => op.end <= Len(op.eps)
  <2> SUFFICES ASSUME op.kind = "overwrite", ~(op.end <= Len(op.eps)) PROVE FALSE
    OBVIOUS
  <2>1. FinishOverwrite /\ op.end > Len(op.eps)
    BY <1>1, <1>2 DEF UpdateSucceeds, FinishInsert, FinishTrim
  <2>2. op' = [op EXCEPT !.kind = "trim"] /\ op' = Idle
    BY <1>1, <2>1 DEF FinishOverwrite
  <2>3. op'.kind = "trim" /\ op'.kind = "idle"
    BY <1>1, <2>2, OpRecord DEF Idle
  <2> QED  BY <2>3
<1>4. Written(c) /\ \A p \in c .. n - 1 : Entry(k, p) = None
  <2>1. CASE op.kind \in {"insert", "overwrite"}
    <3>1. n <= Len(op.eps) /\ Written(Len(op.eps))
      <4>1. n = (IF op.kind = "insert" THEN Len(op.eps) ELSE op.end) /\ Written(Len(op.eps))
        BY <1>1, <1>2, <2>1 DEF CallIsOnItsWay
      <4> HIDE DEF n
      <4> QED  BY <1>2, <1>3, <2>1, <4>1
    <3>2. c = n /\ \A p \in 0 .. n - 1 : p \in 0 .. Len(op.eps) - 1
      <4> HIDE DEF n
      <4> QED  BY <1>2, <3>1
    <3>3. Written(n) /\ \A p \in n .. n - 1 : FALSE
      <4>1. Written(n)
        BY <3>1, <3>2 DEF Written
      <4> HIDE DEF n
      <4> QED  BY <1>2, <4>1
    <3> HIDE DEF n, c
    <3> QED  BY <3>2, <3>3
  <2>2. CASE op.kind = "trim"
    <3>1. /\ n = op.end /\ Len(op.eps) <= op.end
          /\ Written(Len(op.eps)) /\ \A p \in Len(op.eps) .. op.end - 1 : Entry(k, p) = None
      BY <1>1, <1>2, <2>2 DEF CallIsOnItsWay, Deleted
    <3>2. c = Len(op.eps)
      <4> HIDE DEF n
      <4> QED  BY <1>2, <3>1
    <3> HIDE DEF n, c
    <3> QED  BY <3>1, <3>2
  <2> QED  BY <1>1, <2>1, <2>2
<1>5. c \in 0 .. n /\ c <= Len(op.eps) /\ c \in Nat
  <2> HIDE DEF n
  <2> QED  BY <1>2
<1>6. ASSUME NEW p \in 0 .. c - 1 PROVE Entry(k, p) = op.eps[p + 1] /\ Entry(k, p) # None
  <2>1. p + 1 \in 1 .. Len(op.eps)
    <3> HIDE DEF c
    <3> QED  BY <1>2, <1>5
  <2>2. Entry(k, p) = op.eps[p + 1]
    BY <1>4 DEF Written
  <2> QED  BY <1>1, <2>1, <2>2, CallNumbers
<1>7. ASSUME NEW p \in 0 .. n - 1 PROVE Entry(k, p) # None <=> p < c
  <2>1. p \in Nat /\ (p < c => p \in 0 .. c - 1) /\ (~(p < c) => p \in c .. n - 1)
    <3> HIDE DEF n, c
    <3> QED  BY <1>2, <1>5
  <2> HIDE DEF n, c
  <2> QED  BY <1>4, <1>6, <2>1
<1>8. StateFromMap(k) = SubSeq(op.eps, 1, c)
  <2> HIDE DEF c
  <2> QED  BY <1>1, <1>2, <1>5, <1>6, <1>7, ListIsWritten
<1>9. StateFromMap(k)' = StateFromMap(k)
  BY <1>1 DEF StateFromMap, Entries, Entry
<1> QED  BY <1>1, <1>8, <1>9 DEF Promised!Clip

LEMMA RemovalIsExact ==
  ASSUME TypeOK, CallIsKnown, FinishRemove, NEW k \in Keys, op.key = k
  PROVE  /\ serviceMap'[k] = None
         /\ \A pos \in 0 .. serviceMap[k].count - 1 : Entry(k, pos) = None
<1>1. op # Idle /\ op.kind = "remove" /\ op.pos = op.end /\ serviceMap[k] # None
  BY DEF FinishRemove, Idle, CallIsKnown
<1>2. serviceMap'[k] = None
  BY <1>1 DEF FinishRemove, TypeOK
<1>3. Kept = 0 /\ Deleted(0) /\ serviceMap[k].count = op.end
  BY <1>1, KnownDeletion DEF Kept
<1> QED  BY <1>1, <1>2, <1>3 DEF Deleted

(* After any accidents, however many services share an id: where update    *)
(* returns success a reader finds its list, up to the recorded count, and  *)
(* where remove does the key is gone with its endpoints                    *)
(* (state.rs:84-173).                                                      *)
THEOREM SuccessIsAlwaysExact == Spec => SuccessIsExact
<1> DEFINE Exact ==
      \A k \in Keys : op.key = k =>
        /\ UpdateSucceeds => StateFromMap(k)' = Promised!Clip(op.eps, serviceMap'[k].count)
        /\ FinishRemove   => /\ serviceMap'[k] = None
                             /\ \A pos \in 0 .. serviceMap[k].count - 1 : Entry(k, pos) = None
<1>1. TypeOK /\ CallIsKnown => Exact
  BY UpdateIsExact, RemovalIsExact
<1>2. Spec => [][Exact]_vars
  <2> HIDE DEF Exact
  <2> QED  BY <1>1, KnownInit, KnownStep, TypeCorrect, CacheCorrect, PTL DEF Spec
<1> QED  BY <1>2 DEF SuccessIsExact
=============================================================================
