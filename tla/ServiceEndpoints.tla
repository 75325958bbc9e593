-------------------------- MODULE ServiceEndpoints --------------------------
(***************************************************************************)
(* The service tables of the agent and the data plane that reads them.     *)
(*                                                                         *)
(* The agent (mesh-cni/src/bpf/service/state.rs) keeps, for each address   *)
(* family, a service map  key -> (id, count)  and an endpoint map          *)
(* (id, position) -> endpoint.  Both are pinned BPF maps that outlive the  *)
(* agent; beside each the agent holds a cache in memory, and one counter   *)
(* hands out the ids of both families.  A call of update or remove holds   *)
(* one mutex and issues one BPF system call per entry it touches, so the   *)
(* mutex hides half-done calls from other callers of the agent but not     *)
(* from the data plane: the connect4 program                               *)
(* (mesh-cni-service-ebpf/src/service.rs) reads the service map, then the  *)
(* endpoint map, then the element it found there, with no lock.            *)
(*                                                                         *)
(* One action is one BPF system call together with the cache update that   *)
(* follows it; no other actor can see between the two.                     *)
(***************************************************************************)
EXTENDS Naturals, Sequences

CONSTANTS
  KeysV4, KeysV6,   \* service keys (ip, port, protocol) of each family
  Endpoints,        \* endpoint values
  Pool,             \* the endpoints the cluster ever gives each service
  Conns,            \* sockets on which connect(2) may run
  None,             \* absence of a value
  FirstId,          \* 128 in the code
  IdLimit,          \* Id is u16: 65536 in the code
  MaxCount,         \* u16::MAX endpoints at most
  Accidents         \* the kinds of accident that may happen, any number of times

Keys         == KeysV4 \union KeysV6
Families     == {"v4", "v6"}
Ids          == 0 .. IdLimit - 1
Counts       == 0 .. MaxCount
EndpointKeys == Ids \X Counts
ServiceValue == [id : Ids, count : Counts]

(* The argument of update: any list of the service's endpoints, in any     *)
(* order.  Its callers group endpoints by key and so by family             *)
(* (generate_bpf_service_endpoints); the filter by family drops none.      *)
EndpointLists(S) == UNION {[1 .. n -> S] : n \in Counts}

(* A connection after the first lookup; after the second also the element  *)
(* it refers to: the endpoints whose ip and port may be read from it, and  *)
(* whether its entry was deleted or overwritten since.                     *)
PendingLookup ==
  [key : KeysV4, id : Ids, pos : Counts, values : SUBSET Endpoints, freed : BOOLEAN]

ASSUME FamiliesDisjoint == KeysV4 \intersect KeysV6 = {}
ASSUME NoneIsNoValue == None \notin ServiceValue \union Endpoints \union PendingLookup
ASSUME PoolsOfEndpoints == Pool \in [Keys -> SUBSET Endpoints]
ASSUME IdsBounded == IdLimit \in Nat /\ FirstId \in Ids
ASSUME CountsBounded == MaxCount \in Nat
ASSUME AccidentKinds == Accidents \subseteq {"update_fails", "restart"}

VARIABLES
  serviceMap,       \* pinned BPF maps services_v4, services_v6
  endpointMap,      \* pinned BPF maps endpoints_v4, endpoints_v6
  serviceCache,     \* the agent's copies, lost when it dies
  endpointCache,
  nextId,           \* State::id
  op,               \* the call that holds the mutex
  pending,          \* connect4 between its lookups and reads
  lapses            \* history: accidents that may break the uniqueness of ids

kernelVars == <<serviceMap, endpointMap>>
agentVars  == <<serviceCache, endpointCache, nextId>>
vars == <<kernelVars, agentVars, op, pending, lapses>>

Family(k) == IF k \in KeysV4 THEN "v4" ELSE "v6"

Idle == [kind |-> "idle", key |-> None, id |-> 0, eps |-> <<>>, pos |-> 0, end |-> 0]

OpKinds == {"insert", "overwrite", "trim", "remove"}

OpType == {Idle} \union
  [kind : OpKinds, key : Keys, id : Ids, eps : EndpointLists(Endpoints), pos : Counts, end : Counts]

Holds(c) == pending[c] # None /\ pending[c].values # {}

(***************************************************************************)
(* A system call puts `written' into an entry of the endpoint map, or      *)
(* deletes it ({}).  The kernel gives an overwritten entry a new element   *)
(* and hands out the elements it freed at once, for any key, although a    *)
(* program may still refer to them: an element that was free may be the    *)
(* one written to, and what the call puts there be read from it.           *)
(***************************************************************************)
ElementsAfter(f, entry, written) ==
  [c \in Conns |->
     IF f = "v4" /\ Holds(c)
       THEN [pending[c] EXCEPT !.freed = @ \/ entry = <<pending[c].id, pending[c].pos>>,
                               !.values = IF pending[c].freed THEN @ \union written ELSE @]
       ELSE pending[c]]

-----------------------------------------------------------------------------
(* ServiceEndpointState::new over freshly created maps.                    *)
Init ==
  /\ serviceMap    = [k \in Keys |-> None]
  /\ endpointMap   = [f \in Families |-> [e \in EndpointKeys |-> None]]
  /\ serviceCache  = [k \in Keys |-> None]
  /\ endpointCache = [f \in Families |-> [e \in EndpointKeys |-> None]]
  /\ nextId = FirstId
  /\ op = Idle
  /\ pending = [c \in Conns |-> None]
  /\ lapses = {}

(***************************************************************************)
(* ServiceEndpointState::update.  A key that is not cached is published    *)
(* under the next id (insert_new_service); the service entry is visible to *)
(* the data plane before any of its endpoints is.                          *)
(***************************************************************************)
BeginInsert(k, eps) ==
  /\ op = Idle
  /\ serviceCache[k] = None
  /\ LET value == [id |-> nextId, count |-> Len(eps)] IN
       /\ serviceMap'   = [serviceMap EXCEPT ![k] = value]
       /\ serviceCache' = [serviceCache EXCEPT ![k] = value]
  /\ op' = [kind |-> "insert", key |-> k, id |-> nextId, eps |-> eps, pos |-> 0, end |-> 0]
  /\ UNCHANGED <<endpointMap, endpointCache, nextId, pending, lapses>>

(* Faulty variants of an action stand before it; only the project's        *)
(* mutation checks use them.  Here: the id parameter of update is not      *)
(* shadowed by the id of the cached service.                               *)
BeginOverwriteUnderNextId(k, eps) ==
  /\ op = Idle
  /\ serviceCache[k] # None
  /\ op' = [kind |-> "overwrite", key |-> k, id |-> nextId, eps |-> eps,
            pos |-> 0, end |-> serviceCache[k].count]
  /\ UNCHANGED <<kernelVars, agentVars, pending, lapses>>

(* Faulty: the old count is taken for the last position.                   *)
BeginOverwriteInclusive(k, eps) ==
  /\ op = Idle
  /\ serviceCache[k] # None
  /\ op' = [kind |-> "overwrite", key |-> k, id |-> serviceCache[k].id, eps |-> eps,
            pos |-> 0, end |-> serviceCache[k].count + 1]
  /\ UNCHANGED <<kernelVars, agentVars, pending, lapses>>

(***************************************************************************)
(* A cached key keeps its id and, in both the map and the cache, the count *)
(* it was published with: update writes the new count nowhere.  old_count  *)
(* is kept in op.end.                                                      *)
(***************************************************************************)
BeginOverwrite(k, eps) ==
  /\ op = Idle
  /\ serviceCache[k] # None
  /\ op' = [kind |-> "overwrite", key |-> k, id |-> serviceCache[k].id, eps |-> eps,
            pos |-> 0, end |-> serviceCache[k].count]
  /\ UNCHANGED <<kernelVars, agentVars, pending, lapses>>

(* One round of the loop of insert_new_service or insert_endpoints.        *)
WriteEndpoint ==
  /\ op.kind \in {"insert", "overwrite"}
  /\ op.pos < Len(op.eps)
  /\ LET f == Family(op.key)
         entry == <<op.id, op.pos>>
         ep == op.eps[op.pos + 1]
     IN  /\ endpointMap'   = [endpointMap EXCEPT ![f][entry] = ep]
         /\ endpointCache' = [endpointCache EXCEPT ![f][entry] = ep]
         /\ pending' = ElementsAfter(f, entry, {ep})
  /\ op' = [op EXCEPT !.pos = @ + 1]
  /\ UNCHANGED <<serviceMap, serviceCache, nextId, lapses>>

(* Faulty: arithmetic wider than u16.                                      *)
WrappedTooWide(id) == id + 1

(* Faulty: off by one, so that the counter never moves.                    *)
BumpedIdOffByOne(newId) == IF newId > nextId + 1 THEN nextId + 1 ELSE nextId

(***************************************************************************)
(* insert_new_service returns id + 1 in u16 arithmetic (the release build  *)
(* wraps), and the caller moves the counter only if the result grew.       *)
(***************************************************************************)
Wrapped(id) == (id + 1) % IdLimit

BumpedId(newId) == IF newId > nextId THEN nextId + 1 ELSE nextId

FinishInsert ==
  /\ op.kind = "insert"
  /\ op.pos = Len(op.eps)
  /\ nextId' = BumpedId(Wrapped(op.id))
  /\ op' = Idle
  /\ UNCHANGED <<kernelVars, serviceCache, endpointCache, pending, lapses>>

(* Faulty: positions beyond a shorter list are left in place.              *)
FinishOverwriteWithoutTrim ==
  /\ op.kind = "overwrite"
  /\ op.pos = Len(op.eps)
  /\ op' = Idle
  /\ nextId' = BumpedId(op.id)
  /\ UNCHANGED <<kernelVars, serviceCache, endpointCache, pending, lapses>>

(* The end of insert_endpoints: positions beyond the new list are deleted  *)
(* when the recorded count is larger, otherwise update returns the id.     *)
FinishOverwrite ==
  /\ op.kind = "overwrite"
  /\ op.pos = Len(op.eps)
  /\ IF op.end > Len(op.eps)
       THEN op' = [op EXCEPT !.kind = "trim"] /\ UNCHANGED nextId
       ELSE op' = Idle /\ nextId' = BumpedId(op.id)
  /\ UNCHANGED <<kernelVars, serviceCache, endpointCache, pending, lapses>>

(***************************************************************************)
(* ServiceEndpointState::remove of a cached key (of any other it returns   *)
(* at once): delete positions 0 .. count - 1, then the service entry.      *)
(***************************************************************************)
BeginRemove(k) ==
  /\ op = Idle
  /\ serviceCache[k] # None
  /\ op' = [kind |-> "remove", key |-> k, id |-> serviceCache[k].id, eps |-> <<>>,
            pos |-> 0, end |-> serviceCache[k].count]
  /\ UNCHANGED <<kernelVars, agentVars, pending, lapses>>

DeletionPending == op.kind \in {"trim", "remove"} /\ op.pos < op.end

CurrentEntry == endpointMap[Family(op.key)][<<op.id, op.pos>>]

(* Faulty: the cached endpoint is forgotten about.                         *)
DeleteEndpointFromMapOnly ==
  /\ DeletionPending
  /\ CurrentEntry # None
  /\ endpointMap' = [endpointMap EXCEPT ![Family(op.key)][<<op.id, op.pos>>] = None]
  /\ pending' = ElementsAfter(Family(op.key), <<op.id, op.pos>>, {})
  /\ op' = [op EXCEPT !.pos = @ + 1]
  /\ UNCHANGED <<serviceMap, serviceCache, endpointCache, nextId, lapses>>

(* One round of the loop of delete_endpoints.                              *)
DeleteEndpoint ==
  /\ DeletionPending
  /\ CurrentEntry # None
  /\ LET f == Family(op.key)
         entry == <<op.id, op.pos>>
     IN  /\ endpointMap'   = [endpointMap EXCEPT ![f][entry] = None]
         /\ endpointCache' = [endpointCache EXCEPT ![f][entry] = None]
         /\ pending' = ElementsAfter(f, entry, {})
  /\ op' = [op EXCEPT !.pos = @ + 1]
  /\ UNCHANGED <<serviceMap, serviceCache, nextId, lapses>>

(* Deleting an absent key from a BPF map fails (ENOENT), and `?' abandons  *)
(* the call there.                                                         *)
DeleteAbsent ==
  /\ DeletionPending
  /\ CurrentEntry = None
  /\ op' = Idle
  /\ UNCHANGED <<kernelVars, agentVars, pending, lapses>>

FinishTrim ==
  /\ op.kind = "trim"
  /\ op.pos = op.end
  /\ op' = Idle
  /\ nextId' = BumpedId(op.id)
  /\ UNCHANGED <<kernelVars, serviceCache, endpointCache, pending, lapses>>

(* Faulty: the service stays in the map.                                   *)
FinishRemoveFromCacheOnly ==
  /\ op.kind = "remove"
  /\ op.pos = op.end
  /\ op' = Idle
  /\ serviceCache' = [serviceCache EXCEPT ![op.key] = None]
  /\ UNCHANGED <<serviceMap, endpointMap, endpointCache, nextId, pending, lapses>>

(* service_map.delete, then service_cache.remove; as above, an entry that  *)
(* is not in the map ends the call with an error.                          *)
FinishRemove ==
  /\ op.kind = "remove"
  /\ op.pos = op.end
  /\ op' = Idle
  /\ IF serviceMap[op.key] # None
       THEN /\ serviceMap'   = [serviceMap EXCEPT ![op.key] = None]
            /\ serviceCache' = [serviceCache EXCEPT ![op.key] = None]
       ELSE UNCHANGED <<serviceMap, serviceCache>>
  /\ UNCHANGED <<endpointMap, endpointCache, nextId, pending, lapses>>

(***************************************************************************)
(* A map update fails when the map is full (65535 entries) or the kernel   *)
(* has no memory; `?' abandons the call, and what it did so far stays.     *)
(* (A failure of the first system call of an insert changes nothing.)      *)
(***************************************************************************)
UpdateFails ==
  /\ "update_fails" \in Accidents
  /\ op.kind \in {"insert", "overwrite"}
  /\ op.pos < Len(op.eps)
  /\ op' = Idle
  /\ lapses' = IF op.kind = "insert" THEN lapses \union {"insert_abandoned"} ELSE lapses
  /\ UNCHANGED <<kernelVars, agentVars, pending>>

(***************************************************************************)
(* The agent dies and starts again over the pinned maps: the caches are    *)
(* empty and the counter is back at FirstId (ServiceEndpoint::new, whose   *)
(* comment asks whether to rebuild them from the maps).                    *)
(***************************************************************************)
Restart ==
  /\ "restart" \in Accidents
  /\ serviceCache'  = [k \in Keys |-> None]
  /\ endpointCache' = [f \in Families |-> [e \in EndpointKeys |-> None]]
  /\ nextId' = FirstId
  /\ op' = Idle
  /\ lapses' = lapses \union {"restarted"}
  /\ UNCHANGED <<kernelVars, pending>>

-----------------------------------------------------------------------------
(***************************************************************************)
(* try_mesh_cni_cgroup_connect4.  A key without a service is let through   *)
(* unchanged and one whose count is 0 is denied, at once and with no       *)
(* effect; otherwise the position is random below the count just read.     *)
(* The id and the count are copied as soon as they are found.              *)
(***************************************************************************)
LookupService(c, k) ==
  /\ pending[c] = None
  /\ serviceMap[k] # None
  /\ \E position \in 0 .. serviceMap[k].count - 1 :
       pending' = [pending EXCEPT ![c] = [key |-> k, id |-> serviceMap[k].id, pos |-> position,
                                          values |-> {}, freed |-> FALSE]]
  /\ UNCHANGED <<kernelVars, agentVars, op, lapses>>

Found(c) == endpointMap["v4"][<<pending[c].id, pending[c].pos>>]

(* The second lookup copies nothing: it returns a reference to the element *)
(* of the entry.  Without one the connection is let through unchanged.     *)
LookupEndpoint(c) ==
  /\ pending[c] # None /\ ~Holds(c)
  /\ pending' = [pending EXCEPT ![c] = IF Found(c) = None THEN None
                                       ELSE [@ EXCEPT !.values = {Found(c)}]]
  /\ UNCHANGED <<kernelVars, agentVars, op, lapses>>

(* Only now are the ip and the port read, by two loads that others' writes *)
(* can come before, between and half-way through: the pairs they may give. *)
Targets(c) == pending[c].values \X pending[c].values

(* user_ip4 and user_port become one of these; the socket goes its way.    *)
Redirect(c) ==
  /\ Holds(c)
  /\ pending' = [pending EXCEPT ![c] = None]
  /\ UNCHANGED <<kernelVars, agentVars, op, lapses>>

-----------------------------------------------------------------------------
AgentCall ==
  \E k \in Keys :
    \/ \E eps \in EndpointLists(Pool[k]) : BeginInsert(k, eps) \/ BeginOverwrite(k, eps)
    \/ BeginRemove(k)

AgentStep ==
  \/ WriteEndpoint
  \/ FinishInsert
  \/ FinishOverwrite
  \/ DeleteEndpoint
  \/ DeleteAbsent
  \/ FinishTrim
  \/ FinishRemove

DataPlane ==
  \E c \in Conns :
    LookupEndpoint(c) \/ Redirect(c) \/ \E k \in KeysV4 : LookupService(c, k)

Next == AgentCall \/ AgentStep \/ UpdateFails \/ Restart \/ DataPlane

Spec == Init /\ [][Next]_vars

(* A call runs to its end without waiting for anyone: it never awaits, and *)
(* a BPF program always finishes.  Nobody is obliged to make calls.        *)
Fairness ==
  /\ WF_vars(AgentStep)
  /\ \A c \in Conns : WF_vars(LookupEndpoint(c) \/ Redirect(c))

FairSpec == Spec /\ Fairness

-----------------------------------------------------------------------------
TypeOK ==
  /\ serviceMap \in [Keys -> ServiceValue \union {None}]
  /\ endpointMap \in [Families -> [EndpointKeys -> Endpoints \union {None}]]
  /\ serviceCache \in [Keys -> ServiceValue \union {None}]
  /\ endpointCache \in [Families -> [EndpointKeys -> Endpoints \union {None}]]
  /\ nextId \in Ids
  /\ op \in OpType
  /\ pending \in [Conns -> PendingLookup \union {None}]
  /\ lapses \subseteq {"insert_abandoned", "restarted"}

(***************************************************************************)
(* What the agent remembers is in the kernel: a cached service or endpoint *)
(* is in the map with the same value, whatever failed on the way and       *)
(* although after a restart two services may share an id; and until it is  *)
(* restarted the agent remembers all of it.  remove and update plan their  *)
(* deletions from the cache (state.rs:84-120), so they rely on both.       *)
(***************************************************************************)
CacheMatchesMap ==
  /\ \A k \in Keys : serviceCache[k] # None => serviceMap[k] = serviceCache[k]
  /\ \A f \in Families, e \in EndpointKeys :
       endpointCache[f][e] # None => endpointMap[f][e] = endpointCache[f][e]
  /\ "restarted" \notin lapses => serviceMap = serviceCache /\ endpointMap = endpointCache

(* Ids were handed out with no accident so far: no insert was abandoned    *)
(* half-way (its id is handed out again), the agent was not restarted (ids *)
(* start over), and the counter has not reached the last id (where it      *)
(* sticks).                                                                *)
IdsIntact == lapses = {} /\ nextId < IdLimit - 1

(***************************************************************************)
(* As long as IdsIntact, no two services in the maps, of either family,    *)
(* share an id (state.rs:130-148, 292-297).                                *)
(***************************************************************************)
Unshared ==
  \A k1, k2 \in Keys :
    serviceMap[k1] # None /\ serviceMap[k2] # None /\ serviceMap[k1].id = serviceMap[k2].id
      => k1 = k2

DistinctIds == IdsIntact => Unshared

(***************************************************************************)
(* As long as IdsIntact, connect4 finds only endpoints of the service the  *)
(* connection was made to, although since the first lookup that service    *)
(* may have been removed and others published; and the ip and the port it  *)
(* sends the connection to are those of one of them, unless the agent has  *)
(* deleted or overwritten that very entry since it was found (service.rs:  *)
(* 52-78).                                                                 *)
(***************************************************************************)
OwnEndpoint(c) == \E e \in Pool[pending[c].key] : Targets(c) = {<<e, e>>}

TargetsOwn ==
  \A c \in Conns :
    /\ Holds(c) => pending[c].freed \/ OwnEndpoint(c)
    /\ pending[c] # None /\ ~Holds(c) => Found(c) \in Pool[pending[c].key] \union {None}

NoForeignEndpoint == IdsIntact => TargetsOwn

(***************************************************************************)
(* What the comment at service.rs:53-55 wants of these lookups: no junk    *)
(* by deletes and updates that happen concurrently, that is, a connection  *)
(* is sent to one endpoint of its service, whatever else happens.          *)
(***************************************************************************)
NoJunkEndpoint ==
  IdsIntact => \A c \in Conns : Holds(c) => OwnEndpoint(c)

(***************************************************************************)
(* The inductive invariant behind DistinctIds and NoForeignEndpoint.       *)
(***************************************************************************)
Inserting(k) == op.kind = "insert" /\ op.key = k

(* The call in progress works for a published service, under its id; an    *)
(* insert works under the id that is next.                                 *)
OpIsPublished ==
  /\ op # Idle => serviceMap[op.key] # None /\ serviceMap[op.key].id = op.id
  /\ op.kind = "insert" => op.id = nextId
  /\ op.kind \in {"insert", "overwrite"} =>
       \A i \in 1 .. Len(op.eps) : op.eps[i] \in Pool[op.key]

(* Ids in use are below the counter, but for the one being inserted.       *)
UsedId(id) == id < nextId \/ (op.kind = "insert" /\ id = nextId)

UsedIdsOnly ==
  /\ \A k \in Keys : serviceMap[k] # None => serviceMap[k].id < nextId \/ Inserting(k)
  /\ \A c \in Conns : pending[c] # None => UsedId(pending[c].id)
  /\ \A f \in Families, id \in Ids, pos \in Counts :
       endpointMap[f][<<id, pos>>] # None => UsedId(id)

(* The id of a connection belongs to its service or to none any more.      *)
PendingIdIsOwn ==
  \A c \in Conns, k \in Keys :
    pending[c] # None /\ serviceMap[k] # None /\ serviceMap[k].id = pending[c].id
      => k = pending[c].key

OwnEndpointsOnly ==
  \A k \in Keys, pos \in Counts :
    serviceMap[k] # None =>
      endpointMap[Family(k)][<<serviceMap[k].id, pos>>] \in Pool[k] \union {None}

(* The strengthening of DistinctIds and NoForeignEndpoint that one step    *)
(* preserves: ids in use lie below the counter, each belongs to one        *)
(* service, and its entries hold that service's endpoints.                 *)
IdsInv ==
  IdsIntact =>
    /\ serviceMap = serviceCache
    /\ OpIsPublished
    /\ UsedIdsOnly
    /\ PendingIdIsOwn
    /\ OwnEndpointsOnly
    /\ Unshared
    /\ TargetsOwn
=============================================================================
