----------------------------- MODULE PolicyMap -----------------------------
(***************************************************************************)
(* The policy map of the agent (mesh-cni/src/bpf/policy/state.rs): a       *)
(* pinned BPF map with a cache before it.  Unlike the caches of the other  *)
(* maps it is filled from the map when the agent starts.  The calls are    *)
(* those of PolicyControllerBpf, each under the lock.                      *)
(***************************************************************************)
EXTENDS Naturals, FiniteSets

CONSTANTS
  PolicyKeys, PolicyValues,
  MaxEntries,            \* 65535 in the code
  MaxMapFailures,           \* bound: failing calls, restarts and reboots
  NoPolicy

ASSUME NoPolicyIsNoValue == NoPolicy \notin PolicyValues
ASSUME MapBoundsAreNumbers == MaxEntries \in Nat /\ MaxMapFailures \in Nat

VARIABLES
  policyMap,  \* pinned: outlives the agent
  cache,
  up,         \* the agent has built its cache
  mapFailures

mapVars == <<policyMap, cache, up, mapFailures>>

Tables == [PolicyKeys -> PolicyValues \union {NoPolicy}]
Empty  == [k \in PolicyKeys |-> NoPolicy]

MapInit ==
  /\ policyMap = Empty
  /\ cache = Empty
  /\ up = FALSE
  /\ mapFailures = 0

-----------------------------------------------------------------------------
(* try_new: every entry of the map; an entry that cannot be read ends the  *)
(* agent.                                                                  *)
BuildEmptyCache ==  \* Faulty: as the other maps do.
  /\ ~up
  /\ up' = TRUE /\ cache' = Empty
  /\ UNCHANGED <<policyMap, mapFailures>>

BuildCache ==
  /\ ~up
  /\ up' = TRUE /\ cache' = policyMap
  /\ UNCHANGED <<policyMap, mapFailures>>

Fails ==
  /\ mapFailures < MaxMapFailures
  /\ mapFailures' = mapFailures + 1

(* The agent dies, of that or of anything else; a reboot of the node takes *)
(* the map too.                                                            *)
Die ==
  /\ Fails
  /\ up' = FALSE /\ cache' = Empty
  /\ policyMap' \in {policyMap, Empty}

HasRoom(k) ==
  policyMap[k] # NoPolicy \/ Cardinality({l \in PolicyKeys : policyMap[l] # NoPolicy}) < MaxEntries

(* update: nothing to do when the cache has the value.  Otherwise the call *)
(* fails in a full map, or for another reason, and then changes nothing.   *)
Update(k, v) ==
  /\ up /\ cache[k] # v /\ HasRoom(k)
  /\ policyMap' = [policyMap EXCEPT ![k] = v]
  /\ cache' = [cache EXCEPT ![k] = v]
  /\ UNCHANGED <<up, mapFailures>>

(* delete: always asks the map; for a key that is not there that fails.    *)
Delete(k) ==
  /\ up /\ policyMap[k] # NoPolicy
  /\ policyMap' = [policyMap EXCEPT ![k] = NoPolicy]
  /\ cache' = [cache EXCEPT ![k] = NoPolicy]
  /\ UNCHANGED <<up, mapFailures>>

CallFails == up /\ Fails /\ UNCHANGED <<policyMap, cache, up>>

MapNext ==
  \/ BuildCache \/ Die \/ CallFails
  \/ \E k \in PolicyKeys : Delete(k) \/ \E v \in PolicyValues : Update(k, v)

MapSpec == MapInit /\ [][MapNext]_mapVars

-----------------------------------------------------------------------------
MapTypeOK ==
  /\ policyMap \in Tables /\ cache \in Tables
  /\ up \in BOOLEAN
  /\ mapFailures \in 0 .. MaxMapFailures

(***************************************************************************)
(* The agent and the kernel agree on the policies, whatever failed and     *)
(* however often the agent died: update skips a write by the cache, and    *)
(* the listing shows the cache (grpc/policy.rs:45), so neither may be off. *)
(***************************************************************************)
CacheIsMap == up => cache = policyMap

PolicyInv == MapTypeOK /\ CacheIsMap
=============================================================================
