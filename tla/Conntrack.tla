----------------------------- MODULE Conntrack -----------------------------
(***************************************************************************)
(* Connection tracking: the tc program of every pod's veth                 *)
(* (mesh-cni-policy-ebpf), which runs on all CPUs at once, and the agent's *)
(* cleanup task (mesh-cni/src/bpf/conntrack.rs) over one LRU map.          *)
(*                                                                         *)
(* A flow is a pair of addresses and ports with its protocol; its two keys *)
(* are the two directions.  The client of a TCP flow is its "fwd" side:    *)
(* only that side sends a SYN without an ACK.  Code and kernel compare     *)
(* times only by their difference, so a time is kept as its age: how long  *)
(* ago it was, no further than Old.  Each map call is atomic, a program or *)
(* the task between two calls is not.                                      *)
(***************************************************************************)
EXTENDS Naturals, FiniteSets

CONSTANTS
  TcpFlows, UdpFlows,
  Cpus,
  TcpTimeout, UdpTimeout,
  MaxEntries,   \* size of the map
  Place,        \* the place of each key in the kernel's order of buckets
  MaxLag,       \* bound: how long a program or a pass of the task is at work
  None

Flows == TcpFlows \union UdpFlows
Keys  == Flows \X {"fwd", "rev"}

Timeout(key) == IF key[1] \in TcpFlows THEN TcpTimeout ELSE UdpTimeout
Old  == (IF TcpTimeout > UdpTimeout THEN TcpTimeout ELSE UdpTimeout) + MaxLag + 1
Ages == 0 .. Old

ASSUME FlowsDisjoint == TcpFlows \intersect UdpFlows = {}
ASSUME TimesAreNumbers == {TcpTimeout, UdpTimeout, MaxLag} \subseteq Nat /\ MaxEntries \in Nat \ {0}
ASSUME NoneIsNoAge == None \notin Nat
ASSUME PlacesDiffer ==
  Place \in [Keys -> Nat \ {0}] /\ \A k, l \in Keys : Place[k] = Place[l] => k = l

VARIABLES
  ct,      \* CONNTRACK_V4: age of last_seen_ns of each key, or None
  cpus,    \* the program on each CPU
  pass,    \* cleanup_map
  heard,   \* history: age of the last packet dealt with of each TCP flow
  touched  \* history: keys written since the pass in progress found them expired

vars == <<ct, cpus, pass, heard, touched>>

Tracked == {k \in Keys : ct[k] # None}
Reverse(key) == <<key[1], IF key[2] = "fwd" THEN "rev" ELSE "fwd">>

Idle     == [step |-> "idle", key |-> None, opens |-> FALSE, age |-> 0]
Sleeping == [step |-> "sleeping", age |-> 0, last |-> None, expired |-> {},
             twice |-> {}]

Init ==
  /\ ct = [k \in Keys |-> None]
  /\ cpus = [c \in Cpus |-> Idle]
  /\ pass = Sleeping
  /\ heard = [f \in TcpFlows |-> Old]
  /\ touched = {}

-----------------------------------------------------------------------------
(***************************************************************************)
(* handle_ipv4.  A packet between addresses without identities, or of      *)
(* another protocol, touches nothing and is left out.  A UDP packet may    *)
(* open a flow, and so may a TCP SYN.                                      *)
(***************************************************************************)
MayOpen(key) == IF key[1] \in UdpFlows THEN {TRUE} ELSE {FALSE, key[2] = "fwd"}

Receive(c) ==
  /\ cpus[c].step = "idle"
  /\ \E k \in Keys : \E opens \in MayOpen(k) :
       cpus' = [cpus EXCEPT ![c] = [step |-> "own", key |-> k, opens |-> opens, age |-> 0]]
  /\ UNCHANGED <<ct, pass, heard, touched>>

FindOwn(c) ==
  /\ cpus[c].step = "own"
  /\ cpus' = [cpus EXCEPT ![c].step = IF ct[cpus[c].key] # None THEN "write" ELSE "reverse"]
  /\ UNCHANGED <<ct, pass, heard, touched>>

Done(c) ==
  /\ cpus' = [cpus EXCEPT ![c] = Idle]
  /\ heard' = [f \in TcpFlows |-> IF f = cpus[c].key[1] THEN 0 ELSE heard[f]]

(* Faulty: a packet of the other direction is taken for a new flow.        *)
FindReverseOwnKey(c) ==
  /\ cpus[c].step = "reverse"
  /\ \/ /\ ct[Reverse(cpus[c].key)] # None \/ cpus[c].opens
        /\ cpus' = [cpus EXCEPT ![c].step = "write"]
        /\ UNCHANGED heard
     \/ /\ ct[Reverse(cpus[c].key)] = None /\ ~cpus[c].opens
        /\ Done(c)
  /\ UNCHANGED <<ct, pass, touched>>

(* Faulty: a packet of the other direction does not refresh the entry.     *)
FindReverseOnly(c) ==
  /\ cpus[c].step = "reverse"
  /\ \/ /\ ct[Reverse(cpus[c].key)] = None /\ cpus[c].opens
        /\ cpus' = [cpus EXCEPT ![c].step = "write"]
        /\ UNCHANGED heard
     \/ /\ ct[Reverse(cpus[c].key)] # None \/ ~cpus[c].opens
        /\ Done(c)
  /\ UNCHANGED <<ct, pass, touched>>

FindReverse(c) ==
  /\ cpus[c].step = "reverse"
  /\ \/ /\ ct[Reverse(cpus[c].key)] # None
        /\ cpus' = [cpus EXCEPT ![c].step = "write", ![c].key = Reverse(@)]
        /\ UNCHANGED heard
     \/ /\ ct[Reverse(cpus[c].key)] = None
        /\ cpus[c].opens
        /\ cpus' = [cpus EXCEPT ![c].step = "write"]
        /\ UNCHANGED heard
     \/ /\ ct[Reverse(cpus[c].key)] = None
        /\ ~cpus[c].opens
        /\ Done(c)
  /\ UNCHANGED <<ct, pass, touched>>

(* insert with flags 0: the entry is written whether it is there or not.   *)
(* A full LRU map gives up an entry of the kernel's choice.                *)
Write(c) ==
  /\ cpus[c].step = "write"
  /\ LET k == cpus[c].key
         full == k \notin Tracked /\ Cardinality(Tracked) = MaxEntries IN
       \E victim \in IF full THEN Tracked ELSE {None} :
         ct' = [[x \in Keys |-> IF x = victim THEN None ELSE ct[x]] EXCEPT ![k] = cpus[c].age]
  /\ Done(c)
  /\ touched' = touched \union ({cpus[c].key} \intersect pass.expired)
  /\ UNCHANGED pass

Handle(c) == FindOwn(c) \/ FindReverse(c) \/ Write(c)

-----------------------------------------------------------------------------
(***************************************************************************)
(* cleanup_map: the clock is read once, the map is walked key by key, and  *)
(* then the keys found expired are removed one by one.  The walk asks the  *)
(* kernel for the key after the last one; if that one is gone, the kernel  *)
(* starts again from the first, and keys may be found a second time.       *)
(***************************************************************************)
StartPass ==
  /\ pass.step = "sleeping"
  /\ pass' = [Sleeping EXCEPT !.step = "walk"]
  /\ UNCHANGED <<ct, cpus, heard, touched>>

(* Faulty: an entry seen after the clock was read has a negative age.      *)
ExpiredWrapping(k) == ct[k] < pass.age \/ ct[k] - pass.age > Timeout(k)

(* now.saturating_sub(last_seen_ns) > timeout                              *)
Expired(k) == ct[k] > pass.age /\ ct[k] - pass.age > Timeout(k)

Ahead == {k \in Tracked : pass.last = None \/ Place[k] > Place[pass.last]}

Visit(k) ==
  /\ pass.step = "walk"
  /\ pass.last \in Tracked \union {None}
  /\ k \in Ahead /\ \A l \in Ahead : Place[k] <= Place[l]
  /\ pass' = [pass EXCEPT
       !.last = k,
       !.expired = IF Expired(k) THEN @ \union {k} ELSE @,
       !.twice = IF Expired(k) /\ k \in pass.expired THEN @ \union {k} ELSE @]
  /\ UNCHANGED <<ct, cpus, heard, touched>>

Rewind ==
  /\ pass.step = "walk"
  /\ pass.last # None
  /\ pass.last \notin Tracked
  /\ pass' = [pass EXCEPT !.last = None]
  /\ UNCHANGED <<ct, cpus, heard, touched>>

EndWalk ==
  /\ pass.step = "walk"
  /\ Ahead = {}
  /\ pass.last \in Tracked \union {None}
  /\ pass' = [pass EXCEPT !.step = "remove", !.last = None]
  /\ UNCHANGED <<ct, cpus, heard, touched>>

RemoveExpired(k) ==
  /\ pass.step = "remove"
  /\ k \in pass.expired \intersect Tracked
  /\ ct' = [ct EXCEPT ![k] = None]
  /\ pass' = IF k \in pass.twice THEN [pass EXCEPT !.twice = @ \ {k}]
                                 ELSE [pass EXCEPT !.expired = @ \ {k}]
  /\ touched' = touched \intersect pass'.expired
  /\ UNCHANGED <<cpus, heard>>

(* Faulty: the error ends the task.                                        *)
RemoveGoneForGood(k) ==
  /\ pass.step = "remove"
  /\ k \in pass.expired \ Tracked
  /\ pass' = [Sleeping EXCEPT !.step = "stopped"]
  /\ touched' = {}
  /\ UNCHANGED <<ct, cpus, heard>>

(* An entry that is gone already is an error, and the end of the pass.     *)
RemoveGone(k) ==
  /\ pass.step = "remove"
  /\ k \in pass.expired \ Tracked
  /\ pass' = Sleeping
  /\ touched' = {}
  /\ UNCHANGED <<ct, cpus, heard>>

EndPass ==
  /\ pass.step = "remove"
  /\ pass.expired = {}
  /\ pass' = Sleeping
  /\ touched' = {}
  /\ UNCHANGED <<ct, cpus, heard>>

Cleanup ==
  \/ StartPass
  \/ \E k \in Keys : Visit(k) \/ RemoveExpired(k) \/ RemoveGone(k)
  \/ Rewind
  \/ EndWalk
  \/ EndPass

-----------------------------------------------------------------------------
Older(age) == IF age < Old THEN age + 1 ELSE Old

Tick ==
  /\ \A c \in Cpus : cpus[c].step = "idle" \/ cpus[c].age < MaxLag
  /\ pass.step = "sleeping" \/ pass.age < MaxLag
  /\ ct' = [k \in Keys |-> IF ct[k] = None THEN None ELSE Older(ct[k])]
  /\ cpus' = [c \in Cpus |-> IF cpus[c].step = "idle" THEN Idle
                             ELSE [cpus[c] EXCEPT !.age = @ + 1]]
  /\ pass' = IF pass.step = "sleeping" THEN Sleeping ELSE [pass EXCEPT !.age = @ + 1]
  /\ heard' = [f \in TcpFlows |-> Older(heard[f])]
  /\ UNCHANGED touched

Next == (\E c \in Cpus : Receive(c) \/ Handle(c)) \/ Cleanup \/ Tick

Spec == Init /\ [][Next]_vars

(* Time passes, programs run to their end, the interval of the cleanup     *)
(* task fires for ever.  No packet need arrive.                            *)
Fairness ==
  /\ \A c \in Cpus : WF_vars(Handle(c))
  /\ WF_vars(Cleanup)
  /\ WF_vars(Tick)

FairSpec == Spec /\ Fairness

-----------------------------------------------------------------------------
TypeOK ==
  /\ ct \in [Keys -> Ages \union {None}]
  /\ Cardinality(Tracked) <= MaxEntries
  /\ cpus \in [Cpus -> [step : {"idle", "own", "reverse", "write"},
                        key : Keys \union {None}, opens : BOOLEAN, age : 0 .. MaxLag]]
  /\ pass \in [step : {"sleeping", "walk", "remove"}, age : 0 .. MaxLag,
               last : Keys \union {None},
               expired : SUBSET Keys, twice : SUBSET Keys]
  /\ pass.twice \subseteq pass.expired
  /\ heard \in [TcpFlows -> Ages]
  /\ touched \subseteq pass.expired

(***************************************************************************)
(* A TCP connection has one entry, in the direction of its client: neither *)
(* answers handled on another CPU (ipv4.rs:73-84) nor an entry that the    *)
(* task removes under a program's hands adds one the other way round.  (A  *)
(* UDP flow may well get two.)                                             *)
(***************************************************************************)
TcpEntryIsTheClients == \A f \in TcpFlows : ct[<<f, "rev">>] = None

(***************************************************************************)
(* last_seen_ns of a TCP entry is the time of its last packet, whichever   *)
(* side sent it, up to the time two programs are at work: a program that   *)
(* was overtaken may put the time back, by no more than that.              *)
(***************************************************************************)
LastSeenIsRecent ==
  \A f \in TcpFlows :
    LET age == ct[<<f, "fwd">>] IN age # None => age <= heard[f] + 2 * MaxLag

(***************************************************************************)
(* The task removes an entry only if it was silent for its timeout before  *)
(* the pass began, unless a packet wrote it after the pass read it: the    *)
(* window between the walk and the removal (conntrack.rs:46-64) is open,   *)
(* but an entry that is newer than the pass's clock is safe.               *)
(***************************************************************************)
CleanupSparesTheLiving ==
  [][\A k \in Keys :
       RemoveExpired(k) => k \in touched \/ ct[k] - pass.age > Timeout(k)]_vars

(***************************************************************************)
(* Once a flow is silent and evictions no longer take keys out of the      *)
(* task's hands, its entries go: a pass that an error cut short            *)
(* (conntrack.rs:63) is made up for by a later one.                        *)
(***************************************************************************)
Evicts == pass' = pass /\ \E k \in Keys : ct[k] # None /\ ct'[k] = None
Silent(f) == \A c \in Cpus : cpus[c].step = "idle" \/ cpus[c].key[1] # f

SilentFlowsGo ==
  \A f \in Flows :
    <>[]Silent(f) /\ <>[][~Evicts]_vars => <>[](ct[<<f, "fwd">>] = None /\ ct[<<f, "rev">>] = None)
=============================================================================
