------------------------------ MODULE BpfPins ------------------------------
(***************************************************************************)
(* What the agent pins below /sys/fs/bpf/mesh: maps, programs, the link of *)
(* the connect4 program and the links of the pods' interfaces; the loader  *)
(* that pins them (mesh-cni/src/bpf/loader.rs) and the ADD and DEL calls   *)
(* of the CNI plugin (mesh-cni/src/http/grpc/cni.rs).                      *)
(*                                                                         *)
(* Pins outlive the agent, nothing else does: a map, program or link that  *)
(* is not pinned goes when the process ends.  An object is known by the    *)
(* load it comes from, as a program uses the maps it was loaded with; 0    *)
(* says there is no pin.  Removing a file of bpffs does not fail.          *)
(***************************************************************************)
EXTENDS Naturals

CONSTANTS
  ServiceMaps, PolicyMaps,  \* SERVICE_MAPS_LIST and POLICY_MAPS_LIST
  Ifaces,                   \* host ends of the pods' veth pairs
  MaxFailures               \* bound: crashes of the agent and reboots of the node

Connect4 == <<"programs", "connect4">>
Ingress  == <<"programs", "ingress">>
Link     == <<"links", "connect4">>
Dirs     == {"ingress", "egress"}

ServiceFiles == {"maps"} \X ServiceMaps
PolicyFiles  == {"maps"} \X PolicyMaps
Maps         == ServiceFiles \union PolicyFiles

AgentFiles == Maps \union {Connect4, Ingress, Link}
PodLinks   == Ifaces \X Dirs
Files      == AgentFiles \union PodLinks

ASSUME MapLists ==
  ServiceMaps # {} /\ PolicyMaps # {} /\ ServiceMaps \intersect PolicyMaps = {}
ASSUME LinksAreNoAgentFiles == Ifaces \intersect {"maps", "programs", "links"} = {}
ASSUME FailuresBounded == MaxFailures \in Nat

VARIABLES
  step,     \* where the agent is in init_bpf, "down", or "ready" to serve
  load,     \* number of the last load
  pins,     \* the load every pinned object is of
  call,     \* the call in progress for an interface
  failures, \* crashes and reboots so far
  added     \* history: interfaces whose last ADD succeeded, with no DEL since

vars == <<step, load, pins, call, failures, added>>

NoPins  == [f \in Files |-> 0]
NoCalls == [i \in Ifaces |-> "none"]

Init ==
  /\ step = "down"
  /\ load = 0
  /\ pins = NoPins
  /\ call = NoCalls
  /\ failures = 0
  /\ added = {}

Pin(f)   == pins' = [pins EXCEPT ![f] = load]
Unpin(f) == pins' = [pins EXCEPT ![f] = 0]

-----------------------------------------------------------------------------
(***************************************************************************)
(* init_bpf.  pins_exist does not look at the link of connect4.            *)
(***************************************************************************)
(* Faulty: the maps of the policy programs are forgotten.                  *)
ServicePinsExist ==
  \A f \in ServiceFiles \union {Connect4, Ingress} : pins[f] # 0

PinsExist == \A f \in Maps \union {Connect4, Ingress} : pins[f] # 0

Start ==
  /\ step = "down"
  /\ step' = IF PinsExist THEN "ready" ELSE "reset"
  /\ UNCHANGED <<failures, load, pins, call, added>>

(* remove_dir_all takes away one file after the other.                     *)
RemovePin ==
  /\ step = "reset"
  /\ \E f \in Files : pins[f] # 0 /\ Unpin(f)
  /\ UNCHANGED <<failures, step, load, call, added>>

(* Faulty: on a first start, a directory that is not there is an error.    *)
ResetMissingFails ==
  /\ step = "reset"
  /\ pins = NoPins
  /\ step' = IF load = 0 THEN "down" ELSE "load"
  /\ load' = IF load = 0 THEN 0 ELSE load + 1
  /\ UNCHANGED <<failures, pins, call, added>>

ResetDone ==
  /\ step = "reset"
  /\ pins = NoPins
  /\ step' = "load"
  /\ load' = load + 1
  /\ UNCHANGED <<failures, pins, call, added>>

(* A pin is never replaced: a file that is there is an error.  connect4 is *)
(* attached, to a cgroup that takes one program only, before it is pinned. *)
PinConnectProgram ==
  /\ step = "load"
  /\ pins[Link] = 0 /\ pins[Connect4] = 0
  /\ Pin(Connect4)
  /\ step' = "connect4"
  /\ UNCHANGED <<failures, load, call, added>>

PinConnectLink ==
  /\ step = "connect4"
  /\ Pin(Link)
  /\ step' = "service maps"
  /\ UNCHANGED <<failures, load, call, added>>

PinMapOf(files, next) ==
  /\ \E m \in files : pins[m] = 0 /\ Pin(m)
  /\ step' = IF \E m \in files : pins'[m] = 0 THEN step ELSE next
  /\ UNCHANGED <<failures, load, call, added>>

PinServiceMap == step = "service maps" /\ PinMapOf(ServiceFiles, "ingress")

(* ensure_ingress_program keeps a program that is pinned.                  *)
PinIngress ==
  /\ step = "ingress"
  /\ pins' = [pins EXCEPT ![Ingress] = IF @ = 0 THEN load ELSE @]
  /\ step' = "policy maps"
  /\ UNCHANGED <<failures, load, call, added>>

(* Faulty: the loop over the list ends with its first map.                 *)
PinOnePolicyMap ==
  /\ step = "policy maps"
  /\ \E m \in PolicyFiles : pins[m] = 0 /\ Pin(m)
  /\ step' = "ready"
  /\ UNCHANGED <<failures, load, call, added>>

PinPolicyMap == step = "policy maps" /\ PinMapOf(PolicyFiles, "ready")

InitBpf ==
  \/ Start \/ RemovePin \/ ResetDone
  \/ PinConnectProgram \/ PinConnectLink \/ PinServiceMap \/ PinIngress \/ PinPolicyMap

(* A crash, or any error of init_bpf: main ends and the kubelet starts the *)
(* container again.  Calls in progress are lost.                           *)
Fail ==
  /\ failures < MaxFailures
  /\ failures' = failures + 1
  /\ step' = "down"
  /\ call' = NoCalls

Crash ==
  /\ step # "down"
  /\ Fail
  /\ UNCHANGED <<load, pins, added>>

(* A reboot of the node empties bpffs and ends every pod.                  *)
Reboot ==
  /\ Fail
  /\ pins' = NoPins
  /\ added' = {}
  /\ UNCHANGED load

-----------------------------------------------------------------------------
(***************************************************************************)
(* add_pod and delete_pod.  The runtime has one call at a time for an      *)
(* interface; it should delete a pod before it adds it again, and may not. *)
(***************************************************************************)
BeginAdd(i) ==
  /\ step = "ready"
  /\ call[i] = "none"
  /\ call' = [call EXCEPT ![i] = "add ingress"]
  /\ UNCHANGED <<failures, step, load, pins, added>>

(* attach_and_pin_links: a link that cannot be pinned, because there is a  *)
(* pin of that name, is dropped again.  Attaching may fail, too.           *)
Attach(i, d) ==
  /\ pins[<<i, d>>] = 0
  /\ pins' = [pins EXCEPT ![<<i, d>>] = pins[Ingress]]

AddIngress(i) ==
  /\ call[i] = "add ingress"
  /\ Attach(i, "ingress")
  /\ call' = [call EXCEPT ![i] = "add egress"]
  /\ UNCHANGED <<failures, step, load, added>>

(* Faulty: the clean-up of the egress link is done for the ingress, too.   *)
IngressFailsWithCleanup(i) ==
  /\ call[i] = "add ingress"
  /\ call' = [call EXCEPT ![i] = "clean ingress"]
  /\ UNCHANGED <<failures, step, load, pins, added>>

IngressFails(i) ==
  /\ call[i] = "add ingress"
  /\ call' = [call EXCEPT ![i] = "failed"]
  /\ UNCHANGED <<failures, step, load, pins, added>>

AddEgress(i) ==
  /\ call[i] = "add egress"
  /\ Attach(i, "egress")
  /\ call' = [call EXCEPT ![i] = "none"]
  /\ added' = added \union {i}
  /\ UNCHANGED <<failures, step, load>>

EgressFails(i) ==
  /\ call[i] = "add egress"
  /\ call' = [call EXCEPT ![i] = "clean ingress"]
  /\ UNCHANGED <<failures, step, load, pins, added>>

CleanIngress(i) ==
  /\ call[i] = "clean ingress"
  /\ Unpin(<<i, "ingress">>)
  /\ call' = [call EXCEPT ![i] = "clean egress"]
  /\ UNCHANGED <<failures, step, load, added>>

CleanEgress(i) ==
  /\ call[i] = "clean egress"
  /\ Unpin(<<i, "egress">>)
  /\ call' = [call EXCEPT ![i] = "failed"]
  /\ UNCHANGED <<failures, step, load, added>>

ReplyError(i) ==
  /\ call[i] = "failed"
  /\ call' = [call EXCEPT ![i] = "none"]
  /\ UNCHANGED <<failures, step, load, pins, added>>

BeginDelete(i) ==
  /\ step = "ready"
  /\ call[i] = "none"
  /\ call' = [call EXCEPT ![i] = "del ingress"]
  /\ added' = added \ {i}
  /\ UNCHANGED <<failures, step, load, pins>>

DeleteIngress(i) ==
  /\ call[i] = "del ingress"
  /\ Unpin(<<i, "ingress">>)
  /\ call' = [call EXCEPT ![i] = "del egress"]
  /\ UNCHANGED <<failures, step, load, added>>

DeleteEgress(i) ==
  /\ call[i] = "del egress"
  /\ Unpin(<<i, "egress">>)
  /\ call' = [call EXCEPT ![i] = "none"]
  /\ UNCHANGED <<failures, step, load, added>>

Call(i) ==
  \/ AddIngress(i) \/ IngressFails(i) \/ AddEgress(i) \/ EgressFails(i)
  \/ CleanIngress(i) \/ CleanEgress(i) \/ ReplyError(i)
  \/ DeleteIngress(i) \/ DeleteEgress(i)

Next ==
  \/ InitBpf \/ Crash \/ Reboot
  \/ \E i \in Ifaces : BeginAdd(i) \/ BeginDelete(i) \/ Call(i)

Spec == Init /\ [][Next]_vars

-----------------------------------------------------------------------------
Steps == {"down", "reset", "load", "connect4", "service maps", "ingress", "policy maps", "ready"}
Calls == {"none", "add ingress", "add egress", "clean ingress", "clean egress", "failed",
          "del ingress", "del egress"}

TypeOK ==
  /\ step \in Steps
  /\ failures \in 0 .. MaxFailures
  /\ load \in 0 .. failures + 1
  /\ pins \in [Files -> 0 .. load]
  /\ call \in [Ifaces -> Calls]
  /\ step # "ready" => call = NoCalls
  /\ added \subseteq Ifaces

(***************************************************************************)
(* An agent that serves relies on pins it may not have made itself         *)
(* (loader.rs:25-29): wherever the agents before it were interrupted, all  *)
(* maps and programs are there and of one load, so that the programs read  *)
(* what the agent writes, and so is the link that holds connect4.          *)
(***************************************************************************)
AgentServesOneLoad ==
  step = "ready" => pins[Link] # 0 /\ \A f \in AgentFiles : pins[f] = pins[Link]

(***************************************************************************)
(* A pod whose ADD succeeded stays attached, both ways, to a program that  *)
(* reads the maps the agent writes, until its DEL: neither crashes of the  *)
(* agent nor a second ADD (cni.rs:38-61) detach it.                        *)
(***************************************************************************)
AddedPodsStayAttached ==
  \A i \in added, d \in Dirs : pins[<<i, d>>] # 0 /\ \A m \in Maps : pins[<<i, d>>] = pins[m]

(***************************************************************************)
(* Why: what is pinned at each step of init_bpf; pins that are complete    *)
(* stay complete until a reboot; and the calls that unpin an interface are *)
(* not about one that is added.                                            *)
(***************************************************************************)
PinnedSoFar ==
  /\ step \in {"down", "reset"} => load <= failures
  /\ step = "reset" => ~PinsExist
  /\ step = "load" => load # 0 /\ pins = NoPins
  /\ step = "connect4" => \A f \in AgentFiles \ {Connect4} : pins[f] = 0
  /\ step \in {"connect4", "service maps", "ingress", "policy maps"} =>
       load # 0 /\ pins[Connect4] = load
  /\ step \in {"service maps", "ingress", "policy maps"} =>
       pins[Link] = load /\ \A f \in AgentFiles : pins[f] \in {0, load}
  /\ step \in {"service maps", "ingress"} =>
       \A f \in PolicyFiles \union {Ingress} : pins[f] = 0
  /\ step \in {"ingress", "policy maps"} => \A f \in ServiceFiles : pins[f] = load
  /\ step = "policy maps" => pins[Ingress] = load /\ \E f \in PolicyFiles : pins[f] = 0
  /\ step = "ready" => PinsExist

CompleteIsOneLoad == PinsExist => pins[Link] # 0 /\ \A f \in AgentFiles : pins[f] = pins[Link]

PodsOfCalls ==
  /\ added # {} => PinsExist
  /\ \A i \in added, d \in Dirs : pins[<<i, d>>] = pins[Ingress]
  /\ \A i \in Ifaces :
       /\ call[i] = "add egress" => pins[<<i, "ingress">>] = pins[Ingress]
       /\ call[i] \notin {"none", "add ingress", "failed"} => i \notin added

PinsInv == TypeOK /\ PinnedSoFar /\ CompleteIsOneLoad /\ PodsOfCalls

(***************************************************************************)
(* However often it was interrupted, while resetting or while loading, the *)
(* agent comes up (loader.rs:24-54), if the kubelet restarts its container *)
(* for ever and it runs.                                                   *)
(***************************************************************************)
AgentComesUp == WF_vars(InitBpf) => <>[](step = "ready")

(***************************************************************************)
(* cni.rs:26-27: "we need to try to clean up on failed attach and pin      *)
(* calls".  An ADD that fails leaves no pin of an interface that no        *)
(* earlier ADD set up.                                                     *)
(***************************************************************************)
FailedAddLeavesNoPins ==
  \A i \in Ifaces \ added : call[i] = "failed" => \A d \in Dirs : pins[<<i, d>>] = 0
=============================================================================
