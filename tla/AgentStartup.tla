---------------------------- MODULE AgentStartup ----------------------------
(***************************************************************************)
(* The life of the agent's process (mesh-cni/src/main.rs, agent.rs): what  *)
(* it does to the CNI configuration of the node (cni.rs), in which order   *)
(* it gets ready, the tasks it runs, the taints it takes from its node     *)
(* (kubernetes/node.rs), and how it ends.  The kubelet starts it again.    *)
(***************************************************************************)
EXTENDS Naturals, Sequences

CONSTANTS
  Extensions,   \* of the other files in cni_conf_dir, in the order of their paths
  Plugins,      \* that those files configure
  Taints,       \* of the node, other than the startup taint
  CiliumTaint,  \* node.cilium.io/agent-not-ready, which may be one of them
  MaxAttempts,  \* 3 in the code
  MaxChanges,   \* bound: changes of files and taints by others
  MaxFailures,  \* bound: errors, crashes, reboots and signals
  None

Files == DOMAIN Extensions

ASSUME KnownExtensions == Extensions \in Seq({"conflist", "conf", "other"})
ASSUME BoundsAreNumbers == {MaxAttempts, MaxChanges, MaxFailures} \subseteq Nat

Mesh == "mesh-cni"

ASSUME PluginsOfOthers == Mesh \notin Plugins

(* What is in a file: cut short, or its plugins.                           *)
Contents == [whole : BOOLEAN, plugins : Seq(Plugins \union {Mesh})]
Broken   == [whole |-> FALSE, plugins |-> <<>>]
Whole(s) == [whole |-> TRUE, plugins |-> s]

ASSUME NoneIsNothing == None \notin Contents

VARIABLES
  others,      \* contents of the other files
  meshConf,    \* contents of 05-mesh.conflist
  phase,       \* where the process is, or "down"
  attempts,    \* how often no configuration was found
  chosen,      \* the contents to be written
  chained,     \* the argument --chained of the DaemonSet
  initialised, \* the BPF objects are pinned, until a reboot
  node,        \* the Node object
  seen,        \* and as the agent read it
  tasks,       \* the two servers and the cleanup
  ready,
  cancelled,   \* a signal came
  changes, failures

fileVars == <<chained, others, meshConf>>
nodeVars == <<node, seen>>
vars == <<fileVars, phase, attempts, chosen, initialised, nodeVars, tasks, ready, cancelled, changes, failures>>

TaskNames == {"metrics", "grpc", "cleanup"}
NoTasks   == [t \in TaskNames |-> "off"]

Init ==
  /\ others = [f \in Files |-> None]
  /\ meshConf = None /\ chained \in BOOLEAN
  /\ phase = "down" /\ attempts = 0 /\ chosen = None
  /\ initialised = FALSE
  /\ node \in [startup : {TRUE}, taints : {{}, Taints}, version : {0}]
  /\ seen = None
  /\ tasks = NoTasks /\ ready = FALSE /\ cancelled = FALSE
  /\ changes = 0 /\ failures = 0

-----------------------------------------------------------------------------
(* Others (external): another CNI writes its file, in two steps or again;  *)
(* somebody changes the taints of the node.                                *)
Change ==
  /\ changes < MaxChanges /\ changes' = changes + 1
  /\ UNCHANGED <<chained, meshConf, phase, attempts, chosen, initialised, seen, tasks, ready, cancelled, failures>>

WriteOther(f) ==
  /\ Change
  /\ \E p \in Plugins : others' = [others EXCEPT ![f] = IF @ = None THEN Broken ELSE Whole(<<p>>)]
  /\ UNCHANGED node

ChangeTaints ==
  /\ Change
  /\ \E t \in Taints :
       node' = [node EXCEPT !.version = @ + 1,
                            !.taints = IF t \in @ THEN @ \ {t} ELSE @ \union {t}]
  /\ UNCHANGED others

-----------------------------------------------------------------------------
(* The process ends, by any error that main or agent::start returns, by a  *)
(* crash, by the liveness probe: what is left is files, pins and the Node. *)
End ==
  /\ phase' = "down" /\ attempts' = 0 /\ chosen' = None
  /\ seen' = None /\ tasks' = NoTasks /\ ready' = FALSE /\ cancelled' = FALSE
  /\ UNCHANGED <<fileVars, node, changes>>

Failure == failures < MaxFailures /\ failures' = failures + 1

Fail   == phase # "down" /\ Failure /\ End /\ UNCHANGED initialised
Reboot == Failure /\ End /\ initialised' = FALSE

GoTo(p) == phase' = p

(* ensure_cni_preconditions: the log directory and the plugin, and then a  *)
(* configuration to start from: the first conflist, or else the first conf *)
(* file, of which only what a conflist has is read.  If there is none it   *)
(* looks again after 5 seconds, a few times.                               *)
Start ==
  /\ phase = "down"
  /\ GoTo("find")
  /\ UNCHANGED <<fileVars, attempts, chosen, initialised, nodeVars, tasks, ready, cancelled, changes, failures>>

FirstOf(ext) == {f \in Files : /\ Extensions[f] = ext /\ others[f] # None
                               /\ \A g \in 1 .. f - 1 : Extensions[g] = ext => others[g] = None}

PluginsOf(f) == IF Extensions[f] = "conflist" THEN others[f].plugins ELSE <<>>

ExistingWithOwn ==  \* Faulty: the file of an earlier start counts.
  IF meshConf # None THEN {meshConf}
  ELSE {[others[f] EXCEPT !.plugins = PluginsOf(f)] :
          f \in IF FirstOf("conflist") # {} THEN FirstOf("conflist") ELSE FirstOf("conf")}

Existing ==
  {[others[f] EXCEPT !.plugins = PluginsOf(f)] :
     f \in IF FirstOf("conflist") # {} THEN FirstOf("conflist") ELSE FirstOf("conf")}

(* update_cni_conf, default_cni_config.  What cannot be parsed is an error. *)
FindConf ==
  /\ phase = "find" /\ chained
  /\ \E c \in Existing : c.whole /\ chosen' = Whole(Append(c.plugins, Mesh))
  /\ GoTo("open")
  /\ UNCHANGED <<fileVars, attempts, initialised, nodeVars, tasks, ready, cancelled, changes, failures>>

DefaultConf ==
  /\ phase = "find" /\ ~chained
  /\ chosen' = Whole(<<>>)
  /\ GoTo("open")
  /\ UNCHANGED <<fileVars, attempts, initialised, nodeVars, tasks, ready, cancelled, changes, failures>>

LookAgain ==
  /\ phase = "find" /\ chained /\ Existing = {} /\ attempts < MaxAttempts
  /\ attempts' = attempts + 1
  /\ UNCHANGED <<fileVars, phase, chosen, initialised, nodeVars, tasks, ready, cancelled, changes, failures>>

NoConf ==
  /\ phase = "find" /\ chained
  /\ \/ Existing = {} /\ attempts = MaxAttempts
     \/ \E c \in Existing : ~c.whole
  /\ End
  /\ UNCHANGED <<initialised, failures>>

(* ensure_cni_conf: the file is emptied, then written.                     *)
OpenConf ==
  /\ phase = "open"
  /\ meshConf' = Broken
  /\ GoTo("write")
  /\ UNCHANGED <<chained, others, attempts, chosen, initialised, nodeVars, tasks, ready, cancelled, changes, failures>>

(* After it main starts its tasks.                                         *)
WriteConf ==
  /\ phase = "write"
  /\ meshConf' = chosen
  /\ GoTo("bpf")
  /\ tasks' = [tasks EXCEPT !["metrics"] = "starting"]
  /\ UNCHANGED <<chained, others, attempts, chosen, initialised, nodeVars, ready, cancelled, changes, failures>>

-----------------------------------------------------------------------------
(* agent::start, step by step.  It does not look at the signal until the   *)
(* end.  The controllers of addresses and policies are started but not     *)
(* waited for, those of services once their stores are filled.             *)
InitBpf ==
  /\ phase = "bpf"
  /\ initialised' = TRUE
  /\ GoTo("stores")
  /\ UNCHANGED <<fileVars, attempts, chosen, nodeVars, tasks, ready, cancelled, changes, failures>>

StoresReady ==
  /\ phase = "stores"
  /\ GoTo("spawn")
  /\ UNCHANGED <<fileVars, attempts, chosen, initialised, nodeVars, tasks, ready, cancelled, changes, failures>>

SpawnTasks ==
  /\ phase = "spawn"
  /\ tasks' = [tasks EXCEPT !["grpc"] = "starting", !["cleanup"] = "starting"]
  /\ GoTo("get node")
  /\ UNCHANGED <<fileVars, attempts, chosen, initialised, nodeVars, ready, cancelled, changes, failures>>

(* remove_startup_taint.  Without taints there is nothing to do.           *)
GetNode ==
  /\ phase = "get node"
  /\ seen' = node
  /\ GoTo(IF node.startup \/ node.taints # {} THEN "put node" ELSE "announce")
  /\ UNCHANGED <<fileVars, attempts, chosen, initialised, node, tasks, ready, cancelled, changes, failures>>

(* The startup taint goes and so does that of Cilium; an object that is    *)
(* put back as it was keeps its version.                                   *)
Untainted(n) ==
  LET left == n.taints \ {CiliumTaint} IN
    [n EXCEPT !.startup = FALSE, !.taints = left,
              !.version = IF n.startup \/ left # n.taints THEN @ + 1 ELSE @]

ForceNode ==  \* Faulty: whatever version the Node has now.
  /\ phase = "put node"
  /\ node' = [Untainted(seen) EXCEPT !.version = node.version + 1]
  /\ GoTo("announce")
  /\ UNCHANGED <<fileVars, attempts, chosen, initialised, seen, tasks, ready, cancelled, changes, failures>>

PutNode ==
  /\ phase = "put node" /\ seen.version = node.version
  /\ node' = Untainted(seen)
  /\ GoTo("announce")
  /\ UNCHANGED <<fileVars, attempts, chosen, initialised, seen, tasks, ready, cancelled, changes, failures>>

ConflictIgnored ==  \* Faulty: it is logged only.
  /\ phase = "put node" /\ seen.version # node.version
  /\ GoTo("announce")
  /\ UNCHANGED <<fileVars, attempts, chosen, initialised, nodeVars, tasks, ready, cancelled, changes, failures>>

PutConflict ==
  /\ phase = "put node" /\ seen.version # node.version
  /\ End
  /\ UNCHANGED <<initialised, failures>>

Announce ==
  /\ phase = "announce"
  /\ ready' = TRUE
  /\ GoTo("wait")
  /\ UNCHANGED <<fileVars, attempts, chosen, initialised, nodeVars, tasks, cancelled, changes, failures>>

AgentStep ==
  \/ FindConf \/ DefaultConf \/ LookAgain \/ NoConf \/ OpenConf \/ WriteConf
  \/ InitBpf \/ StoresReady \/ SpawnTasks \/ GetNode \/ PutNode \/ PutConflict \/ Announce

-----------------------------------------------------------------------------
(* The tasks: metrics and grpc bind and listen, each ends with an error or *)
(* when it is cancelled.  The cleanup ends in these ways only, too.        *)
SetTask(t, s) ==
  /\ tasks' = [tasks EXCEPT ![t] = s]
  /\ UNCHANGED <<fileVars, phase, attempts, chosen, initialised, nodeVars, ready, cancelled, changes>>

TaskStarts(t) == tasks[t] = "starting" /\ SetTask(t, "on") /\ UNCHANGED failures
TaskFails(t)  == tasks[t] \in {"starting", "on"} /\ Failure /\ SetTask(t, "failed")
TaskStops(t)  == tasks[t] = "on" /\ cancelled /\ SetTask(t, "stopped") /\ UNCHANGED failures

(* The select of agent::start.                                             *)
WaitsForCancelOnly ==  \* Faulty: the tasks are not looked at.
  /\ phase = "wait" /\ cancelled
  /\ GoTo("ended")
  /\ UNCHANGED <<fileVars, attempts, chosen, initialised, nodeVars, tasks, ready, cancelled, changes, failures>>

WaitsForTasksOnly ==  \* Faulty: nor is the token.
  /\ phase = "wait" /\ \E t \in {"grpc", "cleanup"} : tasks[t] = "failed"
  /\ GoTo("ended")
  /\ UNCHANGED <<fileVars, attempts, chosen, initialised, nodeVars, tasks, ready, cancelled, changes, failures>>

AgentEnds ==
  /\ phase = "wait"
  /\ cancelled \/ \E t \in {"grpc", "cleanup"} : tasks[t] \in {"failed", "stopped"}
  /\ GoTo("ended")
  /\ UNCHANGED <<fileVars, attempts, chosen, initialised, nodeVars, tasks, ready, cancelled, changes, failures>>

(* shutdown_signal.  Before main watches for it the signal has no effect:  *)
(* the binary is the first process of its container (the image's           *)
(* entrypoint), for which the kernel drops a signal without a handler.     *)
(* What the kubelet kills it with in the end is Fail.                      *)
Signal ==
  /\ phase \notin {"down", "find", "open", "write"} /\ ~cancelled /\ Failure
  /\ cancelled' = TRUE
  /\ UNCHANGED <<fileVars, phase, attempts, chosen, initialised, nodeVars, tasks, ready, changes>>

(* The select of main: one of the two ended, or, after a signal, both.     *)
MainEnds ==
  /\ LET metrics == tasks["metrics"] \in {"failed", "stopped"} IN
       IF cancelled THEN metrics /\ phase = "ended" ELSE metrics \/ phase = "ended"
  /\ phase # "down" /\ End
  /\ UNCHANGED <<initialised, failures>>

TaskStep(t) == TaskStarts(t) \/ TaskStops(t)

Next ==
  \/ \E f \in Files : WriteOther(f)
  \/ ChangeTaints
  \/ Start \/ AgentStep \/ AgentEnds \/ MainEnds \/ Signal \/ Fail \/ Reboot
  \/ \E t \in TaskNames : TaskStep(t) \/ TaskFails(t)

Spec == Init /\ [][Next]_vars

(* The kubelet restarts the container, and the process runs.               *)
Fairness ==
  /\ WF_vars(Start) /\ WF_vars(AgentStep) /\ WF_vars(AgentEnds) /\ WF_vars(MainEnds)
  /\ \A t \in TaskNames : WF_vars(TaskStep(t))

FairSpec == Spec /\ Fairness

-----------------------------------------------------------------------------
Phases == {"down", "find", "open", "write", "bpf", "stores", "spawn", "get node", "put node",
           "announce", "wait", "ended"}

(* A process that is ready went through all of it.                         *)
TypeOK ==
  /\ phase \in Phases /\ attempts \in 0 .. MaxAttempts
  /\ tasks \in [TaskNames -> {"off", "starting", "on", "stopped", "failed"}]
  /\ phase \in {"stores", "spawn", "get node", "put node", "announce", "wait", "ended"} => initialised
  /\ phase \in {"get node", "put node", "announce", "wait", "ended"} <=> tasks["grpc"] # "off"
  /\ ready <=> phase \in {"wait", "ended"}
  /\ changes \in 0 .. MaxChanges /\ failures \in 0 .. MaxFailures

(***************************************************************************)
(* However often it is started, a file of a chained agent that is not cut  *)
(* short runs mesh-cni last, and once (cni.rs:74-80: its own file is not   *)
(* one to start from).  Which plugins come before it is not said here: a   *)
(* .conf file gives none, see KeepsExistingConfig.                         *)
(***************************************************************************)
EndsWithMesh(s) == s # <<>> /\ \A n \in DOMAIN s : s[n] = Mesh <=> n = Len(s)

MeshComesLastOnce ==
  meshConf # None /\ meshConf.whole /\ chained => EndsWithMesh(meshConf.plugins)

(***************************************************************************)
(* The taints go last: when the agent changes its Node, so that pods that  *)
(* were held back may come, the runtime has a configuration and the        *)
(* programs are loaded; and what others do to the Node meanwhile is not    *)
(* undone: the startup taint goes, and of the others that of Cilium and    *)
(* no more, whether Cilium is ready or not (node.rs:6-18).                 *)
(***************************************************************************)
TaintGoesLast ==
  [][node' # node /\ UNCHANGED changes =>
       /\ initialised /\ meshConf # None /\ meshConf.whole
       /\ ~node'.startup /\ node'.taints = node.taints \ {CiliumTaint}]_vars

(***************************************************************************)
(* Why: what is about to be written is whole, and complete if chained; it  *)
(* is there from then on, as the process only empties it on its way to     *)
(* write it again; and a Node of the version that was read is as it was    *)
(* read.                                                                   *)
(***************************************************************************)
Nodes == [startup : BOOLEAN, taints : SUBSET Taints, version : Nat]

FilesInv ==
  /\ others \in [Files -> [whole : BOOLEAN, plugins : Seq(Plugins)] \union {None}]
  /\ phase \in {"open", "write"} =>
       chosen \in Contents /\ chosen.whole /\ (chained => EndsWithMesh(chosen.plugins))
  /\ phase \notin {"down", "find", "open", "write"} => meshConf # None /\ meshConf.whole

NodeInv ==
  /\ node \in Nodes
  /\ phase = "put node" =>
       /\ seen \in Nodes /\ seen.version <= node.version
       /\ seen.version = node.version => seen = node

StartupInv == TypeOK /\ FilesInv /\ MeshComesLastOnce /\ NodeInv

(***************************************************************************)
(* An agent that says it is ready serves its socket before long, or ends:  *)
(* it says so before the task has bound the socket (agent.rs:81-92).       *)
(***************************************************************************)
ReadyServes == ready ~> (tasks["grpc"] = "on" \/ phase = "down" \/ cancelled)

(***************************************************************************)
(* A signal that main watches for ends the process, whatever it is doing   *)
(* (main.rs:31-39).                                                        *)
(***************************************************************************)
SignalEnds == cancelled ~> phase = "down"

(***************************************************************************)
(* Once another CNI has its file, or needs none, the agent gets ready and  *)
(* stays so, its node free, although it gives up on a file that it does    *)
(* not find or finds half written, and on a Node that others changed       *)
(* (cni.rs:31-43, node.rs:17).                                             *)
(***************************************************************************)
AgentGetsReady ==
  <>[](chained => \E c \in Existing : c.whole) =>
    <>[](ready /\ tasks["grpc"] = "on" /\ ~node.startup)

(***************************************************************************)
(* "updates the existing cni config to include mesh-cni plugin"            *)
(* (cni.rs:145): the plugins of the file it starts from, and mesh-cni.     *)
(***************************************************************************)
KeepsExistingConfig ==
  phase = "open" /\ chained =>
    \E f \in Files : others[f] # None /\ chosen = Whole(Append(others[f].plugins, Mesh))
=============================================================================
