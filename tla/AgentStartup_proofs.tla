------------------------- MODULE AgentStartup_proofs -------------------------
(***************************************************************************)
(* For any files, plugins and taints, any number of attempts and of        *)
(* failures: the agent's configuration runs mesh-cni last and once, and    *)
(* the taint goes when the agent is set up and undoes no other's.          *)
(* StartupInv is the inductive invariant.                                  *)
(***************************************************************************)
EXTENDS AgentStartup, SequenceTheorems, TLAPS

(* What is read of another's file, and of what the agent makes of it.      *)
LEMMA ContentsFacts ==
  /\ Broken \in Contents /\ ~Broken.whole
  /\ \A s \in Seq(Plugins \union {Mesh}) :
       Whole(s) \in Contents /\ Whole(s).whole /\ Whole(s).plugins = s
  /\ <<>> \in Seq(Plugins) /\ \A p \in Plugins : <<p>> \in Seq(Plugins)
  /\ Seq(Plugins) \subseteq Seq(Plugins \union {Mesh})
<1>1. <<>> \in Seq(Plugins) /\ \A p \in Plugins : <<p>> \in Seq(Plugins)
  OBVIOUS
<1>2. Seq(Plugins) \subseteq Seq(Plugins \union {Mesh})
  BY SeqMonotonic
<1>3. Broken \in Contents /\ ~Broken.whole
  BY <1>1, <1>2 DEF Broken, Contents
<1>4. \A s \in Seq(Plugins \union {Mesh}) :
        Whole(s) \in Contents /\ Whole(s).whole /\ Whole(s).plugins = s
  BY DEF Whole, Contents
<1> QED  BY <1>1, <1>2, <1>3, <1>4

LEMMA AppendedEndsWithMesh ==
  ASSUME NEW s \in Seq(Plugins)
  PROVE  /\ Append(s, Mesh) \in Seq(Plugins \union {Mesh})
         /\ EndsWithMesh(Append(s, Mesh))
<1>1. s \in Seq(Plugins \union {Mesh}) /\ Len(s) \in Nat
  BY ContentsFacts
<1>2. /\ Append(s, Mesh) \in Seq(Plugins \union {Mesh})
      /\ Len(Append(s, Mesh)) = Len(s) + 1 /\ DOMAIN Append(s, Mesh) = 1 .. Len(s) + 1
      /\ Append(s, Mesh)[Len(s) + 1] = Mesh
      /\ \A n \in 1 .. Len(s) : Append(s, Mesh)[n] = s[n]
  BY <1>1
<1>3. \A n \in 1 .. Len(s) : s[n] # Mesh
  BY PluginsOfOthers
<1>4. Append(s, Mesh) # <<>>
  BY <1>1, <1>2
<1>5. \A n \in 1 .. Len(s) + 1 : Append(s, Mesh)[n] = Mesh <=> n = Len(s) + 1
  BY <1>1, <1>2, <1>3
<1> QED  BY <1>2, <1>4, <1>5 DEF EndsWithMesh

LEMMA FileFacts ==
  ASSUME FilesInv, NEW c \in Existing
  PROVE  c.plugins \in Seq(Plugins)
<1>1. PICK f \in IF FirstOf("conflist") # {} THEN FirstOf("conflist") ELSE FirstOf("conf") :
        c = [others[f] EXCEPT !.plugins = PluginsOf(f)]
  BY DEF Existing
<1>2. f \in Files /\ others[f] # None
  BY <1>1 DEF FirstOf
<1>3. others[f] \in [whole : BOOLEAN, plugins : Seq(Plugins)]
  BY <1>2 DEF FilesInv
<1>4. PluginsOf(f) \in Seq(Plugins)
  BY <1>3, ContentsFacts DEF PluginsOf
<1> QED  BY <1>1, <1>3, <1>4

LEMMA Bounds == MaxAttempts \in Nat /\ MaxChanges \in Nat /\ MaxFailures \in Nat
BY BoundsAreNumbers

LEMMA StartupInit == Init => StartupInv
<1> SUFFICES ASSUME Init PROVE StartupInv  OBVIOUS
<1>1. TypeOK
  BY Bounds DEF Init, TypeOK, Phases, NoTasks, TaskNames
<1>2. FilesInv
  BY DEF Init, FilesInv
<1>3. MeshComesLastOnce
  BY DEF Init, MeshComesLastOnce
<1>4. NodeInv
  <2>1. PICK t \in {{}, Taints} : node = [startup |-> TRUE, taints |-> t, version |-> 0]
    BY DEF Init
  <2>2. t \in SUBSET Taints
    OBVIOUS
  <2>3. node \in Nodes
    BY <2>1, <2>2 DEF Nodes
  <2> QED  BY <2>3 DEF Init, NodeInv
<1> QED  BY <1>1, <1>2, <1>3, <1>4 DEF StartupInv

-----------------------------------------------------------------------------
(* The process ends: what is left needs no more than it did.               *)
LEMMA Ending ==
  ASSUME StartupInv, End, failures' \in 0 .. MaxFailures
  PROVE  StartupInv'
<1>1. phase' = "down" /\ attempts' = 0 /\ tasks' = NoTasks /\ ready' = FALSE /\ UNCHANGED changes
  BY DEF End
<1>2. NoTasks \in [TaskNames -> {"off", "starting", "on", "stopped", "failed"}]
      /\ NoTasks["grpc"] = "off"
  BY DEF NoTasks, TaskNames
<1>3. attempts' \in 0 .. MaxAttempts /\ changes' \in 0 .. MaxChanges
  <2>1. changes \in 0 .. MaxChanges
    BY DEF StartupInv, TypeOK
  <2> QED  BY <1>1, <2>1, Bounds
<1>4. TypeOK'
  BY <1>1, <1>2, <1>3 DEF TypeOK, Phases
<1>5. FilesInv' /\ MeshComesLastOnce' /\ NodeInv'
  BY DEF StartupInv, End, FilesInv, MeshComesLastOnce, NodeInv, fileVars
<1> QED  BY <1>4, <1>5 DEF StartupInv

LEMMA FailureBounded ==
  ASSUME StartupInv, Failure
  PROVE  failures' \in 0 .. MaxFailures
<1>1. failures \in 0 .. MaxFailures /\ failures < MaxFailures /\ failures' = failures + 1
  BY DEF StartupInv, TypeOK, Failure
<1> QED  BY <1>1, Bounds

(* A step that leaves the files alone, and does not skip their writing.    *)
LEMMA FilesStay ==
  ASSUME StartupInv, UNCHANGED fileVars,
         phase' \in {"open", "write"} => phase' = phase /\ chosen' = chosen,
         phase' \notin {"down", "find", "open", "write"} =>
           phase \notin {"down", "find", "open", "write"}
  PROVE  FilesInv' /\ MeshComesLastOnce'
BY DEF StartupInv, FilesInv, MeshComesLastOnce, fileVars

LEMMA NodeStays ==
  ASSUME StartupInv, UNCHANGED nodeVars, phase' = "put node" => phase = "put node"
  PROVE  NodeInv'
BY DEF StartupInv, NodeInv, nodeVars

-----------------------------------------------------------------------------
LEMMA StepsOfOthers ==
  ASSUME StartupInv, (\E f \in Files : WriteOther(f)) \/ ChangeTaints
  PROVE  StartupInv'
<1>1. TypeOK'
  <2>1. changes < MaxChanges /\ changes' = changes + 1
        /\ UNCHANGED <<phase, attempts, initialised, tasks, ready, failures>>
    BY DEF WriteOther, ChangeTaints, Change
  <2>2. changes \in 0 .. MaxChanges
    BY DEF StartupInv, TypeOK
  <2>3. changes' \in 0 .. MaxChanges
    BY <2>1, <2>2, Bounds
  <2> QED  BY <2>1, <2>3 DEF StartupInv, TypeOK
<1>2. CASE \E f \in Files : WriteOther(f)
  <2>1. PICK f \in Files : WriteOther(f)
    BY <1>2
  <2>2. PICK p \in Plugins : others' = [others EXCEPT ![f] = IF @ = None THEN Broken ELSE Whole(<<p>>)]
    BY <2>1 DEF WriteOther
  <2>3. /\ Broken \in [whole : BOOLEAN, plugins : Seq(Plugins)]
        /\ Whole(<<p>>) \in [whole : BOOLEAN, plugins : Seq(Plugins)]
    BY ContentsFacts DEF Broken, Whole
  <2>4. others' \in [Files -> [whole : BOOLEAN, plugins : Seq(Plugins)] \union {None}]
    BY <2>2, <2>3 DEF StartupInv, FilesInv
  <2>5. UNCHANGED <<chained, meshConf, phase, chosen, node, seen>>
    BY <2>1 DEF WriteOther, Change
  <2>6. FilesInv' /\ MeshComesLastOnce' /\ NodeInv'
    BY <2>4, <2>5 DEF StartupInv, FilesInv, MeshComesLastOnce, NodeInv
  <2> QED  BY <1>1, <2>6 DEF StartupInv
<1>3. CASE ChangeTaints
  <2>1. PICK t \in Taints :
          node' = [node EXCEPT !.version = @ + 1,
                               !.taints = IF t \in @ THEN @ \ {t} ELSE @ \union {t}]
    BY <1>3 DEF ChangeTaints
  <2>2. node \in Nodes
    BY DEF StartupInv, NodeInv
  <2>3. node' \in Nodes /\ node'.version = node.version + 1
    <3>1. node.version + 1 \in Nat /\ node.taints \in SUBSET Taints
      BY <2>2 DEF Nodes
    <3> DEFINE ts == IF t \in node.taints THEN node.taints \ {t} ELSE node.taints \union {t}
    <3>2. ts \in SUBSET Taints
      BY <3>1
    <3>3. node' = [node EXCEPT !.version = node.version + 1, !.taints = ts]
      BY <2>1, <2>2 DEF Nodes
    <3> HIDE DEF ts
    <3> QED  BY <2>2, <3>1, <3>2, <3>3 DEF Nodes
  <2>4. UNCHANGED <<chained, others, meshConf, phase, chosen, seen>>
    BY <1>3 DEF ChangeTaints, Change
  <2>5. NodeInv'
    <3>1. ASSUME phase = "put node"
          PROVE  /\ seen \in Nodes /\ seen.version <= node'.version
                 /\ seen.version # node'.version
      <4>1. seen \in Nodes /\ seen.version <= node.version
        BY <3>1 DEF StartupInv, NodeInv
      <4>2. seen.version \in Nat /\ node.version \in Nat
        BY <4>1, <2>2 DEF Nodes
      <4> QED  BY <4>1, <4>2, <2>3
    <3> QED  BY <2>3, <2>4, <3>1 DEF NodeInv
  <2>6. FilesInv' /\ MeshComesLastOnce'
    BY <2>4 DEF StartupInv, FilesInv, MeshComesLastOnce
  <2> QED  BY <1>1, <2>5, <2>6 DEF StartupInv
<1> QED  BY <1>2, <1>3

LEMMA StepsOfConf ==
  ASSUME StartupInv,
         Start \/ FindConf \/ DefaultConf \/ LookAgain \/ NoConf \/ OpenConf \/ WriteConf
  PROVE  StartupInv'
<1>1. CASE NoConf
  <2>1. failures' \in 0 .. MaxFailures
    BY <1>1 DEF NoConf, StartupInv, TypeOK
  <2> QED  BY <1>1, <2>1, Ending DEF NoConf
<1>2. CASE Start \/ FindConf \/ DefaultConf \/ LookAgain \/ OpenConf \/ WriteConf
  <2>1. TypeOK'
    <3>1. /\ phase \in {"down", "find", "open", "write"} /\ phase' \in {"find", "open", "write", "bpf"}
          /\ UNCHANGED <<ready, changes, failures>>
      BY <1>2 DEF GoTo, Start, FindConf, DefaultConf, LookAgain, OpenConf, WriteConf
    <3>2. attempts' \in 0 .. MaxAttempts
      <4>1. attempts' = attempts \/ (attempts < MaxAttempts /\ attempts' = attempts + 1)
        BY <1>2 DEF Start, FindConf, DefaultConf, LookAgain, OpenConf, WriteConf
      <4>2. attempts \in 0 .. MaxAttempts
        BY DEF StartupInv, TypeOK
      <4> QED  BY <4>1, <4>2, Bounds
    <3>3. tasks' = tasks \/ tasks' = [tasks EXCEPT !["metrics"] = "starting"]
      BY <1>2 DEF Start, FindConf, DefaultConf, LookAgain, OpenConf, WriteConf
    <3>4. /\ tasks' \in [TaskNames -> {"off", "starting", "on", "stopped", "failed"}]
          /\ tasks'["grpc"] = tasks["grpc"]
      BY <3>3 DEF StartupInv, TypeOK, TaskNames
    <3> QED  BY <3>1, <3>2, <3>4 DEF StartupInv, TypeOK, Phases
  <2>2. UNCHANGED nodeVars /\ phase' # "put node"
    BY <1>2 DEF GoTo, Start, FindConf, DefaultConf, LookAgain, OpenConf, WriteConf
  <2>3. NodeInv'
    BY <2>2, NodeStays
  <2>4. CASE Start \/ LookAgain
    <3>1. UNCHANGED fileVars /\ phase' = "find"
      BY <2>4 DEF Start, LookAgain, GoTo
    <3> QED  BY <2>1, <2>3, <3>1, FilesStay DEF StartupInv
  <2>5. CASE FindConf
    <3>1. PICK c \in Existing : chosen' = Whole(Append(c.plugins, Mesh))
      BY <2>5 DEF FindConf
    <3>2. c.plugins \in Seq(Plugins)
      BY FileFacts DEF StartupInv
    <3> DEFINE s == Append(c.plugins, Mesh)
    <3>3. s \in Seq(Plugins \union {Mesh}) /\ EndsWithMesh(s)
      BY <3>2, AppendedEndsWithMesh
    <3> HIDE DEF s
    <3>4. chosen' \in Contents /\ chosen'.whole /\ EndsWithMesh(chosen'.plugins)
      BY <3>1, <3>3, ContentsFacts DEF s
    <3>5. UNCHANGED fileVars /\ phase' = "open"
      BY <2>5 DEF FindConf, GoTo
    <3>6. FilesInv' /\ MeshComesLastOnce'
      BY <3>4, <3>5 DEF StartupInv, FilesInv, MeshComesLastOnce, fileVars
    <3> QED  BY <2>1, <2>3, <3>6 DEF StartupInv
  <2>6. CASE DefaultConf
    <3>1. chosen' \in Contents /\ chosen'.whole
      BY <2>6, ContentsFacts DEF DefaultConf
    <3>2. UNCHANGED fileVars /\ phase' = "open" /\ ~chained
      BY <2>6 DEF DefaultConf, GoTo
    <3>3. FilesInv' /\ MeshComesLastOnce'
      BY <3>1, <3>2 DEF StartupInv, FilesInv, MeshComesLastOnce, fileVars
    <3> QED  BY <2>1, <2>3, <3>3 DEF StartupInv
  <2>7. CASE OpenConf
    <3>1. /\ phase = "open" /\ phase' = "write" /\ meshConf' = Broken
          /\ UNCHANGED <<chained, others, chosen>>
      BY <2>7 DEF OpenConf, GoTo
    <3>2. ~meshConf'.whole
      BY <3>1, ContentsFacts
    <3>3. FilesInv' /\ MeshComesLastOnce'
      BY <3>1, <3>2 DEF StartupInv, FilesInv, MeshComesLastOnce
    <3> QED  BY <2>1, <2>3, <3>3 DEF StartupInv
  <2>8. CASE WriteConf
    <3>1. /\ phase = "write" /\ phase' = "bpf" /\ meshConf' = chosen
          /\ UNCHANGED <<chained, others, chosen>>
      BY <2>8 DEF WriteConf, GoTo
    <3>2. chosen # None /\ chosen.whole /\ (chained => EndsWithMesh(chosen.plugins))
      BY <3>1, NoneIsNothing DEF StartupInv, FilesInv
    <3>3. FilesInv' /\ MeshComesLastOnce'
      BY <3>1, <3>2 DEF StartupInv, FilesInv, MeshComesLastOnce
    <3> QED  BY <2>1, <2>3, <3>3 DEF StartupInv
  <2> QED  BY <1>2, <2>4, <2>5, <2>6, <2>7, <2>8
<1> QED  BY <1>1, <1>2

LEMMA StepsOfAgent ==
  ASSUME StartupInv, InitBpf \/ StoresReady \/ SpawnTasks \/ GetNode \/ PutNode \/ Announce
  PROVE  StartupInv'
<1>1. /\ phase \notin {"down", "find", "open", "write"}
      /\ phase' \notin {"down", "find", "open", "write"}
      /\ UNCHANGED fileVars /\ UNCHANGED <<attempts, changes, failures>>
  BY DEF InitBpf, StoresReady, SpawnTasks, GetNode, PutNode, Announce, GoTo
<1>2. FilesInv' /\ MeshComesLastOnce'
  BY <1>1, FilesStay
<1>3. TypeOK'
  <2>1. CASE InitBpf \/ StoresReady
    <3>1. phase = "stores" => initialised
      BY DEF StartupInv, TypeOK
    <3>2. /\ phase \in {"bpf", "stores"} /\ phase' \in {"stores", "spawn"} /\ UNCHANGED <<tasks, ready>>
          /\ initialised'
      BY <2>1, <3>1 DEF InitBpf, StoresReady, GoTo
    <3>3. ~ready' /\ tasks'["grpc"] = "off"
      BY <3>2 DEF StartupInv, TypeOK
    <3> QED  BY <3>2, <3>3, <1>1 DEF StartupInv, TypeOK, Phases
  <2>2. CASE SpawnTasks
    <3>1. tasks' \in [TaskNames -> {"off", "starting", "on", "stopped", "failed"}]
          /\ tasks'["grpc"] = "starting"
      BY <2>2 DEF SpawnTasks, StartupInv, TypeOK, TaskNames
    <3> QED  BY <2>2, <3>1, <1>1 DEF StartupInv, TypeOK, Phases, SpawnTasks, GoTo
  <2>3. CASE GetNode \/ PutNode \/ Announce
    <3>1. /\ phase \in {"get node", "put node", "announce"}
          /\ phase' \in {"put node", "announce", "wait"} /\ UNCHANGED <<tasks, initialised>>
          /\ phase' = "wait" => ready' = TRUE
          /\ phase' # "wait" => ready' = ready
      BY <2>3 DEF GetNode, PutNode, Announce, GoTo
    <3>2. initialised' /\ tasks'["grpc"] # "off" /\ ~ready
      BY <3>1 DEF StartupInv, TypeOK
    <3>3. ready' <=> phase' = "wait"
      BY <3>1, <3>2
    <3> QED  BY <3>1, <3>2, <3>3, <1>1 DEF StartupInv, TypeOK, Phases
  <2> QED  BY <2>1, <2>2, <2>3
<1>4. NodeInv'
  <2>1. CASE InitBpf \/ StoresReady \/ SpawnTasks \/ Announce
    <3>1. UNCHANGED nodeVars /\ phase' # "put node"
      BY <2>1 DEF InitBpf, StoresReady, SpawnTasks, Announce, GoTo
    <3> QED  BY <3>1, NodeStays
  <2>2. CASE GetNode
    <3>1. seen' = node /\ node' = node /\ node \in Nodes
      BY <2>2 DEF GetNode, StartupInv, NodeInv
    <3>2. node.version <= node.version
      BY <3>1 DEF Nodes
    <3> QED  BY <3>1, <3>2 DEF NodeInv
  <2>3. CASE PutNode
    <3>1. /\ node' = Untainted(seen) /\ phase' # "put node" /\ seen \in Nodes
      BY <2>3 DEF PutNode, GoTo, StartupInv, NodeInv
    <3>2. Untainted(seen) \in Nodes
      <4> DEFINE left == seen.taints \ {CiliumTaint}
                 v == IF seen.startup \/ left # seen.taints THEN seen.version + 1 ELSE seen.version
      <4>1. seen.version \in Nat /\ seen.taints \in SUBSET Taints
        BY <3>1 DEF Nodes
      <4>2. v \in Nat /\ left \in SUBSET Taints
        BY <4>1
      <4>3. Untainted(seen) = [seen EXCEPT !.startup = FALSE, !.taints = left, !.version = v]
        BY <3>1 DEF Untainted, Nodes
      <4> HIDE DEF v, left
      <4> QED  BY <3>1, <4>2, <4>3 DEF Nodes
    <3> QED  BY <3>1, <3>2 DEF NodeInv
  <2> QED  BY <2>1, <2>2, <2>3
<1> QED  BY <1>2, <1>3, <1>4 DEF StartupInv

LEMMA StepsOfTasks ==
  ASSUME StartupInv, NEW t \in TaskNames, TaskStep(t) \/ TaskFails(t)
  PROVE  StartupInv'
<1>1. PICK s \in {"on", "stopped", "failed"} : SetTask(t, s)
  BY DEF TaskStep, TaskStarts, TaskStops, TaskFails
<1>2. tasks[t] # "off"
  BY DEF TaskStep, TaskStarts, TaskStops, TaskFails
<1>3. failures' \in 0 .. MaxFailures
  <2>1. CASE UNCHANGED failures
    BY <2>1 DEF StartupInv, TypeOK
  <2>2. CASE Failure
    BY <2>2, FailureBounded
  <2> QED  BY <2>1, <2>2 DEF TaskStep, TaskStarts, TaskStops, TaskFails
<1>4. /\ tasks' \in [TaskNames -> {"off", "starting", "on", "stopped", "failed"}]
      /\ tasks'["grpc"] # "off" <=> tasks["grpc"] # "off"
  BY <1>1, <1>2 DEF SetTask, StartupInv, TypeOK, TaskNames
<1>5. UNCHANGED <<phase, attempts, initialised, ready, changes, chosen>> /\ UNCHANGED fileVars
      /\ UNCHANGED nodeVars
  BY <1>1 DEF SetTask
<1>6. TypeOK'
  BY <1>3, <1>4, <1>5 DEF StartupInv, TypeOK
<1>7. FilesInv' /\ MeshComesLastOnce'
  BY <1>5, FilesStay
<1>8. NodeInv'
  BY <1>5, NodeStays
<1> QED  BY <1>6, <1>7, <1>8 DEF StartupInv

(* The process ends in one of several ways, or takes a signal into account. *)
LEMMA StepsOfMain ==
  ASSUME StartupInv, AgentEnds \/ MainEnds \/ PutConflict \/ Signal \/ Fail \/ Reboot
  PROVE  StartupInv'
<1>1. CASE MainEnds \/ PutConflict
  <2>1. failures' \in 0 .. MaxFailures
    BY <1>1 DEF MainEnds, PutConflict, StartupInv, TypeOK
  <2> QED  BY <1>1, <2>1, Ending DEF MainEnds, PutConflict
<1>2. CASE Fail \/ Reboot
  <2>1. Failure /\ End
    BY <1>2 DEF Fail, Reboot
  <2> QED  BY <2>1, FailureBounded, Ending
<1>3. CASE AgentEnds \/ Signal
  <2>1. /\ UNCHANGED <<attempts, chosen, initialised, tasks, ready, changes>>
        /\ UNCHANGED fileVars /\ UNCHANGED nodeVars
        /\ phase' = phase \/ (phase = "wait" /\ phase' = "ended")
    BY <1>3 DEF AgentEnds, Signal, GoTo
  <2>2. failures' \in 0 .. MaxFailures
    <3>1. CASE UNCHANGED failures
      BY <3>1 DEF StartupInv, TypeOK
    <3>2. CASE Failure
      BY <3>2, FailureBounded
    <3> QED  BY <1>3, <3>1, <3>2 DEF AgentEnds, Signal
  <2>3. TypeOK'
    BY <2>1, <2>2 DEF StartupInv, TypeOK, Phases
  <2>4. FilesInv' /\ MeshComesLastOnce'
    BY <2>1, FilesStay
  <2>5. NodeInv'
    BY <2>1, NodeStays
  <2> QED  BY <2>3, <2>4, <2>5 DEF StartupInv
<1> QED  BY <1>1, <1>2, <1>3

-----------------------------------------------------------------------------
LEMMA StartupNext == StartupInv /\ [Next]_vars => StartupInv'
<1> SUFFICES ASSUME StartupInv, [Next]_vars PROVE StartupInv'
  OBVIOUS
<1>1. CASE UNCHANGED vars
  BY <1>1 DEF vars, fileVars, nodeVars, StartupInv, TypeOK, FilesInv, MeshComesLastOnce, NodeInv
<1>2. CASE (\E f \in Files : WriteOther(f)) \/ ChangeTaints
  BY <1>2, StepsOfOthers
<1>3. CASE Start \/ FindConf \/ DefaultConf \/ LookAgain \/ NoConf \/ OpenConf \/ WriteConf
  BY <1>3, StepsOfConf
<1>4. CASE InitBpf \/ StoresReady \/ SpawnTasks \/ GetNode \/ PutNode \/ Announce
  BY <1>4, StepsOfAgent
<1>5. CASE AgentEnds \/ MainEnds \/ PutConflict \/ Signal \/ Fail \/ Reboot
  BY <1>5, StepsOfMain
<1>6. CASE \E t \in TaskNames : TaskStep(t) \/ TaskFails(t)
  BY <1>6, StepsOfTasks
<1> QED  BY <1>1, <1>2, <1>3, <1>4, <1>5, <1>6 DEF Next, AgentStep

(***************************************************************************)
(* The invariant, of which TypeOK is a part: an agent that is ready went   *)
(* through every step of its start (agent.rs:26-125, main.rs:21-60).       *)
(***************************************************************************)
THEOREM StartupCorrect == Spec => []StartupInv
<1>1. Spec => []StartupInv
  BY StartupInit, StartupNext, PTL DEF Spec
<1> QED  BY <1>1

(***************************************************************************)
(* However often the agent is started, killed or left half done, the file  *)
(* of a chained agent, when whole, runs mesh-cni once, and last            *)
(* (cni.rs:74-80).                                                         *)
(***************************************************************************)
THEOREM MeshAlwaysLastOnce == Spec => []MeshComesLastOnce
<1>1. StartupInv => MeshComesLastOnce
  BY DEF StartupInv
<1> QED  BY <1>1, StartupCorrect, PTL

(***************************************************************************)
(* A step of the agent that changes its Node is PutNode, of an agent whose *)
(* programs are loaded and whose configuration is written; the versions    *)
(* being equal, it puts back the taints that are there now, but for the    *)
(* startup taint and that of Cilium (node.rs:6-18).                        *)
(***************************************************************************)
THEOREM TaintAlwaysLast == Spec => TaintGoesLast
<1> DEFINE TaintStep ==
      node' # node /\ UNCHANGED changes =>
        /\ initialised /\ meshConf # None /\ meshConf.whole
        /\ ~node'.startup /\ node'.taints = node.taints \ {CiliumTaint}
<1>1. StartupInv /\ [Next]_vars => [TaintStep]_vars
  <2> SUFFICES ASSUME StartupInv, Next, node' # node, UNCHANGED changes PROVE TaintStep
    BY DEF vars, nodeVars
  <2>1. ~ChangeTaints
    <3> SUFFICES ASSUME ChangeTaints PROVE FALSE
      OBVIOUS
    <3>1. changes \in 0 .. MaxChanges /\ MaxChanges \in Nat
      BY Bounds DEF StartupInv, TypeOK
    <3>2. changes' = changes + 1 /\ changes' = changes
      BY DEF ChangeTaints, Change
    <3> QED  BY <3>1, <3>2
  <2>2. ~UNCHANGED node
    OBVIOUS
  <2>3. PutNode
    BY <2>1, <2>2 DEF Next, AgentStep, WriteOther, Start, FindConf, DefaultConf, LookAgain, NoConf,
       OpenConf, WriteConf, InitBpf, StoresReady, SpawnTasks, GetNode, PutConflict, Announce, AgentEnds,
       MainEnds, Signal, Fail, Reboot, End, TaskStep, TaskStarts, TaskStops, TaskFails, SetTask,
       nodeVars
  <2>4. phase = "put node" /\ node' = Untainted(seen) /\ seen.version = node.version
    BY <2>3 DEF PutNode
  <2>5. initialised /\ meshConf # None /\ meshConf.whole
    BY <2>4 DEF StartupInv, TypeOK, FilesInv
  <2>6. seen = node /\ seen \in Nodes
    BY <2>4 DEF StartupInv, NodeInv
  <2>7. ~node'.startup /\ node'.taints = node.taints \ {CiliumTaint}
    BY <2>4, <2>6 DEF Untainted, Nodes
  <2> QED  BY <2>5, <2>7
<1> QED  BY <1>1, StartupCorrect, PTL DEF Spec, TaintGoesLast
=============================================================================
