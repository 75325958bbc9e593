-------------------------- MODULE CniPlugin_proofs --------------------------
(***************************************************************************)
(* For any maps, any pods, any containers and any number of crashes and    *)
(* reboots: an agent that serves has complete pins of one load, a pod that *)
(* was added stays attached, and what the plugin answers with success is   *)
(* so.  PinsInv is the inductive invariant of the agent; its steps turn on *)
(* the second and third part of it, the calls on the last.  PluginInv is   *)
(* that of the processes of the plugin.                                    *)
(***************************************************************************)
EXTENDS CniPlugin, SequenceTheorems, TLAPS

(* The names of pins are what they seem to be: all different.              *)
LEMMA FileNames ==
  /\ Connect4 \in AgentFiles /\ Ingress \in AgentFiles /\ Link \in AgentFiles
  /\ Connect4 # Ingress /\ Connect4 # Link /\ Ingress # Link
  /\ Connect4 \notin Maps /\ Ingress \notin Maps /\ Link \notin Maps
  /\ ServiceFiles \intersect PolicyFiles = {}
  /\ AgentFiles \intersect PodLinks = {}
  /\ AgentFiles \subseteq Files /\ PodLinks \subseteq Files
  /\ ServiceFiles # {} /\ PolicyFiles # {}
<1>1. Connect4 # Ingress /\ Connect4 # Link /\ Ingress # Link
  BY DEF Connect4, Ingress, Link
<1>2. Connect4 \notin Maps /\ Ingress \notin Maps /\ Link \notin Maps
  BY DEF Connect4, Ingress, Link, Maps, ServiceFiles, PolicyFiles
<1>3. ServiceFiles \intersect PolicyFiles = {} /\ ServiceFiles # {} /\ PolicyFiles # {}
  <2>1. \A f \in ServiceFiles : f \notin PolicyFiles
    BY MapLists DEF ServiceFiles, PolicyFiles
  <2>2. PICK m \in ServiceMaps, n \in PolicyMaps : TRUE
    BY MapLists
  <2>3. <<"maps", m>> \in ServiceFiles /\ <<"maps", n>> \in PolicyFiles
    BY <2>2 DEF ServiceFiles, PolicyFiles
  <2> QED  BY <2>1, <2>3
<1>4. AgentFiles \intersect PodLinks = {}
  BY LinksAreNoAgentFiles
     DEF AgentFiles, PodLinks, Maps, ServiceFiles, PolicyFiles, Connect4, Ingress, Link
<1> QED  BY <1>1, <1>2, <1>3, <1>4 DEF AgentFiles, Files

(* The two links of an interface are different pins, and not those of      *)
(* another.                                                                *)
LEMMA LinkNames ==
  ASSUME NEW i \in Ifaces, NEW d \in Dirs, NEW j \in Ifaces, NEW e \in Dirs
  PROVE  /\ <<i, d>> \in PodLinks /\ <<i, d>> \in Files /\ <<i, d>> \notin AgentFiles
         /\ <<i, d>> = <<j, e>> <=> i = j /\ d = e
BY FileNames DEF PodLinks, Files

LEMMA PinsInvInit == Init => PinsInv
<1> SUFFICES ASSUME Init PROVE PinsInv  OBVIOUS
<1>1. TypeOK
  BY FailuresBounded DEF Init, TypeOK, NoPins, NoCalls, Steps, Calls
<1>2. ~PinsExist
  BY FileNames DEF Init, PinsExist, NoPins, Files
<1>3. PinnedSoFar
  BY <1>2 DEF Init, PinnedSoFar
<1>4. CompleteIsOneLoad /\ PodsOfCalls
  BY <1>2 DEF Init, CompleteIsOneLoad, PodsOfCalls, NoCalls
<1> QED  BY <1>1, <1>3, <1>4 DEF PinsInv

-----------------------------------------------------------------------------
(* Zero, no pin, counts among the loads.                                   *)
LEMMA LoadRange == TypeOK => 0 \in 0 .. load /\ load \in 0 .. load
BY FailuresBounded DEF TypeOK

(* What a pin or its removal makes of the function of pins.                *)
LEMMA PinFacts ==
  ASSUME TypeOK, NEW f \in Files
  PROVE  /\ Pin(f) => /\ pins' \in [Files -> 0 .. load] /\ pins'[f] = load
                      /\ \A g \in Files \ {f} : pins'[g] = pins[g]
         /\ Unpin(f) => /\ pins' \in [Files -> 0 .. load] /\ pins'[f] = 0
                        /\ \A g \in Files \ {f} : pins'[g] = pins[g]
<1>1. load \in 0 .. load /\ 0 \in 0 .. load
  BY LoadRange
<1>2. pins \in [Files -> 0 .. load]
  BY DEF TypeOK
<1> QED  BY <1>1, <1>2 DEF Pin, Unpin

(* While a load goes on nothing is complete.                               *)
LEMMA LoadingIsIncomplete ==
  ASSUME PinsInv
  PROVE  step \in Steps \ {"down", "ready"} => ~PinsExist /\ added = {}
<1>1. ASSUME step = "load" PROVE ~PinsExist
  BY <1>1, FileNames DEF PinsInv, PinnedSoFar, PinsExist, NoPins
<1>2. ASSUME step \in {"connect4", "service maps", "ingress"} PROVE ~PinsExist
  BY <1>2, FileNames DEF PinsInv, PinnedSoFar, PinsExist
<1>3. ASSUME step = "policy maps" PROVE ~PinsExist
  BY <1>3 DEF PinsInv, PinnedSoFar, PinsExist, Maps
<1> QED  BY <1>1, <1>2, <1>3 DEF PinsInv, PinnedSoFar, PodsOfCalls, Steps

(* Without a call and an added pod there is nothing to say about pods.     *)
LEMMA NoPods ==
  ASSUME call' = NoCalls, added' = {}
  PROVE  PodsOfCalls'
BY DEF PodsOfCalls, NoCalls

LEMMA StepsOfInitBpf ==
  ASSUME PinsInv, InitBpf
  PROVE  PinsInv'
<1> USE FileNames DEF PinsInv
<1>1. CASE Start
  <2>1. TypeOK' /\ pins' = pins /\ call' = call /\ added' = added
    BY <1>1 DEF Start, TypeOK, Steps
  <2>2. PinnedSoFar' /\ CompleteIsOneLoad'
    BY <1>1, <2>1 DEF Start, PinnedSoFar, CompleteIsOneLoad, PinsExist
  <2> QED  BY <2>1, <2>2 DEF PodsOfCalls, PinsExist
<1>2. CASE RemovePin
  <2>1. PICK f \in Files : pins[f] # 0 /\ Unpin(f)
    BY <1>2 DEF RemovePin
  <2>2. TypeOK'
    BY <1>2, <2>1, PinFacts DEF RemovePin, TypeOK
  <2>3. \A g \in Files : pins'[g] \in {0, pins[g]}
    BY <2>1, PinFacts
  <2>4. ~PinsExist /\ added = {}
    BY <1>2, LoadingIsIncomplete DEF RemovePin, Steps
  <2>5. ~PinsExist'
    BY <2>3, <2>4 DEF PinsExist, AgentFiles
  <2>6. call' = NoCalls /\ added' = {}
    BY <1>2, <2>4 DEF RemovePin, TypeOK
  <2> QED  BY <1>2, <2>2, <2>5, <2>6, NoPods DEF RemovePin, PinnedSoFar, CompleteIsOneLoad
<1>3. CASE ResetDone
  <2>1. TypeOK'
    <3>1. load <= failures /\ load \in Nat /\ failures \in Nat
      BY <1>3, FailuresBounded DEF ResetDone, TypeOK, PinnedSoFar
    <3>2. load' \in 0 .. failures' + 1
      BY <1>3, <3>1 DEF ResetDone
    <3>3. pins' \in [Files -> 0 .. load']
      BY <1>3, <3>1 DEF ResetDone, NoPins
    <3> QED  BY <1>3, <3>2, <3>3 DEF ResetDone, TypeOK, Steps
  <2>2. ~PinsExist' /\ pins' = NoPins /\ load' # 0
    BY <1>3, FailuresBounded DEF ResetDone, PinsExist, NoPins, TypeOK
  <2>3. call' = NoCalls /\ added' = {}
    BY <1>3, LoadingIsIncomplete DEF ResetDone, TypeOK, Steps
  <2> QED  BY <1>3, <2>1, <2>2, <2>3, NoPods DEF ResetDone, PinnedSoFar, CompleteIsOneLoad
<1>4. CASE PinConnectProgram
  <2>1. step = "load" /\ step' = "connect4" /\ Pin(Connect4) /\ pins = NoPins /\ load' = load
    BY <1>4 DEF PinConnectProgram, PinnedSoFar
  <2>2. TypeOK'
    BY <1>4, <2>1, PinFacts DEF PinConnectProgram, TypeOK, Steps
  <2>3. pins'[Connect4] = load /\ \A f \in Files \ {Connect4} : pins'[f] = 0
    BY <2>1, PinFacts DEF NoPins
  <2>4. load # 0
    BY <2>1 DEF PinnedSoFar
  <2>5. ~PinsExist'
    BY <2>3 DEF PinsExist
  <2>6. call' = NoCalls /\ added' = {}
    BY <1>4, LoadingIsIncomplete DEF PinConnectProgram, TypeOK, Steps
  <2> QED  BY <2>1, <2>2, <2>3, <2>4, <2>5, <2>6, NoPods DEF PinnedSoFar, CompleteIsOneLoad
<1>5. CASE PinConnectLink
  <2>1. step = "connect4" /\ step' = "service maps" /\ Pin(Link) /\ load' = load
    BY <1>5 DEF PinConnectLink
  <2>2. TypeOK'
    BY <1>5, <2>1, PinFacts DEF PinConnectLink, TypeOK, Steps
  <2>3. /\ pins'[Link] = load /\ pins'[Connect4] = load /\ load # 0
        /\ \A f \in AgentFiles \ {Connect4, Link} : pins'[f] = 0
    BY <2>1, PinFacts DEF PinnedSoFar
  <2>4. ~PinsExist' /\ \A f \in PolicyFiles \union {Ingress} : pins'[f] = 0
    BY <2>3 DEF PinsExist, AgentFiles, Maps
  <2>5. call' = NoCalls /\ added' = {}
    BY <1>5, LoadingIsIncomplete DEF PinConnectLink, TypeOK, Steps
  <2> QED  BY <2>1, <2>2, <2>3, <2>4, <2>5, NoPods DEF PinnedSoFar, CompleteIsOneLoad
<1>6. CASE PinServiceMap
  <2>1. step = "service maps" /\ load' = load /\ step' \in {"service maps", "ingress"}
    BY <1>6 DEF PinServiceMap, PinMapOf
  <2>2. PICK m \in ServiceFiles : pins[m] = 0 /\ Pin(m)
    BY <1>6 DEF PinServiceMap, PinMapOf
  <2>3. m \in AgentFiles /\ m \in Files /\ m \notin {Connect4, Link, Ingress}
    BY <2>2 DEF AgentFiles, Maps
  <2>4. pins'[m] = load /\ \A f \in Files \ {m} : pins'[f] = pins[f]
    BY <2>2, <2>3, PinFacts
  <2>5. TypeOK'
    BY <1>6, <2>1, <2>2, <2>3, PinFacts DEF PinServiceMap, PinMapOf, TypeOK, Steps
  <2>6. /\ pins'[Link] = load /\ pins'[Connect4] = load /\ load # 0
        /\ \A f \in AgentFiles : pins'[f] \in {0, load}
        /\ \A f \in PolicyFiles \union {Ingress} : pins'[f] = 0
    BY <2>1, <2>2, <2>3, <2>4 DEF PinnedSoFar, AgentFiles, Maps
  <2>7. step' = "ingress" => \A f \in ServiceFiles : pins'[f] = load
    BY <1>6, <2>1, <2>6 DEF PinServiceMap, PinMapOf, AgentFiles, Maps
  <2>8. ~PinsExist'
    BY <2>6 DEF PinsExist
  <2>9. call' = NoCalls /\ added' = {}
    BY <1>6, <2>1, LoadingIsIncomplete DEF PinServiceMap, PinMapOf, TypeOK, Steps
  <2> QED  BY <2>1, <2>5, <2>6, <2>7, <2>8, <2>9, NoPods DEF PinnedSoFar, CompleteIsOneLoad
<1>7. CASE PinIngress
  <2>1. step = "ingress" /\ step' = "policy maps" /\ load' = load /\ Pin(Ingress)
    BY <1>7 DEF PinIngress, PinnedSoFar, Pin
  <2>2. pins'[Ingress] = load /\ \A f \in Files \ {Ingress} : pins'[f] = pins[f]
    BY <2>1, PinFacts
  <2>3. TypeOK'
    BY <1>7, <2>1, PinFacts DEF PinIngress, TypeOK, Steps
  <2>4. /\ pins'[Link] = load /\ pins'[Connect4] = load /\ load # 0
        /\ \A f \in AgentFiles : pins'[f] \in {0, load}
        /\ \A f \in ServiceFiles : pins'[f] = load
    BY <2>1, <2>2 DEF PinnedSoFar, AgentFiles, Maps
  <2>5. \E f \in PolicyFiles : pins'[f] = 0
    <3>1. PICK f \in PolicyFiles : pins[f] = 0
      BY <2>1 DEF PinnedSoFar
    <3> QED  BY <2>2, <3>1 DEF AgentFiles, Maps
  <2>6. call' = NoCalls /\ added' = {}
    BY <1>7, <2>1, LoadingIsIncomplete DEF PinIngress, TypeOK, Steps
  <2>7. ~PinsExist'
    BY <2>5 DEF PinsExist, Maps
  <2> QED  BY <2>1, <2>2, <2>3, <2>4, <2>5, <2>6, <2>7, NoPods DEF PinnedSoFar, CompleteIsOneLoad
<1>8. CASE PinPolicyMap
  <2>1. step = "policy maps" /\ load' = load /\ step' \in {"policy maps", "ready"}
    BY <1>8 DEF PinPolicyMap, PinMapOf
  <2>2. PICK m \in PolicyFiles : pins[m] = 0 /\ Pin(m)
    BY <1>8 DEF PinPolicyMap, PinMapOf
  <2>3. /\ m \in AgentFiles /\ m \in Files
        /\ m \notin {Connect4, Link, Ingress} /\ m \notin ServiceFiles
    BY <2>2 DEF AgentFiles, Maps
  <2>4. pins'[m] = load /\ \A f \in Files \ {m} : pins'[f] = pins[f]
    BY <2>2, <2>3, PinFacts
  <2>5. call' = NoCalls /\ added' = {}
    BY <1>8, <2>1, LoadingIsIncomplete DEF PinPolicyMap, PinMapOf, TypeOK, Steps
  <2>6. TypeOK'
    BY <1>8, <2>1, <2>2, <2>3, <2>5, PinFacts DEF PinPolicyMap, PinMapOf, TypeOK, Steps
  <2>7. /\ pins'[Link] = load /\ pins'[Connect4] = load /\ pins'[Ingress] = load /\ load # 0
        /\ \A f \in AgentFiles : pins'[f] \in {0, load}
        /\ \A f \in ServiceFiles : pins'[f] = load
    BY <2>1, <2>2, <2>3, <2>4 DEF PinnedSoFar, AgentFiles, Maps
  <2>8. CASE step' = "policy maps"
    <3>1. \E f \in PolicyFiles : pins'[f] = 0
      BY <1>8, <2>8 DEF PinPolicyMap, PinMapOf
    <3>2. ~PinsExist'
      BY <3>1 DEF PinsExist, Maps
    <3> QED  BY <2>1, <2>5, <2>6, <2>7, <2>8, <3>1, <3>2, NoPods DEF PinnedSoFar, CompleteIsOneLoad
  <2>9. CASE step' = "ready"
    <3>1. \A f \in PolicyFiles : pins'[f] = load
      BY <1>8, <2>7, <2>9 DEF PinPolicyMap, PinMapOf, AgentFiles, Maps
    <3>2. \A f \in AgentFiles : pins'[f] = load
      BY <2>7, <3>1 DEF AgentFiles, Maps
    <3>3. PinsExist' /\ CompleteIsOneLoad'
      BY <2>7, <3>2 DEF PinsExist, CompleteIsOneLoad, AgentFiles
    <3> QED  BY <2>5, <2>6, <2>7, <2>9, <3>3, NoPods DEF PinnedSoFar
  <2> QED  BY <2>1, <2>8, <2>9
<1> QED  BY <1>1, <1>2, <1>3, <1>4, <1>5, <1>6, <1>7, <1>8 DEF InitBpf

-----------------------------------------------------------------------------
(* A crash keeps the pins, a reboot keeps neither pins nor pods.           *)
LEMMA StepsOfFailures ==
  ASSUME PinsInv, Crash \/ Reboot
  PROVE  PinsInv'
<1> USE FileNames DEF PinsInv
<1>1. /\ step' = "down" /\ load' = load /\ call' = NoCalls
      /\ load <= failures' /\ failures' \in 0 .. MaxFailures /\ load \in 0 .. failures' + 1
  BY FailuresBounded DEF Crash, Reboot, Fail, TypeOK
<1>2. CASE Crash
  <2>1. pins' = pins /\ added' = added
    BY <1>2 DEF Crash
  <2>2. TypeOK'
    BY <1>1, <2>1 DEF TypeOK, Steps, NoCalls, Calls
  <2>3. PinnedSoFar' /\ CompleteIsOneLoad'
    BY <1>1, <2>1 DEF PinnedSoFar, CompleteIsOneLoad, PinsExist
  <2>4. PodsOfCalls'
    BY <1>1, <2>1 DEF PodsOfCalls, NoCalls, PinsExist
  <2> QED  BY <2>2, <2>3, <2>4
<1>3. CASE Reboot
  <2>1. pins' = NoPins /\ added' = {}
    BY <1>3 DEF Reboot
  <2>2. TypeOK'
    <3>1. 0 \in 0 .. load
      BY FailuresBounded DEF TypeOK
    <3> QED  BY <1>1, <2>1, <3>1 DEF TypeOK, Steps, NoCalls, NoPins, Calls
  <2>3. ~PinsExist'
    BY <2>1 DEF PinsExist, NoPins
  <2> QED  BY <1>1, <2>1, <2>2, <2>3, NoPods DEF PinnedSoFar, CompleteIsOneLoad
<1> QED  BY <1>2, <1>3

-----------------------------------------------------------------------------
(***************************************************************************)
(* A call runs while the agent serves: the pins of the agent stay as they  *)
(* are, and of the pods only the caller's links, call and history change.  *)
(***************************************************************************)
LEMMA CallsKeepTheRest ==
  ASSUME PinsInv, step = "ready",
         step' = step, load' = load, failures' = failures, TypeOK',
         \A f \in AgentFiles : pins'[f] = pins[f]
  PROVE  /\ PinnedSoFar' /\ CompleteIsOneLoad'
         /\ PinsExist' /\ pins'[Ingress] = pins[Ingress]
BY FileNames DEF PinsInv, PinnedSoFar, CompleteIsOneLoad, PinsExist, AgentFiles

(* Each call names its interface, and no other pod notices.                *)
LEMMA OtherPods ==
  ASSUME PinsInv, NEW i \in Ifaces,
         NEW c \in Calls, call' = [call EXCEPT ![i] = c],
         added' \subseteq added \union {i}, PinsExist', pins'[Ingress] = pins[Ingress],
         \A j \in Ifaces \ {i}, d \in Dirs : pins'[<<j, d>>] = pins[<<j, d>>],
         i \in added' => \A d \in Dirs : pins'[<<i, d>>] = pins[Ingress],
         c = "add egress" => pins'[<<i, "ingress">>] = pins[Ingress],
         c \notin {"none", "add ingress", "failed"} => i \notin added'
  PROVE  PodsOfCalls'
<1>1. call \in [Ifaces -> Calls] /\ added \subseteq Ifaces
  BY DEF PinsInv, TypeOK
<1>2. ASSUME NEW j \in added', NEW d \in Dirs PROVE pins'[<<j, d>>] = pins'[Ingress]
  <2>1. CASE j = i
    BY <2>1
  <2>2. CASE j # i
    BY <1>1, <2>2 DEF PinsInv, PodsOfCalls
  <2> QED  BY <2>1, <2>2
<1>3. ASSUME NEW j \in Ifaces
      PROVE  /\ call'[j] = "add egress" => pins'[<<j, "ingress">>] = pins'[Ingress]
             /\ call'[j] \notin {"none", "add ingress", "failed"} => j \notin added'
  BY <1>1 DEF PinsInv, PodsOfCalls, Dirs
<1> QED  BY <1>2, <1>3 DEF PodsOfCalls

(* A call that leaves the pins alone and does not promise to.              *)
LEMMA CallsWithoutPins ==
  ASSUME PinsInv, step = "ready", NEW i \in Ifaces, NEW c \in Calls,
         call' = [call EXCEPT ![i] = c], added' \subseteq added,
         UNCHANGED <<failures, step, load, pins>>, c # "add egress",
         c \notin {"none", "add ingress", "failed"} => i \notin added'
  PROVE  PinsInv'
<1>1. TypeOK'
  BY DEF PinsInv, TypeOK
<1>2. PinnedSoFar' /\ CompleteIsOneLoad' /\ PinsExist'
  BY <1>1, CallsKeepTheRest
<1>3. i \in added' => \A d \in Dirs : pins'[<<i, d>>] = pins[Ingress]
  BY DEF PinsInv, PodsOfCalls
<1>4. PodsOfCalls'
  BY <1>2, <1>3, OtherPods
<1> QED  BY <1>1, <1>2, <1>4 DEF PinsInv

(* A call that pins or unpins one link of an interface.                    *)
LEMMA CallsWithPins ==
  ASSUME PinsInv, step = "ready", NEW i \in Ifaces, NEW c \in Calls,
         NEW d \in Dirs, NEW n \in {0, pins[Ingress]},
         pins' = [pins EXCEPT ![<<i, d>>] = n], call' = [call EXCEPT ![i] = c],
         added' \subseteq added \union {i}, UNCHANGED <<failures, step, load>>,
         i \in added' => n = pins[Ingress] /\ \A e \in Dirs \ {d} : pins[<<i, e>>] = pins[Ingress],
         c = "add egress" => d = "ingress" /\ n = pins[Ingress],
         c \notin {"none", "add ingress", "failed"} => i \notin added'
  PROVE  PinsInv'
<1>1. /\ pins \in [Files -> 0 .. load] /\ 0 \in 0 .. load
      /\ Ingress \in Files /\ pins[Ingress] \in 0 .. load
  <2>1. Ingress \in Files
    BY FileNames
  <2>2. pins \in [Files -> 0 .. load]
    BY DEF PinsInv, TypeOK
  <2>3. 0 \in 0 .. load
    BY LoadRange DEF PinsInv
  <2> QED  BY <2>1, <2>2, <2>3
<1>2. <<i, d>> \in Files /\ <<i, d>> \notin AgentFiles
  BY LinkNames
<1>3. \A j \in Ifaces, e \in Dirs : <<j, e>> \in Files /\ (<<j, e>> = <<i, d>> => j = i /\ e = d)
  BY LinkNames
<1>4. pins' \in [Files -> 0 .. load] /\ pins'[<<i, d>>] = n
  BY <1>1, <1>2
<1>5. \A f \in AgentFiles : pins'[f] = pins[f]
  BY <1>1, <1>2, FileNames
<1>6. /\ \A e \in Dirs \ {d} : pins'[<<i, e>>] = pins[<<i, e>>]
      /\ \A j \in Ifaces \ {i}, e \in Dirs : pins'[<<j, e>>] = pins[<<j, e>>]
  BY <1>1, <1>2, <1>3
<1>7. TypeOK'
  BY <1>4 DEF PinsInv, TypeOK
<1>8. PinnedSoFar' /\ CompleteIsOneLoad' /\ PinsExist' /\ pins'[Ingress] = pins[Ingress]
  BY <1>5, <1>7, CallsKeepTheRest
<1>9. PodsOfCalls'
  BY <1>4, <1>6, <1>8, OtherPods
<1> QED  BY <1>7, <1>8, <1>9 DEF PinsInv

LEMMA StepsOfCalls ==
  ASSUME PinsInv, NEW i \in Ifaces, BeginAdd(i) \/ BeginDelete(i) \/ Call(i)
  PROVE  PinsInv'
<1>1. step = "ready"
  BY DEF PinsInv, BeginAdd, BeginDelete, Call, AddIngress, IngressFails, AddEgress, EgressFails,
         CleanIngress, CleanEgress, ReplyError, DeleteIngress, DeleteEgress, TypeOK, NoCalls
<1>2. pins[Ingress] # 0
  BY <1>1, FileNames DEF PinsInv, PinnedSoFar, PinsExist
<1>3. Dirs = {"ingress", "egress"} /\ "ingress" # "egress"
  BY DEF Dirs
<1>4. \A d \in Dirs : i \in added => pins[<<i, d>>] = pins[Ingress]
  BY DEF PinsInv, PodsOfCalls
<1>5. call[i] \notin {"none", "add ingress", "failed"} => i \notin added
  BY DEF PinsInv, PodsOfCalls
<1>6. CASE BeginAdd(i)
  BY <1>1, <1>6, CallsWithoutPins DEF BeginAdd, Calls
<1>7. CASE BeginDelete(i)
  BY <1>1, <1>7, CallsWithoutPins DEF BeginDelete, Calls
<1>8. CASE AddIngress(i)
  <2>1. i \notin added
    BY <1>2, <1>3, <1>4, <1>8 DEF AddIngress, Attach
  <2> QED  BY <1>1, <1>3, <1>8, <2>1, CallsWithPins DEF AddIngress, Attach, Calls
<1>9. CASE IngressFails(i)
  BY <1>1, <1>9, CallsWithoutPins DEF IngressFails, Calls
<1>10. CASE AddEgress(i)
  <2>1. pins[<<i, "ingress">>] = pins[Ingress]
    BY <1>10 DEF PinsInv, PodsOfCalls, AddEgress
  <2> QED  BY <1>1, <1>3, <1>10, <2>1, CallsWithPins DEF AddEgress, Attach, Calls
<1>11. CASE EgressFails(i)
  BY <1>1, <1>5, <1>11, CallsWithoutPins DEF EgressFails, Calls
<1>12. CASE CleanIngress(i)
  BY <1>1, <1>3, <1>5, <1>12, CallsWithPins DEF CleanIngress, Unpin, Calls
<1>13. CASE CleanEgress(i)
  BY <1>1, <1>3, <1>5, <1>13, CallsWithPins DEF CleanEgress, Unpin, Calls
<1>14. CASE ReplyError(i)
  BY <1>1, <1>14, CallsWithoutPins DEF ReplyError, Calls
<1>15. CASE DeleteIngress(i)
  BY <1>1, <1>3, <1>5, <1>15, CallsWithPins DEF DeleteIngress, Unpin, Calls
<1>16. CASE DeleteEgress(i)
  BY <1>1, <1>3, <1>5, <1>16, CallsWithPins DEF DeleteEgress, Unpin, Calls
<1> QED  BY <1>6, <1>7, <1>8, <1>9, <1>10, <1>11, <1>12, <1>13, <1>14, <1>15, <1>16 DEF Call

LEMMA NoStep ==
  ASSUME PinsInv, UNCHANGED vars
  PROVE  PinsInv'
BY DEF vars, PinsInv, TypeOK, PinnedSoFar, CompleteIsOneLoad, PodsOfCalls, PinsExist

-----------------------------------------------------------------------------
(* The inductive invariant: the pins of every step of init_bpf.            *)
THEOREM PinsCorrect == Spec => []PinsInv
<1>1. PinsInv /\ [Next]_vars => PinsInv'
  BY StepsOfInitBpf, StepsOfFailures, StepsOfCalls, NoStep DEF Next
<1> QED  BY PinsInvInit, <1>1, PTL DEF Spec

(* Every step of the loader and every call leaves what is its type.        *)
THEOREM PinsTypeCorrect == Spec => []TypeOK
<1>1. PinsInv => TypeOK
  BY DEF PinsInv
<1> QED  BY PinsCorrect, <1>1, PTL

(***************************************************************************)
(* Whatever crashed before, an agent that serves has all its pins, and of  *)
(* one load (loader.rs:25-29).                                             *)
(***************************************************************************)
THEOREM ServingAgentsHaveOneLoad == Spec => []AgentServesOneLoad
<1>1. PinsInv => AgentServesOneLoad
  BY DEF PinsInv, PinnedSoFar, CompleteIsOneLoad, AgentServesOneLoad
<1> QED  BY PinsCorrect, <1>1, PTL

LEMMA AddedIsAttached == PinsInv => AddedPodsStayAttached
<1> SUFFICES ASSUME PinsInv, NEW i \in added, NEW d \in Dirs
             PROVE  pins[<<i, d>>] # 0 /\ \A m \in Maps : pins[<<i, d>>] = pins[m]
  BY DEF AddedPodsStayAttached
<1>1. pins[<<i, d>>] = pins[Ingress] /\ PinsExist
  BY DEF PinsInv, PodsOfCalls
<1>2. pins[Ingress] # 0 /\ \A m \in Maps : pins[m] = pins[Ingress]
  BY <1>1, FileNames DEF PinsInv, CompleteIsOneLoad, PinsExist, AgentFiles
<1> QED  BY <1>1, <1>2

(***************************************************************************)
(* A pod that was added stays attached to programs that read the agent's   *)
(* maps, whatever crashes and whatever the runtime calls (cni.rs:38-61).   *)
(***************************************************************************)
THEOREM PodsStayAttached == Spec => []AddedPodsStayAttached
BY PinsCorrect, AddedIsAttached, PTL

-----------------------------------------------------------------------------
(***************************************************************************)
(* The plugin.  Its processes only use what the agent offers, so all of    *)
(* the above holds under PluginSpec, too.  What is left of a process's     *)
(* interfaces is a suffix of them, and its head one of them.               *)
(***************************************************************************)
LEMMA SuffixTail ==
  ASSUME NEW S, NEW s \in Seq(S), NEW t \in Seq(S), s # <<>>, IsSuffix(s, t)
  PROVE  /\ IsSuffix(Tail(s), t) /\ Tail(s) \in Seq(S)
         /\ \A n \in DOMAIN s : n = 1 \/ \E m \in DOMAIN Tail(s) : Tail(s)[m] = s[n]
<1>1. PICK n \in 0 .. Len(t) : s = SubSeq(t, n + 1, Len(t))
  BY DEF IsSuffix
<1>2. Len(s) = Len(t) - n /\ Len(t) \in Nat /\ Len(s) # 0 /\ n + 1 \in 0 .. Len(t)
  BY <1>1
<1>3. /\ Tail(s) \in Seq(S) /\ Len(Tail(s)) = Len(s) - 1
      /\ \A m \in 1 .. Len(Tail(s)) : Tail(s)[m] = s[m + 1]
  BY HeadTailProperties
<1>4. \A m \in 1 .. Len(s) - 1 : Tail(s)[m] = s[m + 1]
  BY <1>3
<1>5. n + 1 \in 1 .. Len(t) /\ Len(t) \in n + 1 .. Len(t)
  BY <1>2
<1>6. IsSuffix(Tail(s), t)
  <2>1. Tail(s) = SubSeq(t, (n + 1) + 1, Len(t))
    BY <1>1, <1>5, HeadTailOfSubSeq
  <2> QED  BY <1>2, <2>1 DEF IsSuffix
<1>7. ASSUME NEW m \in DOMAIN s, m # 1
      PROVE  \E k \in DOMAIN Tail(s) : Tail(s)[k] = s[m]
  <2>1. m \in 2 .. Len(s) /\ DOMAIN Tail(s) = 1 .. Len(s) - 1
    BY <1>2, <1>3, <1>7
  <2>2. m - 1 \in 1 .. Len(s) - 1 /\ (m - 1) + 1 = m
    BY <1>2, <2>1
  <2> QED  BY <1>4, <2>1, <2>2
<1> QED  BY <1>3, <1>6, <1>7

LEMMA WholeIsSuffix ==
  ASSUME NEW S, NEW t \in Seq(S)
  PROVE  IsSuffix(t, t)
<1>1. 0 \in 0 .. Len(t) /\ SubSeq(t, 0 + 1, Len(t)) = t
  OBVIOUS
<1> QED  BY <1>1 DEF IsSuffix

LEMMA TargetsAreInterfaces ==
  ASSUME NEW c \in Containers
  PROVE  Targets(c) \in Seq(Ifaces)
<1>1. CASE c \in Chained
  <2> DEFINE s == Host(Previous[c])
  <2>1. s \in Seq(Interfaces)
    BY <1>1, PreviousResults
  <2> HIDE DEF s
  <2>2. /\ Len(s) \in Nat /\ DOMAIN s = 1 .. Len(s)
        /\ \A n \in 1 .. Len(s) : s[n].name \in Ifaces
    <3>1. \A n \in 1 .. Len(s) : s[n] \in Interfaces
      BY <2>1
    <3> QED  BY <2>1, <3>1 DEF Interfaces
  <2>3. Names(s) \in [1 .. Len(s) -> Ifaces]
    BY <2>2 DEF Names
  <2>4. Names(s) \in Seq(Ifaces)
    BY <2>2, <2>3
  <2> QED  BY <1>1, <2>4 DEF Targets, s
<1>2. CASE c \notin Chained
  BY <1>2, IfNameIsHosts DEF Targets
<1> QED  BY <1>1, <1>2

(* What a container uses, and what is left of it.                          *)
LEMMA ProcessFacts ==
  ASSUME PluginInv, NEW c \in Containers
  PROVE  /\ proc[c] \in [command : Commands \union {"none"}, todo : Seq(Ifaces), asked : BOOLEAN]
         /\ proc[c].todo \in Seq(Ifaces) /\ proc[c].asked \in BOOLEAN
         /\ proc[c].command \in Commands \union {"none"}
         /\ Targets(c) \in Seq(Ifaces) /\ Uses(c) \subseteq Ifaces
         /\ proc[c].command # "none" => Left(c) \subseteq Uses(c)
         /\ proc[c].todo # <<>> => /\ Head(proc[c].todo) \in Left(c)
                                   /\ Head(proc[c].todo) \in Ifaces
         /\ proc[c].asked => /\ proc[c].command \in Commands /\ proc[c].todo # <<>>
                             /\ Head(proc[c].todo) \in Uses(c)
<1>1. /\ proc[c] \in [command : Commands \union {"none"}, todo : Seq(Ifaces), asked : BOOLEAN]
      /\ ProcessIsAtWork(c)
  BY DEF PluginInv, PluginTypeOK
<1>2. /\ proc[c].todo \in Seq(Ifaces) /\ proc[c].asked \in BOOLEAN
      /\ proc[c].command \in Commands \union {"none"}
  BY <1>1
<1>3. Targets(c) \in Seq(Ifaces) /\ Uses(c) \subseteq Ifaces
  <2>1. Targets(c) \in Seq(Ifaces)
    BY TargetsAreInterfaces
  <2> QED  BY <2>1 DEF Uses
<1>4. ASSUME proc[c].command # "none" PROVE Left(c) \subseteq Uses(c)
  <2> DEFINE s == proc[c].todo
             t == Targets(c)
  <2>1. s \in Seq(Ifaces) /\ t \in Seq(Ifaces) /\ IsSuffix(s, t)
    BY <1>1, <1>2, <1>3, <1>4 DEF ProcessIsAtWork
  <2> HIDE DEF s, t
  <2>2. \A n \in DOMAIN s : \E m \in DOMAIN t : s[n] = t[m]
    <3>1. PICK k \in 0 .. Len(t) : s = SubSeq(t, k + 1, Len(t))
      BY <2>1 DEF IsSuffix
    <3>2. Len(t) \in Nat /\ DOMAIN s = 1 .. Len(t) - k /\ DOMAIN t = 1 .. Len(t)
      BY <2>1, <3>1
    <3>3. \A n \in 1 .. Len(t) - k : s[n] = t[k + n] /\ k + n \in 1 .. Len(t)
      BY <2>1, <3>1, <3>2
    <3> QED  BY <3>2, <3>3
  <2> QED  BY <2>2 DEF Left, Uses, s, t
<1>5. ASSUME proc[c].todo # <<>>
      PROVE  Head(proc[c].todo) \in Left(c) /\ Head(proc[c].todo) \in Ifaces
  <2>1. 1 \in DOMAIN proc[c].todo /\ Head(proc[c].todo) = proc[c].todo[1]
    BY <1>2, <1>5
  <2> QED  BY <1>2, <2>1 DEF Left
<1>6. proc[c].asked => proc[c].todo # <<>> /\ proc[c].command # "none"
  BY <1>1 DEF ProcessIsAtWork, Idle
<1> QED  BY <1>1, <1>2, <1>3, <1>4, <1>5, <1>6

-----------------------------------------------------------------------------
(* A process that does not step keeps what it relies on, if its call stays *)
(* as it is and no interface of its container gets lost or a link.         *)
LEMMA Bystander ==
  ASSUME PluginInv, NEW c \in Containers, UNCHANGED <<proc[c], answer[c]>>,
         \A i \in Uses(c) : /\ i \in added => i \in added'
                           /\ \A d \in Dirs : pins[<<i, d>>] = 0 => pins'[<<i, d>>] = 0,
         proc[c].asked => /\ step' = step
                          /\ call'[Head(proc[c].todo)] = call[Head(proc[c].todo)]
  PROVE  ProcessIsAtWork(c)' /\ WorkIsDone(c)'
<1>1. /\ ProcessIsAtWork(c) /\ WorkIsDone(c)
      /\ proc[c].command # "none" => Left(c) \subseteq Uses(c)
      /\ proc[c].asked => Head(proc[c].todo) \in Uses(c)
  BY ProcessFacts DEF PluginInv
<1>2. \A i \in Uses(c), k \in {"ADD", "DEL", proc[c].command, answer[c][1]} :
        DoneBy(k, i) => DoneBy(k, i)'
  BY DEF DoneBy, Detached
<1>3. Left(c)' = Left(c)
  BY DEF Left
<1>4. WorkIsDone(c)'
  BY <1>1, <1>2, <1>3 DEF WorkIsDone
<1>5. ASSUME proc[c].asked PROVE CallOfCommand(c, Head(proc[c].todo))'
  <2> DEFINE i == Head(proc[c].todo)
  <2>1. CallOfCommand(c, i) /\ i \in Uses(c)
    BY <1>1, <1>5 DEF ProcessIsAtWork
  <2>2. call'[i] = call[i] /\ i' = i
    BY <1>5
  <2>3. pins[<<i, "ingress">>] = 0 => pins'[<<i, "ingress">>] = 0
    BY <2>1 DEF Dirs
  <2>4. DoneBy(proc[c].command, i) => DoneBy(proc[c].command, i)'
    BY <1>2, <2>1
  <2> HIDE DEF i
  <2>5. CallOfCommand(c, i)'
    BY <2>1, <2>2, <2>3, <2>4 DEF CallOfCommand, CallsBy
  <2> QED  BY <2>5 DEF i
<1>6. ProcessIsAtWork(c)'
  <2>1. (proc[c].asked => proc[c].todo # <<>> /\ step = "ready")'
    BY <1>1 DEF ProcessIsAtWork
  <2>2. /\ (proc[c].command = "none" => proc[c] = Idle)'
        /\ (proc[c].command # "none" => IsSuffix(proc[c].todo, Targets(c)) /\ answer[c] = NoAnswer)'
    BY <1>1 DEF ProcessIsAtWork
  <2> QED  BY <1>5, <2>1, <2>2 DEF ProcessIsAtWork
<1> QED  BY <1>4, <1>6

(* A process that ends without an answer of success promises nothing.      *)
LEMMA Ending ==
  ASSUME NEW c \in Containers, proc'[c] = Idle, answer'[c][2] # "success"
  PROVE  ProcessIsAtWork(c)' /\ WorkIsDone(c)'
BY DEF ProcessIsAtWork, WorkIsDone, Idle

(* The types of a process and of an answer that change.                    *)
LEMMA PluginTypes ==
  ASSUME PluginTypeOK, NEW c \in Containers,
         NEW p \in [command : Commands \union {"none"}, todo : Seq(Ifaces), asked : BOOLEAN],
         NEW a \in (Commands \X {"success", "error"}) \union {NoAnswer},
         proc' = [proc EXCEPT ![c] = p], answer' = [answer EXCEPT ![c] = a]
  PROVE  /\ PluginTypeOK' /\ proc'[c] = p /\ answer'[c] = a
         /\ \A d \in Containers \ {c} : UNCHANGED <<proc[d], answer[d]>>
BY DEF PluginTypeOK

LEMMA PluginInvInit == PluginInit => PluginInv
<1> SUFFICES ASSUME PluginInit PROVE PluginInv  OBVIOUS
<1>1. PluginTypeOK
  BY DEF PluginInit, PluginTypeOK, Idle, NoAnswer
<1>2. CallsAwaited
  BY DEF PluginInit, Init, NoCalls, CallsAwaited
<1>3. ASSUME NEW c \in Containers PROVE ProcessIsAtWork(c) /\ WorkIsDone(c)
  <2>1. proc[c] = Idle /\ answer[c][2] # "success"
    BY <1>3 DEF PluginInit, NoAnswer
  <2> QED  BY <2>1 DEF ProcessIsAtWork, WorkIsDone, Idle
<1> QED  BY <1>1, <1>2, <1>3 DEF PluginInv

-----------------------------------------------------------------------------
(* What the agent does on its own takes links away and adds none.          *)
LEMMA LinksOfInitBpf ==
  ASSUME PinsInv, InitBpf
  PROVE  /\ step # "ready" /\ UNCHANGED <<call, added>>
         /\ \A i \in Ifaces, d \in Dirs : pins[<<i, d>>] = 0 => pins'[<<i, d>>] = 0
<1>1. step # "ready" /\ UNCHANGED <<call, added>>
  BY DEF InitBpf, Start, RemovePin, ResetDone, PinConnectProgram, PinConnectLink, PinServiceMap,
         PinIngress, PinPolicyMap, PinMapOf
<1>2. \/ pins' = pins
      \/ \E f \in Files : Unpin(f)
      \/ \E f \in AgentFiles, n \in Nat : pins' = [pins EXCEPT ![f] = n]
  <2>1. load \in Nat
    BY FailuresBounded DEF PinsInv, TypeOK
  <2>2. CASE Start \/ ResetDone \/ RemovePin
    BY <2>2 DEF Start, ResetDone, RemovePin
  <2>3. CASE PinConnectProgram \/ PinConnectLink
    BY <2>1, <2>3, FileNames DEF PinConnectProgram, PinConnectLink, Pin
  <2>4. CASE PinServiceMap \/ PinPolicyMap
    <3>1. PICK m \in ServiceFiles \union PolicyFiles : Pin(m)
      BY <2>4 DEF PinServiceMap, PinPolicyMap, PinMapOf
    <3> QED  BY <2>1, <3>1 DEF Pin, AgentFiles, Maps
  <2>5. CASE PinIngress
    BY <2>1, <2>5, FileNames DEF PinIngress, PinsInv, PinnedSoFar
  <2> QED  BY <2>2, <2>3, <2>4, <2>5 DEF InitBpf
<1>3. ASSUME NEW i \in Ifaces, NEW d \in Dirs, pins[<<i, d>>] = 0 PROVE pins'[<<i, d>>] = 0
  <2>1. <<i, d>> \in Files /\ <<i, d>> \notin AgentFiles /\ pins \in [Files -> 0 .. load]
    BY LinkNames DEF PinsInv, TypeOK
  <2> QED  BY <1>2, <1>3, <2>1 DEF Unpin
<1> QED  BY <1>1, <1>3

LEMMA PluginAndInitBpf ==
  ASSUME PinsInv, PluginInv, InitBpf, UNCHANGED pluginVars
  PROVE  PluginInv'
<1>1. PluginTypeOK' /\ CallsAwaited'
  BY LinksOfInitBpf DEF PluginInv, PluginTypeOK, CallsAwaited, Waits, pluginVars
<1>2. ASSUME NEW c \in Containers PROVE ProcessIsAtWork(c)' /\ WorkIsDone(c)'
  <2>1. /\ ~proc[c].asked
        /\ Uses(c) \subseteq Ifaces
    BY LinksOfInitBpf, ProcessFacts DEF PluginInv, ProcessIsAtWork
  <2> QED  BY <2>1, LinksOfInitBpf, Bystander DEF pluginVars
<1> QED  BY <1>1, <1>2 DEF PluginInv

(* A crash of the agent is an error to those that wait, and no more.       *)
LEMMA PluginAndFailures ==
  ASSUME PinsInv, PluginInv, AgentCrash \/ NodeReboot
  PROVE  PluginInv'
<1>1. call' = NoCalls
  BY DEF AgentCrash, NodeReboot, Crash, Reboot, Fail
<1>2. CallsAwaited'
  BY <1>1 DEF CallsAwaited, NoCalls
<1>3. CASE AgentCrash
  <2>1. PluginTypeOK'
    <3>1. ASSUME NEW c \in Containers, proc[c].asked
          PROVE  <<proc[c].command, "error">> \in Commands \X {"success", "error"}
      BY <3>1, ProcessFacts
    <3> QED  BY <1>3, <3>1 DEF AgentCrash, PluginInv, PluginTypeOK, Idle
  <2>2. ASSUME NEW c \in Containers PROVE ProcessIsAtWork(c)' /\ WorkIsDone(c)'
    <3>1. CASE proc[c].asked
      <4>1. proc'[c] = Idle /\ answer'[c][2] # "success"
        BY <1>3, <3>1 DEF AgentCrash
      <4> QED  BY <4>1, Ending
    <3>2. CASE ~proc[c].asked
      <4>1. UNCHANGED <<proc[c], answer[c], pins, added>>
        BY <1>3, <3>2 DEF AgentCrash, Crash
      <4> QED  BY <3>2, <4>1, Bystander
    <3> QED  BY <3>1, <3>2
  <2> QED  BY <1>2, <2>1, <2>2 DEF PluginInv
<1>4. CASE NodeReboot
  <2>1. PluginTypeOK'
    BY <1>4 DEF NodeReboot, PluginTypeOK, Idle, NoAnswer
  <2>2. ASSUME NEW c \in Containers PROVE ProcessIsAtWork(c)' /\ WorkIsDone(c)'
    <3>1. proc'[c] = Idle /\ answer'[c][2] # "success"
      BY <1>4 DEF NodeReboot, NoAnswer
    <3> QED  BY <3>1, Ending
  <2> QED  BY <1>2, <2>1, <2>2 DEF PluginInv
<1> QED  BY <1>3, <1>4

-----------------------------------------------------------------------------
(* A step of a process alone: the others are bystanders, and the calls     *)
(* that go on are awaited by them or were not by this one.                 *)
LEMMA StepOfProcess ==
  ASSUME PluginInv, NEW c \in Containers, UNCHANGED vars,
         NEW p \in [command : Commands \union {"none"}, todo : Seq(Ifaces), asked : BOOLEAN],
         NEW a \in (Commands \X {"success", "error"}) \union {NoAnswer},
         proc' = [proc EXCEPT ![c] = p], answer' = [answer EXCEPT ![c] = a],
         proc[c].asked => call[Head(proc[c].todo)] = "none",
         ProcessIsAtWork(c)', WorkIsDone(c)'
  PROVE  PluginInv'
<1>1. /\ PluginTypeOK' /\ UNCHANGED <<step, call, pins, added>>
      /\ \A d \in Containers \ {c} : UNCHANGED <<proc[d], answer[d]>>
  BY PluginTypes DEF PluginInv, vars
<1>2. \A d \in Containers \ {c} : ProcessIsAtWork(d)' /\ WorkIsDone(d)'
  BY <1>1, Bystander
<1>3. ASSUME NEW i \in Ifaces, call'[i] # "none" PROVE \E d \in Containers : Waits(d, i)'
  <2>1. PICK d \in Containers : Waits(d, i)
    BY <1>1, <1>3 DEF PluginInv, CallsAwaited
  <2>2. d # c
    BY <1>1, <1>3, <2>1 DEF Waits
  <2> QED  BY <1>1, <2>1, <2>2 DEF Waits
<1> QED  BY <1>1, <1>2, <1>3 DEF PluginInv, CallsAwaited

LEMMA PluginAndAnswers ==
  ASSUME PluginInv, NEW c \in Containers, Unreachable(c) \/ Done(c) \/ RejectInput(c)
  PROVE  PluginInv'
<1>1. PICK k \in Commands, r \in {"success", "error"} :
        /\ k = proc[c].command /\ ~proc[c].asked /\ Answer(c, r) /\ UNCHANGED vars
        /\ r = "success" => proc[c].todo = <<>>
  <2>1. proc[c].todo = <<>> => ~proc[c].asked
    BY DEF PluginInv, ProcessIsAtWork
  <2> QED  BY <2>1 DEF Unreachable, Done, RejectInput, CanGoOn, Commands
<1> DEFINE a == <<k, r>>
<1>2. /\ Idle \in [command : Commands \union {"none"}, todo : Seq(Ifaces), asked : BOOLEAN]
      /\ a \in (Commands \X {"success", "error"}) \union {NoAnswer}
      /\ a[1] = k /\ a[2] = r
  BY DEF Idle
<1>3. proc' = [proc EXCEPT ![c] = Idle] /\ answer' = [answer EXCEPT ![c] = a]
  BY <1>1 DEF Answer
<1> HIDE DEF a
<1>4. proc'[c] = Idle /\ answer'[c] = a
  BY <1>3 DEF PluginInv, PluginTypeOK
<1>5. ProcessIsAtWork(c)'
  BY <1>4 DEF ProcessIsAtWork, Idle
<1>6. ASSUME r = "success", NEW i \in Uses(c) PROVE DoneBy(k, i)'
  <2>1. Left(c) = {}
    BY <1>1, <1>6 DEF Left
  <2>2. DoneBy(k, i)
    BY <1>1, <1>6, <2>1 DEF PluginInv, WorkIsDone, Commands
  <2> QED  BY <1>1, <2>2 DEF DoneBy, Detached, vars
<1>7. WorkIsDone(c)'
  BY <1>2, <1>4, <1>6 DEF WorkIsDone, Idle, DoneBy, Detached
<1> QED  BY <1>1, <1>2, <1>3, <1>5, <1>7, StepOfProcess

LEMMA PluginAndRun ==
  ASSUME PluginInv, NEW c \in Containers, NEW command \in Commands, Run(c, command)
  PROVE  PluginInv'
<1> DEFINE p == [command |-> command, todo |-> Targets(c), asked |-> FALSE]
<1>1. /\ p \in [command : Commands \union {"none"}, todo : Seq(Ifaces), asked : BOOLEAN]
      /\ p.command \in Commands /\ p.todo = Targets(c) /\ ~p.asked
  BY TargetsAreInterfaces
<1>2. NoAnswer[2] # "success"
  BY DEF NoAnswer
<1>3. proc' = [proc EXCEPT ![c] = p] /\ answer' = [answer EXCEPT ![c] = NoAnswer] /\ UNCHANGED vars
  BY DEF Run
<1> HIDE DEF p
<1>4. proc'[c] = p /\ answer'[c] = NoAnswer
  BY <1>1, <1>3, PluginTypes DEF PluginInv
<1>5. ProcessIsAtWork(c)'
  <2>1. IsSuffix(Targets(c), Targets(c))
    BY TargetsAreInterfaces, WholeIsSuffix
  <2> QED  BY <1>1, <1>4, <2>1 DEF ProcessIsAtWork, Commands
<1>6. WorkIsDone(c)'
  <2>1. Left(c)' = Uses(c)
    BY <1>1, <1>4 DEF Left, Uses
  <2> QED  BY <1>2, <1>4, <2>1 DEF WorkIsDone
<1>7. ~proc[c].asked
  BY DEF Run, Idle
<1> QED  BY <1>1, <1>3, <1>5, <1>6, <1>7, StepOfProcess

(* What was replied to is done.                                            *)
LEMMA PluginAndReply ==
  ASSUME PluginInv, NEW c \in Containers, Replied(c)
  PROVE  PluginInv'
<1> DEFINE s == proc[c].todo
           k == proc[c].command
           p == [proc[c] EXCEPT !.asked = FALSE, !.todo = Tail(@)]
<1>1. /\ proc[c].asked /\ call[Head(s)] = "none" /\ UNCHANGED vars
      /\ proc' = [proc EXCEPT ![c] = p] /\ answer' = [answer EXCEPT ![c] = answer[c]]
  BY DEF Replied, PluginInv, PluginTypeOK
<1>2. /\ s \in Seq(Ifaces) /\ s # <<>> /\ k \in Commands /\ Targets(c) \in Seq(Ifaces)
      /\ proc[c] \in [command : Commands \union {"none"}, todo : Seq(Ifaces), asked : BOOLEAN]
  BY <1>1, ProcessFacts
<1>3. IsSuffix(s, Targets(c)) /\ answer[c] = NoAnswer /\ DoneBy(k, Head(s))
  BY <1>1, <1>2 DEF PluginInv, ProcessIsAtWork, CallOfCommand, Commands
<1>4. /\ IsSuffix(Tail(s), Targets(c)) /\ Tail(s) \in Seq(Ifaces)
      /\ \A n \in DOMAIN s : n = 1 \/ \E m \in DOMAIN Tail(s) : Tail(s)[m] = s[n]
  BY <1>2, <1>3, SuffixTail
<1>5. /\ p \in [command : Commands \union {"none"}, todo : Seq(Ifaces), asked : BOOLEAN]
      /\ p.command = k /\ p.todo = Tail(s) /\ ~p.asked
  BY <1>2, <1>4
<1>6. answer[c] \in (Commands \X {"success", "error"}) \union {NoAnswer}
  BY <1>3
<1> HIDE DEF p
<1>7. proc'[c] = p /\ answer'[c] = NoAnswer
  BY <1>1, <1>3, <1>5, <1>6, PluginTypes DEF PluginInv
<1>8. ProcessIsAtWork(c)'
  BY <1>2, <1>4, <1>5, <1>7 DEF ProcessIsAtWork, Commands
<1>9. ASSUME NEW i \in Uses(c), i \notin Left(c)' PROVE DoneBy(k, i)'
  <2>1. i = Head(s) \/ i \notin Left(c)
    <3>1. Head(s) = s[1]
      BY <1>2
    <3>2. ASSUME NEW n \in DOMAIN s, s[n] = i PROVE i = Head(s)
      BY <1>4, <1>5, <1>7, <1>9, <3>1, <3>2 DEF Left
    <3> QED  BY <3>2 DEF Left
  <2>2. DoneBy(k, i)
    BY <1>2, <1>3, <1>9, <2>1 DEF PluginInv, WorkIsDone, Commands
  <2> QED  BY <1>1, <1>5, <1>7, <2>2 DEF DoneBy, Detached, vars
<1>10. WorkIsDone(c)'
  <2>1. NoAnswer[2] # "success"
    BY DEF NoAnswer
  <2> QED  BY <1>5, <1>7, <1>9, <2>1 DEF WorkIsDone, DoneBy, Detached
<1> QED  BY <1>1, <1>5, <1>6, <1>8, <1>10, StepOfProcess

(* A request: the interface was free, and now the agent works on it.       *)
LEMMA PluginAndAsk ==
  ASSUME PinsInv, PluginInv, NEW c \in Containers, Ask(c)
  PROVE  PluginInv'
<1> DEFINE s == proc[c].todo
           i == Head(proc[c].todo)
           p == [proc[c] EXCEPT !.asked = TRUE]
           n == IF proc[c].command = "ADD" THEN "add ingress" ELSE "del ingress"
<1>1. /\ proc[c].command \in Commands /\ ~proc[c].asked /\ s # <<>> /\ step = "ready"
      /\ call[i] = "none" /\ call' = [call EXCEPT ![i] = n] /\ UNCHANGED <<step, pins>>
      /\ added' = IF proc[c].command = "ADD" THEN added ELSE added \ {i}
      /\ proc' = [proc EXCEPT ![c] = p] /\ answer' = [answer EXCEPT ![c] = answer[c]]
  BY DEF Ask, CanGoOn, BeginAdd, BeginDelete, PluginInv, PluginTypeOK, Commands
<1>2. /\ i \in Ifaces /\ i \in Left(c) /\ Left(c) \subseteq Uses(c)
      /\ proc[c] \in [command : Commands \union {"none"}, todo : Seq(Ifaces), asked : BOOLEAN]
  BY <1>1, ProcessFacts DEF Commands
<1>3. /\ p \in [command : Commands \union {"none"}, todo : Seq(Ifaces), asked : BOOLEAN]
      /\ p.command = proc[c].command /\ p.todo = s /\ p.asked
  BY <1>2
<1>4. /\ IsSuffix(s, Targets(c)) /\ answer[c] = NoAnswer
      /\ \A j \in Uses(c) \ Left(c) : DoneBy(proc[c].command, j)
  BY <1>1 DEF PluginInv, ProcessIsAtWork, WorkIsDone, Commands
<1>5. call'[i] = n /\ \A j \in Ifaces \ {i} : call'[j] = call[j]
  BY <1>1, <1>2 DEF PinsInv, TypeOK
<1> HIDE DEF p
<1>6. /\ PluginTypeOK' /\ proc'[c] = p /\ answer'[c] = NoAnswer
      /\ \A d \in Containers \ {c} : UNCHANGED <<proc[d], answer[d]>>
  <2>1. answer[c] \in (Commands \X {"success", "error"}) \union {NoAnswer}
    BY <1>4
  <2> QED  BY <1>1, <1>3, <1>4, <2>1, PluginTypes DEF PluginInv
<1>7. ProcessIsAtWork(c)'
  <2>1. Head(proc'[c].todo) = i /\ proc'[c].command = proc[c].command
    BY <1>3, <1>6
  <2>2. CallOfCommand(c, Head(proc[c].todo))'
    <3>1. n \in CallsBy(proc[c].command) /\ n # "none" /\ n # "del egress"
      BY DEF CallsBy
    <3> QED  BY <1>5, <2>1, <3>1 DEF CallOfCommand
  <2> QED  BY <1>1, <1>3, <1>4, <1>6, <2>2 DEF ProcessIsAtWork, Commands
<1>8. WorkIsDone(c)'
  <2>1. Left(c)' = Left(c) /\ proc'[c].command = proc[c].command
    BY <1>3, <1>6 DEF Left
  <2>2. ASSUME NEW j \in Uses(c) \ Left(c), NEW k \in Commands, k = proc[c].command
        PROVE  DoneBy(k, j)'
    <3>1. DoneBy(k, j) /\ j # i
      BY <1>2, <1>4, <2>2
    <3> QED  BY <1>1, <2>2, <3>1 DEF DoneBy, Detached
  <2>3. NoAnswer[2] # "success"
    BY DEF NoAnswer
  <2> QED  BY <1>1, <1>6, <2>1, <2>2, <2>3 DEF WorkIsDone
<1>9. ASSUME NEW d \in Containers \ {c} PROVE ProcessIsAtWork(d)' /\ WorkIsDone(d)'
  <2>1. i \notin Uses(d) /\ Uses(d) \subseteq Ifaces
    BY <1>2, <1>9, OneOwner, ProcessFacts
  <2>2. \A j \in Uses(d) : (j \in added => j \in added') /\ call'[j] = call[j]
    BY <1>1, <1>5, <2>1
  <2>3. proc[d].asked => Head(proc[d].todo) \in Uses(d)
    BY <1>9, ProcessFacts
  <2> QED  BY <1>1, <1>6, <1>9, <2>2, <2>3, Bystander
<1>10. ASSUME NEW j \in Ifaces, call'[j] # "none" PROVE \E d \in Containers : Waits(d, j)'
  <2>1. CASE j = i
    BY <1>3, <1>6, <2>1 DEF Waits
  <2>2. CASE j # i
    <3>1. PICK d \in Containers : Waits(d, j)
      BY <1>5, <1>10, <2>2 DEF PluginInv, CallsAwaited
    <3>2. d # c
      BY <1>1, <3>1 DEF Waits
    <3> QED  BY <1>6, <3>1, <3>2 DEF Waits
  <2> QED  BY <2>1, <2>2
<1> QED  BY <1>6, <1>7, <1>8, <1>9, <1>10 DEF PluginInv, CallsAwaited

-----------------------------------------------------------------------------
(***************************************************************************)
(* The agent's work on a call: one process waits for it, that of the       *)
(* container that has the interface, and the interface is not among those  *)
(* it is done with.                                                        *)
(***************************************************************************)
LEMMA OneWaits ==
  ASSUME PluginInv, NEW i \in Ifaces, NEW c \in Containers, NEW d \in Containers,
         Waits(c, i), i \in Uses(d)
  PROVE  d = c
<1>1. i \in Uses(c)
  BY ProcessFacts DEF Waits
<1> QED  BY <1>1, OneOwner

LEMMA WorkOnCall ==
  ASSUME PinsInv, PluginInv, NEW i \in Ifaces, NEW c \in Containers, Waits(c, i),
         NEW k \in Calls, call' = [call EXCEPT ![i] = k],
         UNCHANGED <<proc, answer, step>>, CallOfCommand(c, i)',
         \A j \in Ifaces \ {i} : /\ j \in added => j \in added'
                                 /\ \A d \in Dirs : pins'[<<j, d>>] = pins[<<j, d>>]
  PROVE  PluginInv'
<1>1. /\ proc[c].asked /\ Head(proc[c].todo) = i /\ proc[c].command \in Commands
      /\ i \in Uses(c) /\ Uses(c) \subseteq Ifaces /\ i \in Left(c)
  BY ProcessFacts DEF Waits
<1>2. PluginTypeOK'
  BY DEF PluginInv, PluginTypeOK
<1>3. \A j \in Ifaces \ {i} : call'[j] = call[j]
  BY DEF PinsInv, TypeOK
<1>4. ProcessIsAtWork(c)'
  <2>1. /\ ProcessIsAtWork(c)
        /\ CallOfCommand(c, Head(proc[c].todo))'
    BY <1>1 DEF PluginInv
  <2> QED  BY <1>1, <2>1 DEF ProcessIsAtWork
<1>5. WorkIsDone(c)'
  <2>1. answer[c] = NoAnswer /\ Left(c)' = Left(c)
    BY <1>1 DEF PluginInv, ProcessIsAtWork, Commands, Left
  <2>2. ASSUME NEW j \in Uses(c) \ Left(c) PROVE DoneBy(proc[c].command, j)'
    <3>1. DoneBy(proc[c].command, j) /\ j \in Ifaces \ {i}
      BY <1>1, <2>2 DEF PluginInv, WorkIsDone, Commands
    <3> QED  BY <3>1 DEF DoneBy, Detached
  <2>3. NoAnswer[2] # "success"
    BY DEF NoAnswer
  <2> QED  BY <2>1, <2>2, <2>3 DEF WorkIsDone
<1>6. ASSUME NEW d \in Containers \ {c} PROVE ProcessIsAtWork(d)' /\ WorkIsDone(d)'
  <2>1. i \notin Uses(d) /\ Uses(d) \subseteq Ifaces
    BY <1>6, OneWaits, ProcessFacts
  <2>2. proc[d].asked => Head(proc[d].todo) \in Uses(d)
    BY <1>6, ProcessFacts
  <2> QED  BY <1>3, <1>6, <2>1, <2>2, Bystander
<1>7. CallsAwaited'
  <2>1. ASSUME NEW j \in Ifaces, call'[j] # "none" PROVE \E d \in Containers : Waits(d, j)
    <3>1. CASE j = i
      BY <3>1
    <3>2. CASE j # i
      BY <1>3, <2>1, <3>2 DEF PluginInv, CallsAwaited
    <3> QED  BY <3>1, <3>2
  <2> QED  BY <2>1 DEF CallsAwaited, Waits
<1> QED  BY <1>2, <1>4, <1>5, <1>6, <1>7 DEF PluginInv

(* The two sides of a call: what command it is of, and what it says.       *)
LEMMA CallFacts ==
  ASSUME PluginInv, NEW i \in Ifaces, NEW c \in Containers, Waits(c, i)
  PROVE  /\ CallOfCommand(c, i) /\ proc[c].command \in Commands
         /\ call[i] \notin CallsBy("DEL") => proc[c].command = "ADD"
         /\ call[i] \in {"del ingress", "del egress"} => proc[c].command = "DEL"
<1>1. CallOfCommand(c, i) /\ proc[c].command \in {"ADD", "DEL"}
  BY ProcessFacts DEF PluginInv, ProcessIsAtWork, Waits, Commands
<1> QED  BY <1>1 DEF CallOfCommand, CallsBy, Commands

LEMMA PluginAndWorks ==
  ASSUME PinsInv, PluginInv, NEW i \in Ifaces, Works(i)
  PROVE  PluginInv'
<1>1. PICK c \in Containers : Waits(c, i)
  BY DEF PluginInv, CallsAwaited, Works, AddIngress, IngressFails, AddEgress, EgressFails,
         CleanIngress, CleanEgress, DeleteIngress, DeleteEgress
<1>2. /\ CallOfCommand(c, i) /\ proc[c].command \in Commands
      /\ call[i] \notin CallsBy("DEL") => proc[c].command = "ADD"
      /\ call[i] \in {"del ingress", "del egress"} => proc[c].command = "DEL"
  BY <1>1, CallFacts
<1>3. /\ call \in [Ifaces -> Calls] /\ Dirs = {"ingress", "egress"}
      /\ \A d \in Dirs : <<i, d>> \in Files /\ pins \in [Files -> 0 .. load]
      /\ \A j \in Ifaces \ {i}, e, d \in Dirs : <<j, e>> \in Files /\ <<j, e>> # <<i, d>>
  BY LinkNames DEF PinsInv, TypeOK, Dirs
<1>4. \A d \in Dirs, n \in {0, pins[Ingress]} : pins' = [pins EXCEPT ![<<i, d>>] = n] =>
        \A j \in Ifaces \ {i}, e \in Dirs : pins'[<<j, e>>] = pins[<<j, e>>]
  BY <1>3
<1>5. UNCHANGED <<proc, answer>>
  BY DEF Works, pluginVars
<1>6. CASE AddIngress(i)
  <2>1. CallOfCommand(c, i)'
    BY <1>2, <1>3, <1>5, <1>6 DEF AddIngress, CallOfCommand, CallsBy
  <2> QED  BY <1>1, <1>3, <1>4, <1>5, <1>6, <2>1, WorkOnCall DEF AddIngress, Attach, Calls
<1>7. CASE IngressFails(i)
  <2>1. CallOfCommand(c, i)'
    BY <1>2, <1>3, <1>5, <1>7 DEF IngressFails, CallOfCommand, CallsBy
  <2> QED  BY <1>1, <1>5, <1>7, <2>1, WorkOnCall DEF IngressFails, Calls
<1>8. CASE AddEgress(i)
  <2>1. CallOfCommand(c, i)'
    BY <1>2, <1>3, <1>5, <1>8 DEF AddEgress, CallOfCommand, CallsBy, DoneBy
  <2> QED  BY <1>1, <1>3, <1>4, <1>5, <1>8, <2>1, WorkOnCall DEF AddEgress, Attach, Calls
<1>9. CASE EgressFails(i)
  <2>1. CallOfCommand(c, i)'
    BY <1>2, <1>3, <1>5, <1>9 DEF EgressFails, CallOfCommand, CallsBy
  <2> QED  BY <1>1, <1>5, <1>9, <2>1, WorkOnCall DEF EgressFails, Calls
<1>10. CASE CleanIngress(i)
  <2>1. CallOfCommand(c, i)'
    BY <1>2, <1>3, <1>5, <1>10 DEF CleanIngress, CallOfCommand, CallsBy
  <2> QED  BY <1>1, <1>3, <1>4, <1>5, <1>10, <2>1, WorkOnCall DEF CleanIngress, Unpin, Calls
<1>11. CASE CleanEgress(i)
  <2>1. CallOfCommand(c, i)'
    BY <1>2, <1>3, <1>5, <1>11 DEF CleanEgress, CallOfCommand, CallsBy
  <2> QED  BY <1>1, <1>3, <1>4, <1>5, <1>11, <2>1, WorkOnCall DEF CleanEgress, Unpin, Calls
<1>12. CASE DeleteIngress(i)
  <2>1. pins'[<<i, "ingress">>] = 0
    BY <1>3, <1>12 DEF DeleteIngress, Unpin
  <2>2. CallOfCommand(c, i)'
    BY <1>2, <1>3, <1>5, <1>12, <2>1 DEF DeleteIngress, CallOfCommand, CallsBy
  <2> QED  BY <1>1, <1>3, <1>4, <1>5, <1>12, <2>2, WorkOnCall DEF DeleteIngress, Unpin, Calls
<1>13. CASE DeleteEgress(i)
  <2>1. Detached(i)'
    <3>1. pins[<<i, "ingress">>] = 0
      BY <1>2, <1>13 DEF DeleteEgress, CallOfCommand
    <3>2. pins'[<<i, "ingress">>] = 0 /\ pins'[<<i, "egress">>] = 0
      BY <1>3, <1>13, <3>1 DEF DeleteEgress, Unpin
    <3> QED  BY <1>3, <3>2 DEF Detached
  <2>2. CallOfCommand(c, i)'
    BY <1>2, <1>3, <1>5, <1>13, <2>1 DEF DeleteEgress, CallOfCommand, CallsBy, DoneBy
  <2> QED  BY <1>1, <1>3, <1>4, <1>5, <1>13, <2>2, WorkOnCall DEF DeleteEgress, Unpin, Calls
<1> QED  BY <1>6, <1>7, <1>8, <1>9, <1>10, <1>11, <1>12, <1>13 DEF Works

(* The process that waits is told of the error, and ends.                  *)
LEMMA PluginAndFails ==
  ASSUME PinsInv, PluginInv, NEW i \in Ifaces, Fails(i)
  PROVE  PluginInv'
<1>1. PICK c \in Containers : Waits(c, i) /\ Answer(c, "error")
  BY DEF Fails
<1>2. /\ call' = [call EXCEPT ![i] = "none"] /\ UNCHANGED <<step, pins, added>>
      /\ call \in [Ifaces -> Calls]
  BY DEF Fails, ReplyError, PinsInv, TypeOK
<1> DEFINE a == <<proc[c].command, "error">>
<1>3. /\ Idle \in [command : Commands \union {"none"}, todo : Seq(Ifaces), asked : BOOLEAN]
      /\ a \in (Commands \X {"success", "error"}) \union {NoAnswer} /\ a[2] # "success"
  <2>1. proc[c].command \in Commands
    BY <1>1, CallFacts
  <2> QED  BY <2>1 DEF Idle
<1>4. /\ proc' = [proc EXCEPT ![c] = Idle] /\ answer' = [answer EXCEPT ![c] = a]
  BY <1>1 DEF Answer
<1> HIDE DEF a
<1>5. /\ PluginTypeOK' /\ proc'[c] = Idle /\ answer'[c] = a
      /\ \A d \in Containers \ {c} : UNCHANGED <<proc[d], answer[d]>>
  <2>1. PluginTypeOK
    BY DEF PluginInv
  <2> QED  BY <1>3, <1>4, <2>1, PluginTypes
<1>6. ProcessIsAtWork(c)' /\ WorkIsDone(c)'
  BY <1>3, <1>5, Ending
<1>7. ASSUME NEW d \in Containers \ {c} PROVE ProcessIsAtWork(d)' /\ WorkIsDone(d)'
  <2>1. i \notin Uses(d) /\ Uses(d) \subseteq Ifaces
    BY <1>1, <1>7, OneWaits, ProcessFacts
  <2>2. proc[d].asked => Head(proc[d].todo) \in Uses(d)
    BY <1>7, ProcessFacts
  <2> QED  BY <1>2, <1>5, <1>7, <2>1, <2>2, Bystander
<1>8. ASSUME NEW j \in Ifaces, call'[j] # "none" PROVE \E d \in Containers : Waits(d, j)'
  <2>1. j # i /\ call[j] # "none"
    BY <1>2, <1>8
  <2>2. PICK d \in Containers : Waits(d, j)
    BY <2>1 DEF PluginInv, CallsAwaited
  <2>3. d # c
    BY <1>1, <2>1, <2>2 DEF Waits
  <2> QED  BY <1>5, <2>2, <2>3 DEF Waits
<1> QED  BY <1>5, <1>6, <1>7, <1>8 DEF PluginInv, CallsAwaited

-----------------------------------------------------------------------------
(* Every step of the plugin is one of the agent, or none.                  *)
LEMMA PluginSteps ==
  ASSUME PluginInv, [PluginNext]_allVars
  PROVE  [Next]_vars
<1>1. CASE UNCHANGED allVars
  BY <1>1 DEF allVars
<1>2. CASE InitBpf \/ AgentCrash \/ NodeReboot
  BY <1>2 DEF Next, AgentCrash, NodeReboot
<1>3. ASSUME NEW c \in Containers, PluginStep(c) \/ \E command \in Commands : Run(c, command)
      PROVE  [Next]_vars
  <2>1. CASE Ask(c)
    <3>1. Head(proc[c].todo) \in Ifaces
      BY <2>1, ProcessFacts DEF Ask
    <3> QED  BY <2>1, <3>1 DEF Ask, Next
  <2> QED  BY <1>3, <2>1 DEF PluginStep, Unreachable, Replied, Done, RejectInput, Run, vars
<1>4. ASSUME NEW i \in Ifaces, AgentStep(i) PROVE [Next]_vars
  BY <1>4 DEF AgentStep, Works, Fails, Next, Call
<1> QED  BY <1>1, <1>2, <1>3, <1>4 DEF PluginNext

LEMMA PluginInvSteps ==
  ASSUME PinsInv, PluginInv, [PluginNext]_allVars
  PROVE  PinsInv' /\ PluginInv'
<1>1. PinsInv'
  BY PluginSteps, StepsOfInitBpf, StepsOfFailures, StepsOfCalls, NoStep DEF Next
<1>2. CASE UNCHANGED allVars
  <2>1. PluginTypeOK' /\ CallsAwaited'
    BY <1>2 DEF PluginInv, allVars, vars, PluginTypeOK, CallsAwaited, Waits
  <2>2. \A c \in Containers : ProcessIsAtWork(c)' /\ WorkIsDone(c)'
    BY <1>2, Bystander DEF allVars, vars
  <2> QED  BY <1>1, <2>1, <2>2 DEF PluginInv
<1>3. CASE InitBpf /\ UNCHANGED pluginVars
  BY <1>1, <1>3, PluginAndInitBpf
<1>4. CASE AgentCrash \/ NodeReboot
  BY <1>1, <1>4, PluginAndFailures
<1>5. ASSUME NEW c \in Containers, PluginStep(c) \/ \E command \in Commands : Run(c, command)
      PROVE  PluginInv'
  BY <1>5, PluginAndAsk, PluginAndAnswers, PluginAndReply, PluginAndRun DEF PluginStep
<1>6. ASSUME NEW i \in Ifaces, AgentStep(i) PROVE PluginInv'
  BY <1>6, PluginAndWorks, PluginAndFails DEF AgentStep
<1> QED  BY <1>1, <1>2, <1>3, <1>4, <1>5, <1>6 DEF PluginNext

(* The inductive invariant of the plugin, on top of that of the agent.     *)
THEOREM PluginCorrect == PluginSpec => [](PinsInv /\ PluginInv)
<1>1. PluginInit => PinsInv /\ PluginInv
  BY PinsInvInit, PluginInvInit DEF PluginInit
<1>2. PinsInv /\ PluginInv /\ [PluginNext]_allVars => (PinsInv /\ PluginInv)'
  BY PluginInvSteps
<1> QED  BY <1>1, <1>2, PTL DEF PluginSpec

(***************************************************************************)
(* The plugin asks the agent for nothing that the specification of the     *)
(* agent does not allow a runtime (main.rs, add.rs, delete.rs): the agent  *)
(* and the plugin together implement it, and all that is proved of the     *)
(* agent alone holds of both.                                              *)
(***************************************************************************)
THEOREM PluginImplementsAgent == PluginSpec => Spec
<1>1. PluginInit => Init
  BY DEF PluginInit
<1>2. PluginInv /\ [PluginNext]_allVars => [Next]_vars
  BY PluginSteps
<1> QED  BY <1>1, <1>2, PluginCorrect, PTL DEF PluginSpec, Spec

(***************************************************************************)
(* What is answered with success is so: a container that was added is      *)
(* attached at all its host interfaces (add.rs:109), for any containers,   *)
(* any results of other plugins, any crashes and any order of commands.    *)
(***************************************************************************)
THEOREM AddAnswersHold == PluginSpec => []AnsweredAddIsAttached
<1>1. PinsInv /\ PluginInv => AnsweredAddIsAttached
  <2> SUFFICES ASSUME PinsInv, PluginInv, NEW c \in Containers, answer[c] = <<"ADD", "success">>,
                      NEW i \in Uses(c), NEW d \in Dirs
               PROVE  pins[<<i, d>>] # 0 /\ \A m \in Maps : pins[<<i, d>>] = pins[m]
    BY DEF AnsweredAddIsAttached
  <2>1. i \in added
    BY DEF PluginInv, WorkIsDone, DoneBy
  <2> QED  BY <2>1, AddedIsAttached DEF AddedPodsStayAttached
<1> QED  BY <1>1, PluginCorrect, PTL

(***************************************************************************)
(* A container that was deleted has no link left (delete.rs:76), so that   *)
(* no pin is in the way of its next ADD.                                   *)
(***************************************************************************)
THEOREM DelAnswersHold == PluginSpec => []DeletedIsDetached
<1>1. PluginInv => DeletedIsDetached
  <2> SUFFICES ASSUME PluginInv, NEW c \in Containers, answer[c] = <<"DEL", "success">>,
                      NEW i \in Uses(c)
               PROVE  Detached(i)
    BY DEF DeletedIsDetached, Detached
  <2> QED  BY DEF PluginInv, WorkIsDone, DoneBy
<1> QED  BY <1>1, PluginCorrect, PTL
=============================================================================
