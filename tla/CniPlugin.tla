----------------------------- MODULE CniPlugin -----------------------------
(***************************************************************************)
(* The CNI plugin (mesh-cni-plugin): processes that the container runtime  *)
(* starts for ADD and DEL, and that ask the agent of module BpfPins for    *)
(* one interface of the container after the other.  CHECK, STATUS, VERSION *)
(* and GC panic (main.rs:28-31) before they do anything.                   *)
(***************************************************************************)
EXTENDS BpfPins, Sequences

CONSTANTS
  Containers,
  Chained,   \* containers of a configuration in which other plugins come first
  Previous,  \* the interfaces in the result of those: [name, sandbox]
  IfName     \* CNI_IFNAME of the others, of which there is one at most

Interfaces == [name : Ifaces, sandbox : BOOLEAN]
Host(s)    == SelectSeq(s, LAMBDA i : ~i.sandbox)
Names(s)   == [n \in DOMAIN s |-> s[n].name]

(* What the plugin of a container asks the agent for.                      *)
Targets(c) == IF c \in Chained THEN Names(Host(Previous[c])) ELSE <<IfName>>
Uses(c)    == {Targets(c)[n] : n \in DOMAIN Targets(c)}

ASSUME ChainedContainers == Chained \subseteq Containers
ASSUME PreviousResults ==
  \A c \in Chained : Previous[c] \in Seq(Interfaces)
                   /\ Host(Previous[c]) \in Seq(Interfaces)  \* follows, but not for the provers
ASSUME IfNameIsHosts == IfName \in Ifaces
ASSUME OneOwner ==
  \A c, d \in Containers : c # d => Uses(c) \intersect Uses(d) = {}
ASSUME NamesDiffer ==
  \A c \in Containers : \A m, n \in DOMAIN Targets(c) : m # n => Targets(c)[m] # Targets(c)[n]

VARIABLES
  proc,   \* the process of a container: its command, what is left to do, whether it asked
  answer  \* what the last command of a container was answered, and which it was

pluginVars == <<proc, answer>>
allVars    == <<vars, proc, answer>>

Commands == {"ADD", "DEL"}
Idle     == [command |-> "none", todo |-> <<>>, asked |-> FALSE]
NoAnswer == <<"none", "none">>

PluginInit ==
  /\ Init
  /\ proc = [c \in Containers |-> Idle]
  /\ answer = [c \in Containers |-> NoAnswer]

-----------------------------------------------------------------------------
(* write_out: the process ends, also after an error with exit code 0; the  *)
(* runtime is told by what is written.                                     *)
Answer(c, a) ==
  /\ proc' = [proc EXCEPT ![c] = Idle]
  /\ answer' = [answer EXCEPT ![c] = <<proc[c].command, a>>]

(* main: the runtime starts one process at a time for a container.  DEL    *)
(* may come without an ADD, and ADD without a DEL.                         *)
Run(c, command) ==
  /\ proc[c] = Idle
  /\ proc' = [proc EXCEPT ![c] = [command |-> command, todo |-> Targets(c), asked |-> FALSE]]
  /\ answer' = [answer EXCEPT ![c] = NoAnswer]
  /\ UNCHANGED vars

(* The errors before the first request: what was read is no input, the     *)
(* previous result cannot be read, has no interfaces, or is not there,     *)
(* which is an error for DEL only.                                         *)
RejectInput(c) ==
  /\ proc[c].command \in Commands /\ ~proc[c].asked /\ proc[c].todo = Targets(c)
  /\ Answer(c, "error")
  /\ UNCHANGED vars

CanGoOn(c) ==
  proc[c].command = "ADD" \/ (proc[c].command = "DEL" /\ c \in Chained)

(* add, delete: the next interface.                                        *)
Ask(c) ==
  /\ CanGoOn(c) /\ ~proc[c].asked /\ proc[c].todo # <<>>
  /\ IF proc[c].command = "ADD" THEN BeginAdd(Head(proc[c].todo)) ELSE BeginDelete(Head(proc[c].todo))
  /\ proc' = [proc EXCEPT ![c].asked = TRUE]
  /\ UNCHANGED answer

(* No agent listens: the first request that fails ends the loop.           *)
SkipUnreachable(c) ==  \* Faulty: it is logged only.
  /\ CanGoOn(c) /\ ~proc[c].asked /\ proc[c].todo # <<>> /\ step # "ready"
  /\ proc' = [proc EXCEPT ![c].todo = Tail(@)]
  /\ UNCHANGED <<vars, answer>>

WaitForAgent(c) ==  \* Faulty: it tries again until there is one.
  /\ CanGoOn(c) /\ ~proc[c].asked /\ proc[c].todo # <<>> /\ step # "ready"
  /\ UNCHANGED allVars

Unreachable(c) ==
  /\ CanGoOn(c) /\ ~proc[c].asked /\ proc[c].todo # <<>> /\ step # "ready"
  /\ Answer(c, "error")
  /\ UNCHANGED vars

(* All interfaces are done, or none has to be: all are in the sandbox.     *)
Done(c) ==
  /\ CanGoOn(c) /\ proc[c].todo = <<>>
  /\ Answer(c, "success")
  /\ UNCHANGED vars

-----------------------------------------------------------------------------
(* The agent works on a call.                                              *)
Waits(c, i) == proc[c].asked /\ Head(proc[c].todo) = i

ReplyIgnored(c) ==  \* Faulty: an error is logged, and the loop goes on.
  /\ proc[c].asked /\ call[Head(proc[c].todo)] \in {"none", "failed"}
  /\ proc' = [proc EXCEPT ![c].asked = FALSE, ![c].todo = Tail(@)]
  /\ call' = [call EXCEPT ![Head(proc[c].todo)] = "none"]
  /\ UNCHANGED <<step, load, pins, failures, added, answer>>

(* A reply of success; the agent may crash between the work and the reply. *)
Replied(c) ==
  /\ proc[c].asked /\ call[Head(proc[c].todo)] = "none"
  /\ proc' = [proc EXCEPT ![c].asked = FALSE, ![c].todo = Tail(@)]
  /\ UNCHANGED <<vars, answer>>

Fails(i) ==
  /\ ReplyError(i)
  /\ \E c \in Containers : Waits(c, i) /\ Answer(c, "error")

Works(i) ==
  /\ \/ AddIngress(i) \/ IngressFails(i) \/ AddEgress(i) \/ EgressFails(i)
     \/ CleanIngress(i) \/ CleanEgress(i) \/ DeleteIngress(i) \/ DeleteEgress(i)
  /\ UNCHANGED pluginVars

(* A connection that breaks is an error to the process that waits.         *)
AgentCrash ==
  /\ Crash
  /\ proc' = [c \in Containers |-> IF proc[c].asked THEN Idle ELSE proc[c]]
  /\ answer' = [c \in Containers |-> IF proc[c].asked THEN <<proc[c].command, "error">> ELSE answer[c]]

NodeReboot ==
  /\ Reboot
  /\ proc' = [c \in Containers |-> Idle]
  /\ answer' = [c \in Containers |-> NoAnswer]

PluginStep(c) == Ask(c) \/ Unreachable(c) \/ Replied(c) \/ Done(c) \/ RejectInput(c)
AgentStep(i)  == Works(i) \/ Fails(i)

PluginNext ==
  \/ InitBpf /\ UNCHANGED pluginVars
  \/ AgentCrash \/ NodeReboot
  \/ \E c \in Containers : PluginStep(c) \/ \E command \in Commands : Run(c, command)
  \/ \E i \in Ifaces : AgentStep(i)

PluginSpec == PluginInit /\ [][PluginNext]_allVars

(* Processes run and the agent works on its calls; it need not be up.      *)
FairPluginSpec ==
  /\ PluginSpec
  /\ \A c \in Containers : WF_allVars(PluginStep(c))
  /\ \A i \in Ifaces : WF_allVars(AgentStep(i))

-----------------------------------------------------------------------------
IsSuffix(s, t) == \E n \in 0 .. Len(t) : s = SubSeq(t, n + 1, Len(t))

PluginTypeOK ==
  /\ proc \in [Containers -> [command : Commands \union {"none"}, todo : Seq(Ifaces), asked : BOOLEAN]]
  /\ answer \in [Containers -> (Commands \X {"success", "error"}) \union {NoAnswer}]

(***************************************************************************)
(* A container whose ADD was answered with success is attached at all its  *)
(* host interfaces, both ways, to a program that reads the maps the agent  *)
(* writes, until the next command: whichever request failed, wherever the  *)
(* agent crashed and whatever was there of an earlier command.             *)
(***************************************************************************)
AnsweredAddIsAttached ==
  \A c \in Containers : answer[c] = <<"ADD", "success">> =>
    \A i \in Uses(c), d \in Dirs : pins[<<i, d>>] # 0 /\ \A m \in Maps : pins[<<i, d>>] = pins[m]

(***************************************************************************)
(* A DEL that was answered with success leaves no link, also not one of an *)
(* ADD that stopped at an interface or of a DEL that was interrupted: so   *)
(* the next ADD finds no pin in its way (add.rs:109, delete.rs:76).        *)
(***************************************************************************)
DeletedIsDetached ==
  \A c \in Containers : answer[c] = <<"DEL", "success">> =>
    \A i \in Uses(c), d \in Dirs : pins[<<i, d>>] = 0

(***************************************************************************)
(* Every command is answered, even while the agent is down.                *)
(***************************************************************************)
EveryCommandAnswered ==
  \A c \in Containers : proc[c] # Idle ~> proc[c] = Idle

(***************************************************************************)
(* Why: an interface that a process needs to ask for no more is done; what *)
(* is done stays so, as all calls about an interface come from the process *)
(* of one container (OneOwner) and are of its command; and the answer of   *)
(* success is given when nothing is left.                                  *)
(***************************************************************************)
Left(c)     == {proc[c].todo[n] : n \in DOMAIN proc[c].todo}
Detached(i) == \A d \in Dirs : pins[<<i, d>>] = 0

DoneBy(command, i) ==
  \/ command = "ADD" /\ i \in added
  \/ command = "DEL" /\ Detached(i)

CallsBy(command) ==
  IF command = "ADD"
    THEN {"none", "add ingress", "add egress", "clean ingress", "clean egress", "failed"}
    ELSE {"none", "del ingress", "del egress"}

CallOfCommand(c, i) ==
  /\ call[i] \in CallsBy(proc[c].command)
  /\ call[i] = "none" => DoneBy(proc[c].command, i)
  /\ call[i] = "del egress" => pins[<<i, "ingress">>] = 0

(* A process asks for what is left of its interfaces.                      *)
ProcessIsAtWork(c) ==
  /\ proc[c].command = "none" => proc[c] = Idle
  /\ proc[c].command # "none" => IsSuffix(proc[c].todo, Targets(c)) /\ answer[c] = NoAnswer
  /\ proc[c].asked =>
       proc[c].todo # <<>> /\ step = "ready" /\ CallOfCommand(c, Head(proc[c].todo))

WorkIsDone(c) ==
  /\ proc[c].command # "none" => \A i \in Uses(c) \ Left(c) : DoneBy(proc[c].command, i)
  /\ answer[c][2] = "success" => \A i \in Uses(c) : DoneBy(answer[c][1], i)

(* The agent works on an interface for as long as a process waits for it.  *)
CallsAwaited == \A i \in Ifaces : call[i] # "none" => \E c \in Containers : Waits(c, i)

PluginInv ==
  /\ PluginTypeOK
  /\ \A c \in Containers : ProcessIsAtWork(c) /\ WorkIsDone(c)
  /\ CallsAwaited
=============================================================================
