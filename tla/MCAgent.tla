------------------------------ MODULE MCAgent ------------------------------
(* The start of the agent; the policy map, which it reads when it starts;  *)
(* and the policies that users edit.  Nothing in the code connects them    *)
(* yet: in a behaviour one of them moves, and the others stay as they      *)
(* begin.                                                                  *)
(*                                                                         *)
(* The map: three keys, two values, room for two.  A policy: a label with  *)
(* two values, which pods and namespaces have or not; a requirement of     *)
(* each kind.                                                              *)
EXTENDS MCAgentStartup, PolicyMap, PolicySelectors

CONSTANTS k1, k2, k3, allow, deny, app, demo, api, nsA, nsB

MCPolicyKeys   == {k1, k2, k3}
MCPolicyValues == {allow, deny}

MCKeys       == {app}
MCValues     == {demo, api}
MCNamespaces == {nsA, nsB}

MCIdentities ==
  [namespace : {nsA, Absent}, podLabels : [MCKeys -> MCValues \union {Absent}], nsLabels : [MCKeys -> {demo, Absent}]]
  \union [namespace : {nsB}, podLabels : [MCKeys -> {demo}], nsLabels : [MCKeys -> {Absent}]]

MCRequirements ==
  {[key |-> app, operator |-> "In", values |-> {demo}],
   [key |-> app, operator |-> "NotIn", values |-> {demo}],
   [key |-> app, operator |-> "Exists", values |-> {}],
   [key |-> app, operator |-> "other", values |-> {}]}

NoAgent    == Init /\ chained /\ node.taints = {}
NoMap      == MapInit
NoPolicies ==
  policy = [namespace |-> nsA, selector |-> Absent, types |-> Absent, given |-> {},
            rules |-> [dir \in Directions |-> {}]] /\ edits = 0

MCInit == Init /\ MapInit /\ EditInit /\ (NoAgent \/ NoPolicies)

MCNext ==
  \/ NoMap /\ NoPolicies /\ Next /\ UNCHANGED <<mapVars, policyVars>>
  \/ NoAgent /\ NoPolicies /\ MapNext /\ UNCHANGED <<vars, policyVars>>
  \/ NoAgent /\ NoMap /\ EditNext /\ UNCHANGED <<vars, mapVars>>

MCSpec == MCInit /\ [][MCNext]_<<vars, mapVars, policyVars>> /\ Fairness
=============================================================================
