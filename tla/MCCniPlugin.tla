---------------------------- MODULE MCCniPlugin ----------------------------
(* A container with two host interfaces and the one inside, and one whose  *)
(* configuration has no other plugin.  Two of the four maps of each list.  *)
EXTENDS CniPlugin

CONSTANTS pod, alone, veth1, veth2, eth0

MCServiceMaps == {"services_v4", "endpoints_v4"}
MCPolicyMaps  == {"identity_v4", "conntrack_v4"}
MCIfaces      == {veth1, veth2, eth0}
MCContainers  == {pod, alone}
MCChained     == {pod}
MCPrevious ==
  [c \in MCChained |-> <<[name |-> veth1, sandbox |-> FALSE],
                         [name |-> eth0, sandbox |-> TRUE],
                         [name |-> veth2, sandbox |-> FALSE]>>]
=============================================================================
