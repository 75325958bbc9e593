----------------------------- MODULE MCBpfPins -----------------------------
(* Two of the four maps of each list, and two pods.                        *)
EXTENDS BpfPins

CONSTANTS pod1, pod2

MCServiceMaps == {"services_v4", "endpoints_v4"}
MCPolicyMaps  == {"identity_v4", "conntrack_v4"}
MCIfaces      == {pod1, pod2}
=============================================================================
