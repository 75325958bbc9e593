--------------------------- MODULE MCIdentityGen ---------------------------
(* A namespace of two pods and one of a single pod, whose labels are       *)
(* equal; a namespace may be relabelled, its pods come and go.             *)
EXTENDS IdentityGen

CONSTANTS default, other, p1, p2, p3, plain, team, web, i1, i2, i3, i4

MCNamespaces  == {default, other}
MCPods        == {p1, p2, p3}
MCNamespaceOf == [p \in Pods |-> IF p = p3 THEN other ELSE default]
MCNsLabels    == {plain, team}
MCPodLabels   == {web}
MCIds         == {i1, i2, i3, i4}
=============================================================================
