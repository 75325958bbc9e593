--------------------------- MODULE MCPodIdentity ---------------------------
(* Two clusters.  One has no node and two pods that have an address one    *)
(* after the other, with two labels; by symmetry the first pod is the one  *)
(* that has it when the agent starts, and of one of the labels.  The other *)
(* has a node, a pod of the host network and a dual-stack pod, of one      *)
(* label.                                                                  *)
EXTENDS PodIdentity

CONSTANTS p1, p2, host, here, a1, a2, h1, plain, web, db, i1, i2, local, remote

MCPods          == {p1, p2, host}
MCHostPods      == {host}
MCNodes         == {here}
MCPodAddresses  == {{a1}, {a1, a2}}
MCNodeAddresses == [n \in Nodes |-> {h1}]
MCNsLabels      == {plain}
MCPodLabels     == {web, db}
MCIds           == {i1, i2}

(* State constraint: which pods either cluster has.                        *)
TwoClusters ==
  IF nodes = {}
  THEN /\ ~Exists(host)
       /\ \A p \in {p1, p2} : Exists(p) => pods[p].addrs # {a1, a2}
  ELSE /\ ~Exists(p2)
       /\ \A p \in {p1, host} : Exists(p) => pods[p].labels = web /\ pods[p].addrs # {a1}

MCInit ==
  /\ Init
  /\ TwoClusters
  /\ running
  /\ nodes = {} => Exists(p1) /\ pods[p1].addrs # {}
  /\ Exists(p1) => pods[p1].labels = web
  /\ Exists(p2) => pods[p2].addrs = {}

MCSpec == MCInit /\ [][Next]_vars /\ Fairness
=============================================================================
