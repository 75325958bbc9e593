--------------------------- MODULE MCMeshServices ---------------------------
(* A Service with two ports, and a MeshEndpoint that stands in for a       *)
(* labelled Service.  The lists shrink, then grow; a Service seen before   *)
(* its slices has the empty list of version 0.                             *)
EXTENDS MeshServices

CONSTANTS web, remote, mesh, http, https, grpc, a, b

MCServices      == {web, remote}
MCMeshEndpoints == {mesh}
MCKeys          == {http, https, grpc}
MCLabelled      == {remote}
MCKeysOf        == [o \in {web, remote, mesh} |-> IF o = web THEN {http, https} ELSE {grpc}]

MCListOf ==
  [v \in 0 .. 3 |-> CASE v = 0 -> <<>> [] v = 1 -> <<a, b>> [] v = 2 -> <<a>> [] v = 3 -> <<b, a>>]

(* State constraint: the third change is there for a Service alone.        *)
Untouched(o) ==
  /\ cluster[o] = None /\ objectStore[o] = None /\ checkStore[o] = None
  /\ o \notin queue /\ run[o] = NoRun

LongHistoryAlone ==
  version = 3 => /\ Untouched(remote) /\ Untouched(mesh)
                 /\ sliceStore[remote] = 0 /\ shown[grpc] = 0
=============================================================================
