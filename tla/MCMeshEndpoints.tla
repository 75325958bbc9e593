-------------------------- MODULE MCMeshEndpoints --------------------------
(* The controller: a Service, annotated or not, whose EndpointSlices say   *)
(* one of two things.                                                      *)
(*                                                                         *)
(* The lists: up to two slices with up to two endpoints, whose addresses   *)
(* may be the same, of either family or unreadable; ports with equal       *)
(* numbers, equal names, no name, no protocol or one that is none, and     *)
(* numbers beyond a u16.                                                   *)
EXTENDS MeshEndpoints, MeshEndpointSpec

CONSTANTS http, short, long, v4, v6, a, b, c, junk

MCOnePort == {http}
MCLists   == {short, long}

MCAddresses  == {v4, v6, a, b, c}
MCFamily     == [x \in Addresses |-> IF x \in {v6, c} THEN 6 ELSE 4]
MCClusterIps == {<<v4, v6>>, <<junk, v4>>}

Port(name, port, protocol) == [name |-> name, port |-> port, protocol |-> protocol]

MCServicePortLists ==
  {<<Port("dns", 53, "UDP"), Port("dnst", 53, "TCP")>>,
   <<Port(Absent, 80, "TCP")>>,
   <<Port("web", 80, "TCP"), Port("old", 81, "ICMP"), Port("wide", 65536 + 80, "TCP")>>}

MCSlicePortLists ==
  {Absent,
   <<Port("dnst", 53, Absent), Port("dns", 53, "UDP")>>,
   <<Port("", 80, "HTTP"), Port("web", Absent, "TCP"), Port("web", 81, "TCP"), Port("web", 80, "TCP")>>,
   <<Port(Absent, 80, "TCP"), Port("old", 81, "TCP"), Port("wide", -1, "TCP")>>,
   <<Port("web", 80, "TCP"), Port("wide", 65536 + 80, "TCP")>>}

If(ready, terminating) == [ready |-> ready, terminating |-> terminating]

MCConditions == {Absent, If(Absent, Absent), If(TRUE, TRUE), If(FALSE, FALSE)}

Endpoint(addresses, conditions) == [addresses |-> addresses, conditions |-> conditions]

MCEndpointLists ==
  {<<Endpoint(<<a, c>>, x), Endpoint(<<b>>, y)>> : x, y \in MCConditions}
  \union {<<Endpoint(<<junk, a>>, x)>> : x \in MCConditions}

(* The input stays; the controller runs beside one of them.                *)
NoSlices == [svc |-> [ips |-> <<junk, v4>>, ports |-> <<Port(Absent, 80, "TCP")>>], store |-> <<>>]

NoService == service = None /\ slices.list = short

MCInit ==
  /\ Init
  /\ \/ input = NoSlices
     \/ NoService /\ InputInit

MCNext == input = NoSlices /\ Next /\ UNCHANGED input

MCSpec == MCInit /\ [][MCNext]_<<vars, input>> /\ Fairness
=============================================================================
