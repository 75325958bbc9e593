-------------------------- MODULE MeshEndpointSpec --------------------------
(***************************************************************************)
(* The endpoint lists of a Service: generate_mesh_endpoint_spec and        *)
(* generate_bpf_service_endpoints (mesh-cni-crds/.../meshendpoint.rs), as  *)
(* functions of the Service and of the EndpointSlices in the order the     *)
(* store has them.  Addresses are model values with a family; what does    *)
(* not parse as an address or a protocol is any other value.               *)
(***************************************************************************)
EXTENDS Integers, Sequences, FiniteSets, SequencesExt

CONSTANTS
  Addresses, Family,           \* addresses that parse, 4 or 6 for each
  ServicePortLists,            \* lists of ports a Service may have
  SlicePortLists,              \* lists of ports a slice may have, or Absent
  EndpointLists,               \* lists of endpoints: their addresses and conditions
  ClusterIps,                  \* lists of addresses a Service may have
  MaxSlices,                   \* bound: slices in the store
  Absent

Protocols == {"TCP", "UDP", "SCTP"}
Flags     == {TRUE, FALSE, Absent}
U16s      == 0 .. 65535

IsList(list) == list \in Seq({list[n] : n \in DOMAIN list})

ASSUME AbsentIsNoValue == Absent \notin BOOLEAN /\ Absent \notin U16s
ASSUME FamilyOfAddresses == Family \in [Addresses -> {4, 6}]
ASSUME SlicesAreBounded == MaxSlices \in Nat
ASSUME ListsAreLists ==
  /\ \A list \in ServicePortLists \union (SlicePortLists \ {Absent}) \union ClusterIps : IsList(list)
  /\ \A list \in EndpointLists : IsList(list) /\ \A n \in DOMAIN list : IsList(list[n].addresses)
(* A port is an i32 in Services and slices, whatever the API server admits. *)
ASSUME PortsAreNumbers ==
  /\ \A list \in ServicePortLists : \A n \in DOMAIN list : list[n].port \in Int
  /\ \A list \in SlicePortLists \ {Absent} :
       \A n \in DOMAIN list : list[n].port \in {Absent} \union Int
ASSUME KindsOfConditions ==
  \A list \in EndpointLists : \A n \in DOMAIN list :
    list[n].conditions \in [ready : Flags, terminating : Flags] \union {Absent}

VARIABLE input  \* the Service and the store that the lists are generated from

(* In the store there are slices of other Services, too.                   *)
ServiceInputs == [ips : ClusterIps, ports : ServicePortLists]
SliceInputs   == [own : BOOLEAN, ports : SlicePortLists, endpoints : EndpointLists]
StoreInputs   == BoundedSeq(SliceInputs, MaxSlices)

-----------------------------------------------------------------------------
(* A loop over a list that pushes some elements, or none, for each of it.  *)
ForEach(list, Push(_)) == FlattenSeq([n \in DOMAIN list |-> Push(list[n])])

Only(condition, x) == IF condition THEN <<x>> ELSE <<>>

(* kube_proto_from_str: anything that is no protocol is TCP.               *)
KubeProto(p) == IF p \in Protocols THEN p ELSE "TCP"

(* `as u16' of an i32 keeps the last sixteen bits of two's complement.      *)
U16(n) == n % 65536

(* service_names_ports_protocols: here such a port is skipped instead.     *)
ServicePorts(svc) ==
  ForEach(svc.ports, LAMBDA p :
    Only(p.protocol \in Protocols,
         [name |-> IF p.name = Absent THEN "" ELSE p.name, port |-> U16(p.port),
          protocol |-> p.protocol]))

Parsed(list) == ForEach(list, LAMBDA a : Only(a \in Addresses, a))

ReadyOnly(c) == c.ready # FALSE  \* Faulty: it may be terminating.

EndpointReady(c) == c.ready # FALSE /\ c.terminating # TRUE

(* backend_ips_from_ep_slice: endpoints without conditions are left out.   *)
BackendIps(slice) ==
  ForEach(slice.endpoints, LAMBDA e :
    IF e.conditions # Absent /\ EndpointReady(e.conditions) THEN Parsed(e.addresses) ELSE <<>>)

(* backend_port_from_ep_slice: the first port of that name and protocol.   *)
BackendPort(slice, name, protocol) ==
  LET Matches(p) == p.name = name /\ p.port # Absent /\ KubeProto(p.protocol) = protocol
      found == IF slice.ports = Absent THEN {} ELSE {n \in DOMAIN slice.ports : Matches(slice.ports[n])}
  IN  IF found = {} THEN Absent ELSE U16(slice.ports[Min(found)].port)

(* endpoint_slices_owned_by_service.                                       *)
OwnedSlices(store) == ForEach(store, LAMBDA slice : Only(slice.own, slice))

Mapping(slice, ip, p) ==
  [ip |-> ip, servicePort |-> p.port, protocol |-> p.protocol,
   backendPort |-> BackendPort(slice, p.name, p.protocol)]

GenerateSpec(svc, store) ==
  [serviceIps |-> Parsed(svc.ips),
   mappings   |->
     ForEach(OwnedSlices(store), LAMBDA slice :
       ForEach(BackendIps(slice), LAMBDA ip :
         ForEach(ServicePorts(svc), LAMBDA p :
           Only(BackendPort(slice, p.name, p.protocol) # Absent, Mapping(slice, ip, p)))))]

(* generate_bpf_service_endpoints: what is pushed to which list, and the   *)
(* lists this makes.                                                       *)
Pushed(spec) ==
  ForEach(spec.serviceIps, LAMBDA ip :
    ForEach(spec.mappings, LAMBDA m :
      Only(Family[ip] = Family[m.ip],
           [key |-> <<ip, m.servicePort, KubeProto(m.protocol)>>, endpoint |-> <<m.ip, m.backendPort>>])))

GenerateEndpoints(spec) ==
  LET pushed == Pushed(spec) IN
    [key \in {pushed[n].key : n \in DOMAIN pushed} |->
      ForEach(pushed, LAMBDA e : Only(e.key = key, e.endpoint))]

-----------------------------------------------------------------------------
(***************************************************************************)
(* What the lists should be, said without the loops: a connection to an    *)
(* address and port of the Service may go to an address of the same family *)
(* of an endpoint of one of its slices that is ready and not terminating,  *)
(* at the port that the slice has for the name of the Service's port.      *)
(* A number that is no u16, which the code does not refuse, counts as what *)
(* the cast makes of it: 65616 as 80, -1 as 65535.                         *)
(***************************************************************************)
Same(p, q) == p.name = (IF q.name = Absent THEN "" ELSE q.name) /\ KubeProto(p.protocol) = q.protocol

IsPortFor(ports, q, n) ==
  /\ Same(ports[n], q) /\ ports[n].port # Absent
  /\ \A m \in 1 .. n - 1 : Same(ports[m], q) => ports[m].port = Absent

Serves(endpoint, address) ==
  /\ endpoint.conditions # Absent
  /\ endpoint.conditions.ready \in {TRUE, Absent} /\ endpoint.conditions.terminating \in {FALSE, Absent}
  /\ address \in Addresses

(* Where the store has an address.                                         *)
Places(store) ==
  UNION {UNION {{<<s, e, a>> : a \in DOMAIN store[s].endpoints[e].addresses} :
                  e \in DOMAIN store[s].endpoints} : s \in DOMAIN store}

EndpointAt(store, at) == store[at[1]].endpoints[at[2]]
AddressAt(store, at)  == EndpointAt(store, at).addresses[at[3]]

(* From an address and a port of the Service to a place in the store.      *)
Routes(svc, store) ==
  {r \in (DOMAIN svc.ips) \X Places(store) \X (DOMAIN svc.ports) :
     LET ip == svc.ips[r[1]]
         slice == store[r[2][1]]
         address == AddressAt(store, r[2])
         port == svc.ports[r[3]]
     IN  /\ slice.own /\ Serves(EndpointAt(store, r[2]), address)
         /\ ip \in Addresses /\ Family[ip] = Family[address]
         /\ port.protocol \in Protocols
         /\ slice.ports # Absent /\ \E n \in DOMAIN slice.ports : IsPortFor(slice.ports, port, n)}

RouteKey(svc, r) == <<svc.ips[r[1]], U16(svc.ports[r[3]].port), svc.ports[r[3]].protocol>>

RouteEnd(svc, store, r) ==
  LET ports == store[r[2][1]].ports
      first == CHOOSE n \in DOMAIN ports : IsPortFor(ports, svc.ports[r[3]], n)
  IN  <<AddressAt(store, r[2]), U16(ports[first].port)>>

(***************************************************************************)
(* The lists are those of the routes, none is empty and none is missing;   *)
(* an endpoint is listed once for each route to it, and gets that share of *)
(* the connections.                                                        *)
(***************************************************************************)
AreRoutes(lists, svc, store) ==
  LET routes == Routes(svc, store) IN
    /\ DOMAIN lists = {RouteKey(svc, r) : r \in routes}
    /\ \A key \in DOMAIN lists :
         LET list == lists[key]
             mine == {r \in routes : RouteKey(svc, r) = key}
         IN  /\ Len(list) = Cardinality(mine)
             /\ \A e \in {RouteEnd(svc, store, r) : r \in mine} :
                  Cardinality({n \in DOMAIN list : list[n] = e}) =
                    Cardinality({r \in mine : RouteEnd(svc, store, r) = e})

(* The lists of any input.                                                 *)
InputInit == input \in [svc : ServiceInputs, store : StoreInputs]
InputSpec == InputInit /\ [][UNCHANGED input]_input

(* Whatever the Service and the slices say, and in whatever order the      *)
(* store has them, the lists of endpoints are those of the routes there    *)
(* are, under port numbers cut to a u16: routes of ports that differ by a  *)
(* multiple of 65536 share a list (meshendpoint.rs:49-232).                *)
ListsAreExact ==
  AreRoutes(GenerateEndpoints(GenerateSpec(input.svc, input.store)), input.svc, input.store)
=============================================================================
