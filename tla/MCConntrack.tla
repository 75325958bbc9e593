---------------------------- MODULE MCConntrack ----------------------------
(* A TCP connection and two UDP flows in a map for two keys, on two CPUs.  *)
EXTENDS Conntrack

CONSTANTS tcp, udp, dns, cpu1, cpu2

MCTcpFlows == {tcp}
MCUdpFlows == {udp, dns}
MCCpus     == {cpu1, cpu2}

FlowAfterFlow ==
  [k \in Keys |-> (CASE k[1] = tcp -> 0 [] k[1] = udp -> 2 [] k[1] = dns -> 4)
                 + (IF k[2] = "fwd" THEN 1 ELSE 2)]

(* State constraint: a TCP connection alone has both CPUs; with the UDP    *)
(* flows, of which one gets no answers, it has one, and evictions.         *)
Handles(c, f) == cpus[c].step # "idle" /\ cpus[c].key[1] = f

Present(f) ==
  \/ \E k \in Tracked \union pass.expired : k[1] = f
  \/ \E c \in Cpus : Handles(c, f)

TcpAlone == ~Present(udp) /\ ~Present(dns)

OneCpu ==
  /\ cpus[cpu2] = Idle
  /\ Handles(cpu1, dns) => cpus[cpu1].key[2] = "fwd"

TwoCpusOrEvictions == TcpAlone \/ OneCpu
=============================================================================
