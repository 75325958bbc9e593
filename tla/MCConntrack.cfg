SPECIFICATION FairSpec
CONSTANTS
  tcp = tcp
  udp = udp
  dns = dns
  cpu1 = cpu1
  cpu2 = cpu2
  None = None
  TcpFlows <- MCTcpFlows
  UdpFlows <- MCUdpFlows
  Cpus <- MCCpus
  TcpTimeout = 2
  UdpTimeout = 1
  MaxEntries = 2
  MaxLag = 1
  Place <- FlowAfterFlow
CONSTRAINT TwoCpusOrEvictions
INVARIANTS TcpEntryIsTheClients LastSeenIsRecent
PROPERTIES CleanupSparesTheLiving SilentFlowsGo
