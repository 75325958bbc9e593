SPECIFICATION FairPluginSpec
CONSTANTS
  pod = pod
  alone = alone
  veth1 = veth1
  veth2 = veth2
  eth0 = eth0
  ServiceMaps <- MCServiceMaps
  PolicyMaps <- MCPolicyMaps
  Ifaces <- MCIfaces
  Containers <- MCContainers
  Chained <- MCChained
  Previous <- MCPrevious
  IfName = eth0
  MaxFailures = 3
INVARIANTS AgentServesOneLoad AddedPodsStayAttached PinsInv
INVARIANTS AnsweredAddIsAttached DeletedIsDetached
PROPERTIES AgentComesUp EveryCommandAnswered
