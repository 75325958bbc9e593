SPECIFICATION Spec
CONSTANTS
  pod1 = pod1
  pod2 = pod2
  ServiceMaps <- MCServiceMaps
  PolicyMaps <- MCPolicyMaps
  Ifaces <- MCIfaces
  MaxFailures = 3
INVARIANT FailedAddLeavesNoPins
