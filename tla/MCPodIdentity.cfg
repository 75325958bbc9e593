SPECIFICATION MCSpec
\* A cluster that no longer changes is at rest in the end.
CHECK_DEADLOCK FALSE
CONSTANTS
  p1 = p1
  p2 = p2
  host = host
  here = here
  a1 = a1
  a2 = a2
  h1 = h1
  plain = plain
  web = web
  db = db
  i1 = i1
  i2 = i2
  local = local
  remote = remote
  LocalId = local
  RemoteId = remote
  LocalNode = here
  None = None
  Pods <- MCPods
  HostPods <- MCHostPods
  Nodes <- MCNodes
  PodAddresses <- MCPodAddresses
  NodeAddresses <- MCNodeAddresses
  NsLabels <- MCNsLabels
  PodLabels <- MCPodLabels
  Ids <- MCIds
  Capacity = 2
  MaxChanges = 2
  MaxFailures = 1
CONSTRAINT TwoClusters
INVARIANTS CacheInMap NodeAddressesAreNodes
PROPERTIES SettledStays EventuallyIdentified
