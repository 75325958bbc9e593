SPECIFICATION FairSpec
CONSTANTS
  default = default
  other = other
  p1 = p1
  p2 = p2
  p3 = p3
  plain = plain
  team = team
  web = web
  i1 = i1
  i2 = i2
  i3 = i3
  i4 = i4
  None = None
  Namespaces <- MCNamespaces
  Pods <- MCPods
  NamespaceOf <- MCNamespaceOf
  NsLabels <- MCNsLabels
  PodLabels <- MCPodLabels
  Ids <- MCIds
  Capacity = 3
  MaxChanges = 2
  MaxFailures = 1
PROPERTIES FirmIdsStay EventuallyExact
