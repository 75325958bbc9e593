SPECIFICATION MCSpec
\* A cluster that no longer changes is at rest in the end.
CHECK_DEADLOCK FALSE
CONSTANTS
  http = http
  short = short
  long = long
  None = None
  Ports <- MCOnePort
  Lists <- MCLists
  Capacity = 1
  MaxChanges = 3
  MaxFailures = 1
  v4 = v4
  v6 = v6
  a = a
  b = b
  c = c
  junk = junk
  Absent = Absent
  Addresses <- MCAddresses
  Family <- MCFamily
  ServicePortLists <- MCServicePortLists
  SlicePortLists <- MCSlicePortLists
  EndpointLists <- MCEndpointLists
  ClusterIps <- MCClusterIps
  MaxSlices = 2
INVARIANT ListsAreExact
PROPERTIES EventuallyPublished SettledStays
