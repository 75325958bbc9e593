SPECIFICATION FairSpec
CONSTANTS
  web = web
  remote = remote
  mesh = mesh
  http = http
  https = https
  grpc = grpc
  a = a
  b = b
  None = None
  Services <- MCServices
  MeshEndpoints <- MCMeshEndpoints
  Keys <- MCKeys
  KeysOf <- MCKeysOf
  ListOf <- MCListOf
  Labelled <- MCLabelled
  MaxVersion = 3
CONSTRAINT LongHistoryAlone
INVARIANT TypeOK
PROPERTIES NeverBackToAnOlderList EventuallyCurrent
CHECK_DEADLOCK FALSE
