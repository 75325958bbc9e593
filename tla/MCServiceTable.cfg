SPECIFICATION FairSpec
CONSTANTS
  web = web
  db = db
  dual = dual
  e1 = e1
  e2 = e2
  e3 = e3
  c1 = c1
  None = None
  KeysV4 <- MCOneKey
  KeysV6 <- MCKeysV6
  Endpoints <- MCAllEndpoints
  Pool <- MCPairPool
  Conns <- MCNoConns
  FirstId = 1
  IdLimit = 5
  MaxCount = 2
  Accidents = {}
CONSTRAINT IdsRemain
INVARIANT ListsInv
PROPERTIES ImplementsTable ErrorsAsPromised WholeServiceIsRemoved
