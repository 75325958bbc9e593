SPECIFICATION Spec
CONSTANTS
  web = web
  db = db
  dual = dual
  e1 = e1
  e2 = e2
  e3 = e3
  c1 = c1
  None = None
  KeysV4 <- MCKeysV4
  KeysV6 <- MCNoKeys
  Endpoints <- MCEndpoints
  Pool <- MCPoolV4
  Conns <- MCConns
  FirstId = 0
  IdLimit = 3
  MaxCount = 1
  Accidents = {}
INVARIANT NoJunkEndpoint
