CONSTANTS
  a1 = a1
  a2 = a2
  c1 = c1
  c2 = c2
  p1 = p1
  p2 = p2
  p3 = p3
  Addr <- MCAddr
  Callers <- MCCallers
  Pools <- MCPools
  PoolSize = 2
  MaxPools = 1
  LastKey = 3
  None = None
SPECIFICATION FairSpec
INVARIANTS
  PoolTypeOK
  CallsUseKeyInForce
  OpenWhileInUse
PROPERTIES
  OldKeysRetire
