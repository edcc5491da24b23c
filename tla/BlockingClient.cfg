CONSTANTS
  c1 = c1
  c2 = c2
  t1 = t1
  t2 = t2
  t3 = t3
  t4 = t4
  k1 = k1
  Callers <- MCCallers
  Permits = 3
  Tasks <- MCTasks
  Connection <- MCConnections
  Batches <- MCBatches
SPECIFICATION FairClientSpec
INVARIANTS
  ClientTypeOK
  PermitsConserved
  NobodyStranded
  SpawnedSendsBounded
PROPERTIES
  ImplementsBoundedTasks
  PermitsReturn
