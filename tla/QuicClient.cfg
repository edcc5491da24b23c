CONSTANTS
  s1 = s1
  s2 = s2
  k1 = k1
  k2 = k2
  k3 = k3
  None = None
  Sender <- MCTwoSenders
  ConnId <- MCThreeIds
  Batches <- MCBatches
  IdsReused = FALSE
SPECIFICATION FairSpec
INVARIANTS
  TypeOK
  NeverPanics
  WireIsRunOnOneConnection
  OkMeansWritten
  CalmCallsSucceed
PROPERTIES
  HealthyConnectionKept
  ImplementsBatchSend
  CallsEnd
