CONSTANTS
  l1 = l1
  l2 = l2
  e1 = e1
  NoSends = NoSends
  Leader <- MCLeaders
  Requests <- MCUndecodable
  BatchSize = 2
  LeaderLists <- MCLeaderLists
  SendError <- MCErrors
  MaxRetries = 3
SPECIFICATION Spec
INVARIANT
  SuccessMeansSent
CHECK_DEADLOCK FALSE
