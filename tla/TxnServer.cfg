CONSTANTS
  l1 = l1
  l2 = l2
  e1 = e1
  NoSends = NoSends
  Leader <- MCLeaders
  Requests <- MCRequests
  BatchSize = 2
  LeaderLists <- MCLeaderLists
  SendError <- MCErrors
  MaxRetries = 3
SPECIFICATION FairSpec
INVARIANTS
  BatchesInOrder
  SuccessMeansAccepted
  UpcomingReachedInTurn
  ErrorMeansExhausted
PROPERTIES
  NoRetryAfterSuccess
  Answered
CHECK_DEADLOCK FALSE
