CONSTANTS
  RecentLen = 3
  MaxSlotSkipDistance = 3
  MaxFanoutSlots = 4
  NumConsecutiveLeaderSlots = 2
  QuicPortOffset = 6
  MaxPort = 20
  NoPort = NoPort
  BadPubkey = "bad"
  FanoutSlots = 4
  Rotation <- MCRotation
  StartSlot = 1
  EpochLengths = {8}
  ContactLists <- MCOneContactList
  Lag = 0
  StraySlots = {}
  PubsubMayFail = FALSE
  MaxClock = 7
  StartTimeout = 3
  RetryInterval = 1
  WebsocketUrls = {"", "ws"}
SPECIFICATION FairStartSpec
INVARIANTS
  StartTypeOK
  LateScheduleTolerated
  FiledBetweenRequestAndClock
  UpcomingLeadersContacted
PROPERTY
  StartDecided
CHECK_DEADLOCK FALSE
