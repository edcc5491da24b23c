CONSTANTS
  RecentLen = 2
  MaxSlotSkipDistance = 1
  MaxFanoutSlots = 2
  NumConsecutiveLeaderSlots = 1
  QuicPortOffset = 6
  MaxPort = 20
  NoPort = NoPort
  BadPubkey = "bad"
  FanoutSlots = 2
  Rotation <- MCRotation
  StartSlot = 1
  EpochLengths = {9}
  ContactLists <- MCContactLists
  Lag = 0
  StraySlots = {}
  PubsubMayFail = TRUE
  MaxClock = 4
SPECIFICATION FairSpec
PROPERTIES
  KeepsUpToDate
CHECK_DEADLOCK FALSE
