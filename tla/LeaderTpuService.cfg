CONSTANTS
  RecentLen = 2
  MaxSlotSkipDistance = 2
  MaxFanoutSlots = 2
  NumConsecutiveLeaderSlots = 1
  QuicPortOffset = 6
  MaxPort = 20
  NoPort = NoPort
  BadPubkey = "bad"
  FanoutSlots = 2
  Rotation <- MCRotation
  StartSlot = 2
  EpochLengths = {3}
  ContactLists <- MCOneContactList
  Lag = 1
  StraySlots = {6}
  PubsubMayFail = FALSE
  MaxClock = 3
SPECIFICATION Spec
INVARIANTS
  CacheIsScheduleWindow
  UpcomingLeadersContacted
  OnlyScheduledLeadersContacted
CHECK_DEADLOCK FALSE
