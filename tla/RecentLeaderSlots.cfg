CONSTANTS
  Slot <- MCSlot
  RecentLen = 5
  MaxSlotSkipDistance = 1
SPECIFICATION Spec
INVARIANTS
  FutureSlotsBounded
  PastSlotsBounded
PROPERTY
  InOrderNeverRegresses
