SPECIFICATION FairSpec
CONSTANTS
  Creators = {c1}
  Observers = {o1}
  CompactLoad = 2
  MaxLoad = 3
  Slots = 3
  MaxFailures = 1
  MaxChecks = 2
INVARIANT OneCompaction
INVARIANT PassiveCompacted
PROPERTY WaitersWake
PROPERTY RoomReturns
PROPERTY CloseReturns
CHECK_DEADLOCK FALSE
