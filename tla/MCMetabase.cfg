SPECIFICATION Spec
CONSTANTS
  k1 = k1
  Keys = {k1}
  Positions = {1}
  Created = {"plain"}
  Holds = {FALSE, TRUE}
  Modes = {"compliance"}
  TTLs <- MCTTLs
  MaxVersion = 3
  MaxStreams = 2
  MaxNow = 1
  MaxFailures = 1
  MaxReaders = 1
INVARIANTS
  OneUnversioned
  ObjectWhole
  SegmentsOwned
  StreamsUnique
PROPERTIES
  LockedKept
  NewestOnTop
CHECK_DEADLOCK FALSE
