SPECIFICATION Spec
CONSTANTS
  k1 = k1
  Keys = {k1}
  Positions = {1}
  Created = {"locked"}
  Holds = {FALSE}
  Modes = {"compliance"}
  TTLs <- MCTTLs
  MaxVersion = 3
  MaxStreams = 2
  MaxNow = 1
  MaxFailures = 1
  MaxReaders = 1
PROPERTY
  LockedAlwaysKept
CHECK_DEADLOCK FALSE
