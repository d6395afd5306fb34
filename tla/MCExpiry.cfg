SPECIFICATION Spec
CONSTANTS
  Keys = {k1}
  DayLen = 2
  ExpiresDays = 1
  Skew = 2
  CommitDelay = 1
  Ttls = {1, 4}
  MaxTime = 8
  MaxFilters = 2
  FilterGap = 1
INVARIANT LiveNeverTrashed
PROPERTY DropJustified
PROPERTY RestoreSaves
