SPECIFICATION FairSpec
CONSTANTS
  p1 = p1
  p2 = p2
  p3 = p3
  p4 = p4
  Procs = {p1, p2, p3, p4}
  activeReadLimit = 2
  syncLifo = FALSE
INVARIANTS
  TypeOK
  MutualExclusion
  Accounting
  ReadLimit
  WaitersHaveHolder
PROPERTY
  NoStarvation
