SPECIFICATION FairSpec
CONSTANTS
  Nodes = {n1}
  Spares = {m1}
  Segments = {s1}
  Holders <- All
  Workers = {w1}
  Required = 0
  MaxReverify = 2
  MaxBusy = 2
  MaxFaults = 1
INVARIANT TypeOK
INVARIANT NoFalseBlame
PROPERTY DroppedLost
PROPERTY ContainmentSettles
PROPERTY JobLeaves
