SPECIFICATION FairSpec
CONSTANTS
  s1 = s1
  s2 = s2
  p1 = p1
  p2 = p2
  Segments = {s1, s2}
  Placements = {p1, p2}
  Included = {p1, p2}
  Configs <- MCConfigs
  Workers = {w1}
  Healths = {1, 2}
  MaxFaults = 1
INVARIANTS
  TypeOK
  Bounded
  PushedQueued
PROPERTIES
  WorstTaken
