\* Two connections, one of which may stop reading.
CONSTANTS
  None = None
  Conns = {c1, c2}
  EventIds = {r1}
  Capacity = 1
  Stalling = {c2}
SPECIFICATION FairSpec
PROPERTY
  ContinuouslyListens
CHECK_DEADLOCK FALSE
