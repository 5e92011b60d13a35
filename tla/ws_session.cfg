\* Two connections, two requests, a channel for one message.
CONSTANTS
  None = None
  Conns = {c1, c2}
  EventIds = {r1, r2}
  Capacity = 1
  Stalling = {}
SPECIFICATION Spec
SYMMETRY Symmetry
INVARIANTS
  TypeOK
  FeedsAreGapless
  ExitsAreClean
  NothingLostInside
  SilenceIsAnnounced
  RefusalsAreFinal
CHECK_DEADLOCK FALSE
