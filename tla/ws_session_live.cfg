\* Two connections, one request; peers read or leave.
CONSTANTS
  None = None
  Conns = {c1, c2}
  EventIds = {r1}
  Capacity = 1
  Stalling = {}
SPECIFICATION FairSpec
PROPERTIES
  EveryRequestConcluded
  EventsReachClients
  ReadersFinish
CHECK_DEADLOCK FALSE
