\* Two requests about one user make a cache stale for good.
CONSTANTS
  None = None
  Names = {n1}
  Users = {u1}
  Emails = {e1}
  Gateways = {g1}
  Requests = {r1, r2}
  MaxFaults = 0
SPECIFICATION Spec
INVARIANT
  CacheUpToDate
CHECK_DEADLOCK FALSE
