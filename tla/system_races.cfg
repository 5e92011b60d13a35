\* One gateway, three requests about one user, nothing fails.
CONSTANTS
  None = None
  Names = {n1}
  Users = {u1}
  Emails = {e1}
  Gateways = {g1}
  Requests = {r1, r2, r3}
  MaxFaults = 0
SPECIFICATION Spec
SYMMETRY Symmetry
INVARIANTS
  CacheCoherentUnlessRaced
  UpdatesApplyInOrder
CHECK_DEADLOCK FALSE
