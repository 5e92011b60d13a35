\* One gateway, one user, two requests and one crash, loss or failure.
CONSTANTS
  None = None
  Names = {n1}
  Users = {u1}
  Emails = {e1}
  Gateways = {g1}
  Requests = {r1, r2}
  MaxFaults = 1
SPECIFICATION FairSpec
INVARIANT
  TypeOK
PROPERTY
  CachesConverge
CHECK_DEADLOCK FALSE
