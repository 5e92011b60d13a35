\* Two gateways, two users, two requests and one crash, loss or failure.
CONSTANTS
  None = None
  Names = {n1}
  Users = {u1, u2}
  Emails = {e1, e2}
  Gateways = {g1, g2}
  Requests = {r1, r2}
  MaxFaults = 1
SPECIFICATION Spec
SYMMETRY Symmetry
INVARIANTS
  OnlyCommittedRows
  DefiniteResultsAreTrue
  CacheCoherentUnlessRaced
PROPERTY
  ImplementsDirectory
CHECK_DEADLOCK FALSE
