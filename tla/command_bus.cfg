\* Arbitrary clients of the bus: two commands, two users, one fault.
CONSTANTS
  None = None
  Names = {n1}
  Users = {u1, u2}
  Emails = {e1, e2}
  Requests = {r1, r2}
  MaxFaults = 1
SPECIFICATION FairSpec
INVARIANTS
  TypeOK
  EveryCommitAnnounced
  UpdatesAnnouncedInOrder
PROPERTY
  EveryCommandAnswered
CHECK_DEADLOCK FALSE
