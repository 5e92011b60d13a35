\* One request is answered into the write buffer, then the service is stopped.
CONSTANTS
  None = None
  Names = {n1}
  Users = {u1}
  Emails = {e1}
  Gateways = {g1}
  Requests = {r1}
  MaxFaults = 1
SPECIFICATION Spec
PROPERTY
  StopDrains
CHECK_DEADLOCK FALSE
