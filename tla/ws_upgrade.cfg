\* One handshake is enough.
CONSTANTS
  None = None
  NameLengths = {2}
  EmailLengths = {255}
  PhoneLengths = {7}
  Ages = {1}
  MaxInt32 = 3
SPECIFICATION Spec
INVARIANT
  UpgradeTakesOver
