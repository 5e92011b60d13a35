\* Lengths at both sides of every limit.
CONSTANTS
  None = None
  NameLengths = {1, 2, 50, 51}
  EmailLengths = {255, 256}
  PhoneLengths = {6, 7, 20, 21}
  Ages = {0, 3, 4}
  MaxInt32 = 3
SPECIFICATION Spec
INVARIANTS
  TypeOK
  OnlyUnstorableFails
  LayersAgree
  StatusTellsOutcome
  DeletedIsForgotten
