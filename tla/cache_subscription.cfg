\* Three goroutines over one connection.
CONSTANTS
  None = None
  Callers = {c1, c2, c3}
SPECIFICATION Spec
INVARIANTS
  TypeOK
  NoDoubleApplication
  AllOrNothing
