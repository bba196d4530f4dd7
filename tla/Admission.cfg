SPECIFICATION FairSpec
CONSTANTS
  Callers = {c1, c2, c3, c4}
  maxActive = 2
  maxQueued = 1
INVARIANTS
  TypeOK
  CapacityIsConserved
  ClosedIsQuiet
PROPERTIES
  CloseReturns
CHECK_DEADLOCK FALSE
