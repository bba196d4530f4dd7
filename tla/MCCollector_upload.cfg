SPECIFICATION Spec
CONSTANTS
  x = x
  y = y
  torn = torn
  blank = blank
  s1 = s1
  s2 = s2
  Files = {"f", "g"}
  Sources = {s1}
  KeyOf <- OneKey
  OriginOf <- OneOrigin
  Contents = {x, y}
  Usable = {x, y}
  Digests = {x, y, blank}
  Redacted <- BlankX
  Policies = {"p", "q"}
  Restrictions <- AllOpen
  maxAttempts = 2
  MaxRequests = 3
  MaxDisturbances = 4
INVARIANTS
  TypeOK
  HeadFollowsArchive
  NeverConflicts
  OneRequestPerSource
PROPERTIES
  TombstonesAreFinal
CHECK_DEADLOCK FALSE
