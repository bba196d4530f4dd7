SPECIFICATION FairSpec
CONSTANTS
  x = x
  y = y
  torn = torn
  blank = blank
  s1 = s1
  s2 = s2
  Files = {"f"}
  Sources = {s1}
  KeyOf <- OneKey
  OriginOf <- TwoOrigins
  Contents = {x, y, torn}
  Usable = {x, y}
  Digests = {x, y, torn, blank}
  Redacted <- BlankX
  Policies = {"p", "q"}
  Restrictions <- SomeHeld
  maxAttempts = 2
  MaxRequests = 3
  MaxDisturbances = 3
INVARIANTS
  OnlyAdmittedBytesLeave
PROPERTIES
  EventuallyArchived
CHECK_DEADLOCK FALSE
