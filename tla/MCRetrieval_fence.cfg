SPECIFICATION Spec
CONSTANTS
  legacy = legacy
  new = new
  rival = rival
  a = a
  b = b
  s1 = s1
  s2 = s2
  w1 = w1
  w2 = w2
  Sources = {s1}
  Workers = {w1, w2}
  Versions = {"v1", "v2"}
  Texts = {a, b}
  Contents <- OneText
  MaxChunks = 2
  Profiles = {new}
  NoProfile = none
  Canonical <- MCCanonical
  Flags <- FenceFlags
  BatchSize = 1
  Nonces = {0, 1}
  LeaseTicks = 2
  AttemptLimit = 2
  candidatesPerLeg = 1
  MaxEpoch = 2
SYMMETRY Symmetry
INVARIANTS
  TypeOK
  OneHolder
  AcceptNeverConflicts
PROPERTIES
  LiveClaimsAreNotStolen
CHECK_DEADLOCK FALSE
