SPECIFICATION FairSpec
CONSTANTS
  legacy = legacy
  new = new
  rival = rival
  a = a
  b = b
  s1 = s1
  s2 = s2
  w1 = w1
  w2 = w2
  Sources = {s1}
  Workers = {w1}
  Versions = {"v1", "v2"}
  Texts = {a, b}
  Contents <- OneText
  MaxChunks = 2
  Profiles = {legacy, new}
  NoProfile = none
  Canonical <- MCCanonical
  Flags <- ShownFlags
  BatchSize = 1
  Nonces = {0}
  LeaseTicks = 1
  AttemptLimit = 2
  candidatesPerLeg = 1
  MaxEpoch = 3
INVARIANTS
  PublishedIsWhole
  NotStranded
PROPERTIES
  LiveClaimsAreNotStolen
  ImplementsAbstract
  EventuallySettled
CHECK_DEADLOCK FALSE
