SPECIFICATION Spec
CONSTANTS
  MaxAgents = 3
  MaxRuns = 2
  maxRunnable = 2
  maxResidentWorkers = 3
  MayNest = {1, 2, 3}
  MayWait = {1}
  MayGetTasks = {2}
  MaxTrouble = 1
  MaxCrashes = 0
INVARIANTS
  LeasesExclusive
  NoIdleCapacity
  OneGenerationAtATime
  OwnerJoinsDescendants
  JournalCarriesRuns
CHECK_DEADLOCK FALSE
