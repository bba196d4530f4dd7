SPECIFICATION Spec
CONSTANTS
  MaxAgents = 3
  MaxRuns = 2
  maxRunnable = 2
  maxResidentWorkers = 3
  MayNest = {2}
  MayWait = {1}
  MayGetTasks = {1}
  MaxTrouble = 2
  MaxCrashes = 0
INVARIANTS
  LeasesAccounted
CHECK_DEADLOCK FALSE
