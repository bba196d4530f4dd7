SPECIFICATION Spec
CONSTANTS
  MaxAgents = 2
  MaxRuns = 2
  maxRunnable = 1
  maxResidentWorkers = 2
  MayNest = {1, 2}
  MayWait = {}
  MayGetTasks = {2}
  MaxTrouble = 1
  MaxCrashes = 0
INVARIANTS
  RunsAreOwned
CHECK_DEADLOCK FALSE
