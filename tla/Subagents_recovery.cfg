SPECIFICATION FairSpec
CONSTANTS
  MaxAgents = 2
  MaxRuns = 2
  maxRunnable = 1
  maxResidentWorkers = 1
  MayNest = {1, 2}
  MayWait = {1}
  MayGetTasks = {1, 2}
  MaxTrouble = 1
  MaxCrashes = 1
INVARIANTS
  TypeOK
  OutcomeIsFinal
  JournalCarriesRuns
  QuarantineHolds
PROPERTIES
  StartedRunsEnd
  QueueDrains
CHECK_DEADLOCK FALSE
