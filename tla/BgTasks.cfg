SPECIFICATION Spec
CONSTANTS
  MaxTasks = 2
  Forking = {1}
  Failing = {2}
  MaxStops = 1
  MaxFaults = 1
  MaxCrashes = 1
INVARIANTS
  EndedMeansGone
  SignalsStayHome
  UnfinishedIsOwned
  RecordsMatchArtifacts
  HandoffLosesNoReply
  TerminateIsAnswered
  SpawnIsAnswered
PROPERTIES
  OutcomeIsFinal
CHECK_DEADLOCK FALSE
