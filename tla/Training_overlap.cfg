SPECIFICATION LiveSpec
CONSTANTS
  WorldSize = 2
  MaxSteps = 4
  CheckpointEvery = 1
  MaxRestarts = 3
  Lingering = TRUE
  Programs = {"smollm", "local"}
INVARIANTS LatestHasStepFile
PROPERTIES RegressesOnlyWhenDisturbed JobEnds
CHECK_DEADLOCK FALSE
