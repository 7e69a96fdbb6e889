SPECIFICATION Spec
CONSTANTS
  WorldSize = 2
  MaxSteps = 5
  CheckpointEvery = 2
  MaxRestarts = 2
  Lingering = TRUE
  Programs = {"smollm"}
INVARIANTS RanksInStep
CHECK_DEADLOCK FALSE
