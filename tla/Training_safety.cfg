SPECIFICATION FenceSpec
CONSTANTS
  WorldSize = 3
  MaxSteps = 5
  CheckpointEvery = 2
  MaxRestarts = 3
  Lingering = FALSE
  Programs = {"smollm"}
  GradientAccumulation = 2
  AfterStep = 1
  QuiescenceWindow = 2
INVARIANTS TypeOK RanksInStep BoundedLoss RanksNeverStuck ResumesWhereItWas FenceIsExact
PROPERTIES ImplementsTrainingProgress
CHECK_DEADLOCK FALSE
