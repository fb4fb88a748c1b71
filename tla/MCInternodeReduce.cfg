CONSTANTS
  Configs <- Instances
  ReduceSizes <- Sizes
  LargeHead = 33554432
SPECIFICATION FairKernelsSpec
INVARIANTS
  SlotsIntact
  ResultsAreExact
PROPERTIES
  KernelsComplete
CHECK_DEADLOCK FALSE
