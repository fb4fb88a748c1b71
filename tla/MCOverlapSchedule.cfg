CONSTANTS
  Ranks = {r1, r2}
  MaxDegree = 3
SPECIFICATION FairSpec
INVARIANTS
  ComputeAfterCollectives
  StagesReadFinishedData
  GradientsHaveOneWriter
  ResultIsComplete
  PrefetchWaitsForReduce
PROPERTIES
  Completes
CHECK_DEADLOCK FALSE
