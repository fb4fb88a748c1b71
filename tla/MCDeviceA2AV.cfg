CONSTANTS
  Configs <- PairAndAlone
SPECIFICATION FairSpec
INVARIANTS
  BlocksMeet
  PadReturnsToZero
  OutputIsExact
PROPERTIES
  Completes
CHECK_DEADLOCK FALSE
