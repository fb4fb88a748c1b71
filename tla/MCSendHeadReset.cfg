CONSTANTS
  NumTokens = 7
  WarpSize = 3
  NumPasses = 2
  LargeHead = 100
SPECIFICATION Spec
INVARIANTS
  ResetIsCorrect
PROPERTIES
  CodesAreFinal
CHECK_DEADLOCK FALSE
