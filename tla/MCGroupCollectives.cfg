CONSTANTS
  NumRanks = 2
  NumColls = 3
  Counts <- AlternatingMatrices
  SlotWords = 4
SPECIFICATION FairSpec
INVARIANTS
  MetadataIsCurrent
  NothingIsLost
  DeliveredIsSent
  PrefixIsTrue
  RecvCountIsRight
PROPERTIES
  Completes
CHECK_DEADLOCK FALSE
