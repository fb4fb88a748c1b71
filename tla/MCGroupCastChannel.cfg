CONSTANTS
  NumTokens = 5
  NumWarps = 3
  QueueSize = 3
  ChunkSize = 2
  StartOffset = 3
  TimesOut = TRUE
SPECIFICATION FairSpec
INVARIANTS
  UnreadSlotsIntact
  WarpsAgreeOnTail
  CompleteAtEnd
PROPERTIES
  Completes
  ImplementsStream
