CONSTANTS
  a = a
  b = b
  AllSources = {a, b}
  Configs <- SoundConfigs
  LargeHead = 100
SPECIFICATION FairSpec
INVARIANTS
  TypeOK
  PendingSlotsIntact
  ReducedFromItsSources
PROPERTIES
  Completes
  ImplementsStreams
