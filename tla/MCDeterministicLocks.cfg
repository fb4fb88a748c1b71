CONSTANTS
  Configs <- SoundConfigs
  NumSms = 2
SPECIFICATION FairSpec
INVARIANTS
  TypeOK
  TurnIsEarned
PROPERTIES
  ImplementsReduction
  Completes
CHECK_DEADLOCK FALSE
