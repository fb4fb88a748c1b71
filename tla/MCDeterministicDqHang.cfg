CONSTANTS
  Configs <- MergedConfigs
  NumSms = 2
SPECIFICATION FairSpec
PROPERTIES
  Completes
CHECK_DEADLOCK FALSE
