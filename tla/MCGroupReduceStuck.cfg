CONSTANTS
  a = a
  b = b
  AllSources = {a, b}
  Configs <- SmallConfigs
  LargeHead = 100
SPECIFICATION FairSpec
PROPERTIES
  Completes
