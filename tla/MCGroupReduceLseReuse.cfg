CONSTANTS
  a = a
  b = b
  AllSources = {a, b}
  Configs <- LseConfigs
  LargeHead = 100
SPECIFICATION Spec
INVARIANTS
  LseMatchesHidden
