CONSTANTS
  r1 = r1
  r2 = r2
  Ranks = {r1, r2}
  MaxCalls = 3
  TimesOut = TRUE
SPECIFICATION FairSpec
INVARIANTS
  TypeOK
  BarrierSafety
  SignalsSuffice
PROPERTIES
  ImplementsBarrier
  AllCallsReturn
CHECK_DEADLOCK FALSE
