SPECIFICATION Spec
CONSTANTS
  s1 = s1
  k1 = k1
  k2 = k2
  a1 = a1
  a2 = a2
  x = x
  y = y
  Inputs <- MCInputs
  FlushModes <- MCFlushModes
  Capacity = 9
  ServiceSize = 3
  AppSize = 2
  MetricSize = 1
  MaxMessages = 2
  MaxTicks = 1
INVARIANTS
  TypeOK
  MemoryMatches
  UsageConserved
  CallsTracked
PROPERTY
  UsageIsFlushed
CHECK_DEADLOCK FALSE
