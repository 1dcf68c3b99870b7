SPECIFICATION Spec
CONSTANTS
  c1 = c1
  c2 = c2
  Contexts = {c1, c2}
  Threads = {c1, c2}
  ThreadOf <- MCThreadOf
  Hits <- MCHits
  Singleton = Singleton
  Sizes = {1, 3}
  InitialSize = 1
  Quota = 3
  MaxTries = 2
  MaxWrites = 2
  FailureModeDeny = TRUE
INVARIANTS
  TypeOK
  QuotaConserved
  ChargedIsReported
  MemoryFollows
PROPERTY
  ImplementsAtomicHit
CHECK_DEADLOCK FALSE
