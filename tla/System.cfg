SPECIFICATION Spec
CONSTANTS
  a1 = a1
  t1 = t1
  t2 = t2
  Apps = {a1}
  Tokens = {t1, t2}
  Retiring = {t1}
  Limit = 1
  Word = 4
  Builds = {TRUE, FALSE}
  Capacity = 2
  Slots = {1, 2, 3}
  MaxRequests = 3
  MaxFaults = 1
INVARIANTS
  TypeOK
  LedgerBalances
  QuotaNotLost
PROPERTY CacheConverges
CHECK_DEADLOCK FALSE
