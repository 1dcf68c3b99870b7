SPECIFICATION Spec
CONSTANTS
  c1 = c1
  c2 = c2
  c3 = c3
  t1 = t1
  t2 = t2
  u = u
  a = a
  Contexts = {c1, c2, c3}
  Threads = {t1, t2}
  UserKeys = {u}
  AppKeys = {a}
  ThreadOf <- MCThreadOf
  AppKeyOf <- MCAppKeyOf
  FailureModeDeny = TRUE
INVARIANT
  NoStrandedWaiter
CHECK_DEADLOCK FALSE
