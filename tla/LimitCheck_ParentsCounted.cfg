SPECIFICATION Spec
CONSTANTS
  Metrics <- MCMetrics
  Requests <- MCRequests
  Apps <- MCApps
  Hierarchies <- SomeHierarchy
  Times = {2, 3, 4, 5, 6, 7}
  Word = 8
  OverflowChecks = FALSE
INVARIANT
  ParentsCounted
CHECK_DEADLOCK FALSE
