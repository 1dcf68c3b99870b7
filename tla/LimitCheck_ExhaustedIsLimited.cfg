SPECIFICATION Spec
CONSTANTS
  Metrics <- MCMetrics
  Requests <- MCRequests
  Apps <- OvershotApps
  Hierarchies <- NoHierarchy
  Times = {2, 3, 4, 5, 6, 7}
  Word = 8
  OverflowChecks = FALSE
INVARIANT
  ExhaustedIsLimited
CHECK_DEADLOCK FALSE
