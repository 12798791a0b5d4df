SPECIFICATION Spec
CONSTANTS
  TopSites = {t}
  BodySites = {a, b}
  MaxNodes = 5
  MaxRuns = 2
  MaxDepth = 4
  MaxCalls = 5
  MaxTime = 1
SYMMETRY BodySymmetry
INVARIANTS
  TimesExact
CHECK_DEADLOCK FALSE
