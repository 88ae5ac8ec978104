SPECIFICATION Spec
CONSTANTS
  r1 = r1
  r2 = r2
  NoRegion = NoRegion
  Requests <- MCRequests
  POINTS <- MCPoints
  REGION_OF <- MCRegionOf
  MaxUsers = 2
  MaxTokens = 2
INVARIANTS AccountsSafe LinksSafe CompletedLookupDecides
CHECK_DEADLOCK FALSE
SYMMETRY Symmetry
