SPECIFICATION Spec
CONSTANTS
  r1 = r1
  r2 = r2
  NoRegion = NoRegion
  Requests <- MCRequests
  POINTS <- MCPoints
  REGION_OF <- MCRegionOf
  MaxUsers = 1
  MaxTokens = 1
CHECK_DEADLOCK FALSE
PROPERTIES FailedLookupErasesNothing
