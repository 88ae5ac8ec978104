CONSTANTS
  Regions <- MCRegions
  Streets <- MCStreets
  Varna <- MCVarna
  Users <- MCUsers
  LineNames <- MCLineNames
  ChunkSize = 3
  Twins <- MCTwins
  Alike <- MCAlike
  Details <- MCDetails
  GenericNames <- MCGenericNames
  Zone = "zona"
  Messages <- MCMessages
  Categories = {"vik", "heating"}
  Parses <- MCParses
  Rings <- MCRings
  Alerts <- MCAlerts
SPECIFICATION Spec
CHECK_DEADLOCK FALSE
INVARIANTS NeverAnotherSettlement
