CONSTANTS
  Regions <- MCRegions
  Streets <- MCAllStreets
  Varna <- MCVarna
  Users <- MCUsers
  LineNames <- MCLineNames
  ChunkSize = 3
  Twins <- MCTwins
  Alike <- MCAlike
  Details <- MCDetails
  GenericNames <- MCGenericNames
  Zone = "zona"
  Messages <- MCAllMessages
  Categories = {"vik", "heating"}
  Parses <- MCParses
  Rings <- MCRings
  Alerts <- MCAlerts
  Day = 3
  Schedules <- MCSchedules
  Today = 2
  Created <- MCCreated
  Ways <- MCWays
  Variants <- MCVariants
  Outlines <- MCOutlines
  FacesOf <- MCFacesOf
  Deadlines <- MCDeadlines
  NEED <- MCNeed
  PAUSE <- MCPause
  TIMEOUT <- MCTimeout
  Fallbacks = {"primary", "fallback"}
SPECIFICATION AlgorithmsSpec
CHECK_DEADLOCK FALSE
INVARIANTS TextSafe AudienceSafe ActiveWhenPublished BlocksSafe AttemptsWellSpent
PROPERTIES AttemptsEnd
