SPECIFICATION Spec
CONSTANTS
  w1 = w1
  w2 = w2
  u1 = u1
  Absent = Absent
  NoPoint = NoPoint
  NotCached = NotCached
  Places <- MCPlaces
  Users <- MCUsers
  LOCATION <- MCLocation
  Budget <- MCBudget
  MIN_SPACING = 2
  ROOM = 1
  REQUEST_TIMEOUT = 2
  MAX_STREETS = 3
  MaxFaults = 1
INVARIANTS ThrottleSafe AnswersHonest RoomToAnswer
PROPERTIES LookupsEnd
CHECK_DEADLOCK FALSE
