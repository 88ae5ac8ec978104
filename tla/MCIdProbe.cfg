SPECIFICATION Spec
CONSTANTS
  MaxPublished = 4
  MaxId = 5
  History = 1
  MaxFaults = 1
  PushCeiling = 2
  MAX_PUSH_ATTEMPTS = 1
  MAX_PRE_STORE_ATTEMPTS = 1
  MAX_MESSAGES_PER_TICK = 2
  MAX_CONSECUTIVE_MISSES = 2
  Hedged <- MCHedged
  Restates <- MCRestates
INVARIANTS CursorSafe UnpublishedNotPassed
PROPERTIES PushesInOrder
