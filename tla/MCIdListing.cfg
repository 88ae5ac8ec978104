SPECIFICATION FairSpec
CONSTANTS
  MaxId = 3
  History = 1
  MaxFaults = 1
  PushCeiling = 5
  MAX_PUSH_ATTEMPTS = 2
  MAX_PRE_STORE_ATTEMPTS = 2
  MAX_MESSAGES_PER_TICK = 2
  Hedged <- MCHedged
  Restates <- MCRestates
INVARIANTS CursorSafe StampedMeansDelivered OnlyFailuresRepeat
PROPERTIES PushesInOrder NoPushAfterStamp ImplementsOrderedDelivery EveryMessagePassed
