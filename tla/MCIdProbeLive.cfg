SPECIFICATION FairSpec
CONSTANTS
  MaxPublished = 3
  MaxId = 4
  History = 1
  MaxFaults = 0
  PushCeiling = 2
  MAX_PUSH_ATTEMPTS = 1
  MAX_PRE_STORE_ATTEMPTS = 1
  MAX_MESSAGES_PER_TICK = 2
  MAX_CONSECUTIVE_MISSES = 1
  Hedged <- MCHedged
  Restates <- MCRestates
PROPERTY ListedMessagePassed
