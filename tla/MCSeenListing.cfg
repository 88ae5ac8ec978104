SPECIFICATION Spec
CONSTANTS
  MaxId = 5
  MaxFaults = 1
  PushCeiling = 2
  MAX_PUSH_ATTEMPTS = 1
  Hedged = {}
  Restates = {}
  MAX_MESSAGES_PER_TICK = 2
  MAX_SEEN_IDS = 3
  MaxListed = 3
  History = 1
  Unreadable = {1, 2, 4}
  Stalling = {4}
  Irrelevant = {5}
  Buckets <- MCBuckets
INVARIANTS SeenSafe ReworkedOnlyPastCap
PROPERTIES EveryMessageMarked
