SPECIFICATION AppSpec
CONSTANTS
  h1 = h1
  h2 = h2
  s1 = s1
  s2 = s2
  Handlers <- MCHandlers
  MAX_ITEMS = 1
  MaxAlert = 2
  MaxSyncs = 2
  Categories <- MCCategories
  Lines <- MCLines
  Slots <- MCSlots
INVARIANTS InboxSafe DeletedStaysDeleted SettingsSafe
SYMMETRY Symmetry
CHECK_DEADLOCK FALSE
