SPECIFICATION SessionsSpec
CONSTANTS
  Users = {u1}
  Screens = {c1}
  MaxPair = 3
  MaxFaults = 1
  Accounts = {a1}
  r1 = r1
  r2 = r2
  Requests <- MCRequests
  MaxToken = 3
  MaxResets = 1
INVARIANTS RenewerSafe OneSession TokensSafe ResetEndsOldSessions
PROPERTIES CallsReleased OverIsOver
SYMMETRY Symmetry
CHECK_DEADLOCK FALSE
