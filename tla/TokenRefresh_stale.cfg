\* The documented meaning of refresh_failed under overlapping passes.
CONSTANTS
  g = g  m = m  w1 = w1  w2 = w2
  Accounts = {g}
  Google = {g}
  Workers = {w1, w2}
  Rotates = FALSE
  MaxFailCount = 5
  BatchLimit = 2
  MaxToken = 2
  MaxCrashes = 0
  MaxDbErrors = 0
  MaxLost = 0
SPECIFICATION Spec
INVARIANTS RefreshFailedIsEarned
CHECK_DEADLOCK FALSE
