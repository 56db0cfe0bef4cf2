\* One pass at a time; a crash, a lost answer, a failing statement.
CONSTANTS
  g = g  m = m  w1 = w1  w2 = w2
  Accounts = {g, m}
  Google = {g}
  Workers = {w1}
  Rotates = TRUE
  MaxFailCount = 2
  BatchLimit = 2
  MaxToken = 2
  MaxCrashes = 1
  MaxDbErrors = 1
  MaxLost = 1
SPECIFICATION FairSpec
INVARIANTS TypeOK RefreshFailedIsEarned GivenUpInTime StoredTokenIsGood
PROPERTIES RefreshFailedIsFinal ExpiringIsResolved
CHECK_DEADLOCK FALSE
