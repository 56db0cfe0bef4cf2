\* The documented retry schedule, without user retries, crashes or errors.
CONSTANTS
  h1 = h1  h2 = h2  e1 = e1  e2 = e2  w1 = w1  w2 = w2
  Hooks = {h1}
  Events = {e1}
  Workers = {w1}
  Subscriptions <- MCOneDelivery
  MaxAttempts = 8
  MaxRetries = 0
  MaxCrashes = 0
  MaxDbErrors = 0
SPECIFICATION FairSpec
PROPERTIES RetrySchedule
CHECK_DEADLOCK FALSE
