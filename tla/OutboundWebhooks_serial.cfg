\* One pass at a time, statements that do not throw: two hooks, two events.
CONSTANTS
  h1 = h1  h2 = h2  e1 = e1  e2 = e2  w1 = w1  w2 = w2
  Hooks = {h1, h2}
  Events = {e1}
  Workers = {w1}
  Subscriptions <- MCSubscriptions1
  MaxAttempts = 8
  MaxRetries = 1
  MaxCrashes = 1
  MaxDbErrors = 0
SPECIFICATION FairSpec
INVARIANTS StatusTellsAnswer FanOutComplete
PROPERTIES ImplementsContract
CHECK_DEADLOCK FALSE
