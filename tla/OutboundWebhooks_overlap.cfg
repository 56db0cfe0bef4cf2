\* Two passes at the same time, a crash, a statement that throws, a user retry.
CONSTANTS
  h1 = h1  h2 = h2  e1 = e1  e2 = e2  w1 = w1  w2 = w2
  Hooks = {h1}
  Events = {e1}
  Workers = {w1, w2}
  Subscriptions <- MCOneDelivery
  MaxAttempts = 1
  MaxRetries = 1
  MaxCrashes = 1
  MaxDbErrors = 1
SPECIFICATION FairSpec
INVARIANTS TypeOK PostsAccounted DeliveredWasTaken
PROPERTIES OwedIsPosted
CHECK_DEADLOCK FALSE
