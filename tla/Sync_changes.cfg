\* Every provider: pages, failing calls, lost replies, stored and forgotten tokens.
CONSTANTS
  a = a  b = b  c1 = c1
  Events = {a, b}
  Clients = {c1}
  Providers = {"google", "microsoft", "caldav"}
  TombstonesKept = TRUE
  MaxEdits = 3
  MaxFails = 2
  MaxExpiries = 1
SPECIFICATION FairSpec
INVARIANTS TypeOK NothingMissed
PROPERTIES ClientCatchesUp
CHECK_DEADLOCK FALSE
