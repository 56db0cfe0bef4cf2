\* Two requests, one event from the start, one change by another program, three
\* faults; each provider.
CONSTANTS
  r1 = r1  r2 = r2  o = o
  Requests = {r1, r2}
  Old = {o}
  Bodies <- SomeBodies
  Providers = {"google", "microsoft", "caldav"}
  MaxAttempts = 3
  MaxEdits = 1
  MaxFaults = 3
SPECIFICATION FairSpec
INVARIANTS TypeOK HeldAsTold CreatesAccounted
PROPERTIES OnlyNamedFieldsChange FoundIsWhatIsWritten RequestsEnd
CHECK_DEADLOCK FALSE
