\* One watch over the life of a Microsoft subscription and half a day more; two
\* notifications; one fault of any kind.
CONSTANTS
  c1 = c1  w1 = w1  w2 = w2  h1 = h1  h2 = h2  x = x
  Calls = {c1}
  Workers = {w1, w2}
  Providers = {"google", "microsoft", "apple"}
  Life <- ChannelLife
  Horizon = 2
  MaxAttempts = 2
  MaxTime = 7
  MaxFaults = 1
  Handlers = {h1, h2}
  Changes = {x}
  MaxNotes = 2
  NoteTimes = {0}
SPECIFICATION NoteSpec
INVARIANTS NoteTypeOK OrphansAccounted StoredWatchIsLive ActedUponOnce SettledIsActedUpon
SYMMETRY RequestSymmetry
CHECK_DEADLOCK FALSE
