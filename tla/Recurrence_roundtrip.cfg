\* Every form of rule over two good day names and an unknown one, ordinals in and out
\* of the map, and two copies.
CONSTANTS
  Intervals = {1, 2}
  Ordinals = {"", "1", "-1", "5"}
  Days = {"MO", "FR", "XX"}
  MonthDays <- SomeMonthDays
  Months = {0, 11}
  Ends <- SomeEnds
  MaxCopies = 2
SPECIFICATION Spec
INVARIANTS TypeOK WrittenIsShown
PROPERTIES CopyKeeps
CHECK_DEADLOCK FALSE
