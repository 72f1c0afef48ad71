SPECIFICATION FairSpec
CONSTANTS
  Items = {a, b}
  NoRow = NoRow
  Pollers = {p}
  Ends = {"completed", "expired"}
  Faults = {"lost", "deleted"}
  MaxFailures = 2
PROPERTIES
  EventuallyFinal
  CancelIsPassedOn
CHECK_DEADLOCK FALSE
