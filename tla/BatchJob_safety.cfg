SPECIFICATION Spec
CONSTANTS
  Items = {a, b}
  NoRow = NoRow
  Pollers = {p, q}
  Ends = {"completed", "expired"}
  Faults = {"unmapped", "lost"}
  MaxFailures = 1
SYMMETRY Symmetry
INVARIANTS
  SubmitFailedIsAbsent
PROPERTIES
  KeepsPromise
CHECK_DEADLOCK FALSE
