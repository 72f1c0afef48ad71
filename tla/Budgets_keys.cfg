SPECIFICATION Spec
CONSTANTS
  global = global
  agent = agent
  j2 = j2
  Keys = {global, agent}
  Jobs = {j1}
  Requests = {r1}
  OfAgent = {j1,r1}
  Occurrences = {o1,o2}
  Costs = {2}
  Amount <- MCAmount
  Ceiling <- MCCeiling
  KeysOf <- MCKeysOf
  Order <- MCOrder
  FailOpen = TRUE
  MaxFaults = 1
SYMMETRY Symmetry
INVARIANTS
  PendingCovers
  SpendIsBacked
PROPERTIES
  SpendNeverFalls
  AdmissionSparesReservations
CHECK_DEADLOCK FALSE
