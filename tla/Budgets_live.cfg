SPECIFICATION FairSpec
CONSTANTS
  global = global
  agent = agent
  j2 = j2
  Keys = {global}
  Jobs = {j1, j2}
  Requests = {r1}
  OfAgent = {}
  Occurrences = {o1}
  Costs = {2}
  Amount <- MCAmount
  Ceiling <- MCCeiling
  KeysOf <- MCKeysOf
  Order <- MCOrder
  FailOpen = FALSE
  MaxFaults = 1
PROPERTIES
  ReservationFits
  SpentIsSeen
  PendingHeals
CHECK_DEADLOCK FALSE
