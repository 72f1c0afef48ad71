SPECIFICATION Spec
CONSTANTS
  Requests = {r1}
  gateway = gateway
  Home <- Together
  Users = {u1}
  Sweeps = {}
  None = None
  Starts = {"unreadable"}
  MaxEnvelopes = 2
  MaxFaults = 0
  MaxReports = 0
INVARIANTS
  FilingIsEarned
CHECK_DEADLOCK FALSE
