SPECIFICATION FairSpec
CONSTANTS
  Requests = {r1, r2}
  gateway = gateway
  Home <- Together
  Users = {}
  Sweeps = {sweep}
  None = None
  Starts = {"oauth", "unreadable"}
  MaxEnvelopes = 2
  MaxFaults = 1
  MaxReports = 0
PROPERTIES
  RequestsAreAnswered
  DeadGrantIsFound
CHECK_DEADLOCK FALSE
