SPECIFICATION Spec
CONSTANTS
  Requests = {r1}
  gateway = gateway
  Home <- Together
  Users = {u1}
  Sweeps = {sweep}
  None = None
  Starts = {"oauth", "unreadable"}
  MaxEnvelopes = 3
  MaxFaults = 1
  MaxReports = 1
INVARIANTS
  StoredTokenLives
  HealthIsOfThisConnection
  ReplacedStaysReplaced
  RefusalIsEarned
PROPERTIES
  CallIsWarranted
