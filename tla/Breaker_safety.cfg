SPECIFICATION FairSpec
CONSTANTS
  Threshold = 2
  Cooldown = 3
  Instances = {i1}
  Primary = primary
  Calls = {c1, c2}
  None = None
  BaseLease = 1
  Leases = {0}
  StateTtl = 4
  Headroom = 1
  ResetTtl = 5
  SeqScale = 2
  Faults = {}
  MaxTime = 7
  MaxResets = 1
INVARIANTS
  OneProbe
PROPERTIES
  StaleStaysStale
  LeaseIsExclusive
  DeadLeaseStaysDead
  OneAlertPerOpening
  ReportsIncrease
  OpenIsProbed
  ExpiredLeaseIsReclaimed
CHECK_DEADLOCK FALSE
