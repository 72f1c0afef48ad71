SPECIFICATION FairSpec
CONSTANTS
  l1 = l1
  l2 = l2
  l3 = l3
  ann = ann
  bob = bob
  Logs = {l1, l2, l3}
  Owners = {ann, bob}
  OwnerOf <- MCOwnerOf
  Cascaded = {l1, l2}
  Sizes <- MCSizes
  MaxQueue = 2
  MaxRetries = 1
  QueueBudget = 3
  BatchBudget = 2
  MaxFaults = 2
  MaxPurges = 1
INVARIANTS
  NothingIsSilent
  AttemptsFollowTheirLog
  BodiesAreAccounted
  PurgedStaysPurged
PROPERTIES
  RowsAreSettled
CHECK_DEADLOCK FALSE
