SPECIFICATION Spec
CONSTANTS
  Threshold = 1
  Cooldown = 3
  Instances = {i1}
  Primary = primary
  Calls = {c1, c2}
  None = None
  BaseLease = 1
  Leases = {3}
  StateTtl = 3
  Headroom = 1
  ResetTtl = 3
  SeqScale = 2
  Faults = {"refused", "lost"}
  MaxTime = 4
  MaxResets = 0
INVARIANTS
  RecordOutlivesLease
SYMMETRY Symmetry
CHECK_DEADLOCK FALSE
