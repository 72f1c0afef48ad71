SPECIFICATION FairSpec
CONSTANTS
  Length = 3
  Dialect = {1, 3}
  Modes = {"buffered", "stream"}
CHECK_DEADLOCK FALSE
INVARIANTS
  SettledOnce
  BlameIsRight
  UnbilledRanNothing
  CancellationIsCausal
PROPERTIES
  NoSwapAfterCommit
  WalkEnds
