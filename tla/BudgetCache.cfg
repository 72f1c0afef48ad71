SPECIFICATION Spec
CONSTANTS
  Getters = {g1, g2, g3}
  Writers = {w1, w2}
  MaxWrites = 3
  NoLoad = NoLoad
SYMMETRY Symmetry
INVARIANTS
  ReadsWhatWasInvalidated
  SingleFlight
CHECK_DEADLOCK FALSE
