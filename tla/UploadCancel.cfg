SPECIFICATION Spec
CONSTANTS
  Batch = {1, 2}
  Picked = {3}
  UP_PAR = 2
  PARALLEL = 2
  Pieces = {1, 2}
  Attempts = 2
  Faults = 1
CHECK_DEADLOCK FALSE
PROPERTY CancelledEnds
