SPECIFICATION Spec
CONSTANTS
  Downloads = {d1, d2}
  Polls = {q1, q2}
  Pieces = {x1, x2}
  Size = 3
  Slots = 2
SYMMETRY Symmetry
CHECK_DEADLOCK FALSE
INVARIANT InOrder
