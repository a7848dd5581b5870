SPECIFICATION Spec
CONSTANTS
  Procs = {p1, p2}
  Inodes = {n1}
  Locks = {k1, k2}
  Size = 2
  PieceLen = 1
  Values = {0, 1}
  Hole = 0
  Sources <- OneFile
  Modes = {TRUE, FALSE}
  Damage = FALSE
  None = None
SYMMETRY Symmetry
INVARIANT CoverageIsReal
INVARIANT SavedIsSource
PROPERTY KeepsPromise
