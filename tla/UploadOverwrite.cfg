SPECIFICATION Spec
CONSTANTS
  Procs = {p1, p2}
  Inodes = {n1}
  Locks = {k1, k2}
  Size = 3
  PieceLen = 2
  Values = {0, 1}
  Hole = 0
  Sources <- OneFile
  Modes = {FALSE}
  Damage = TRUE
  None = None
SYMMETRY Symmetry
INVARIANT VerifiedBytes
