SPECIFICATION FairSpec
CONSTANTS
  Procs = {p1, p2}
  Inodes = {n1}
  Locks = {k1, k2}
  Size = 2
  PieceLen = 2
  Values = {0, 1}
  Hole = 0
  Sources <- OneFile
  Modes = {FALSE}
  Damage = FALSE
  None = None
PROPERTY HandlersProgress
