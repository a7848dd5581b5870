SPECIFICATION MCSpec
CONSTANTS
  Procs = {p1, p2}
  Files = {f1, f2, f3, f4}
  LastName = 3
  Tries = 2
  None = None
  Writers = {w1, w2}
  Inodes = {n1, n2}
  File <- TwoUnits
  NoInode = NoInode
SYMMETRY Symmetry
INVARIANT AckedIsStored
INVARIANT ChunkInv
 
 
