SPECIFICATION Spec
CONSTANTS
  Procs = {p1, p2}
  Ids = {i1, i2, i3, i4}
  Names = {n1, n2}
  Sessions = {s1, s2}
  shareMax = 2
  None = None
SYMMETRY Symmetry
INVARIANT CapBound
INVARIANT LinksMatch
 
PROPERTY SyncIsExact
