SPECIFICATION FairSpec
CONSTANTS
  Downloads = {d1, d2}
  Polls = {q1}
  Pieces = {x1, x2}
  Size = 2
  Slots = 1
CHECK_DEADLOCK FALSE
INVARIANT NoLostWakeup
INVARIANT SlotsCounted
INVARIANT ClaimIsServed
 
 
 
