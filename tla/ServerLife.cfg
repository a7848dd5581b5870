SPECIFICATION Spec
CONSTANTS
  Kinds = {mdns, llmnr}
  MaxStarts = 2
  MaxRuns = 2
  MaxTasks = 1
CHECK_DEADLOCK FALSE
INVARIANT ServerInv
INVARIANT NamesInv
PROPERTY IdleStops
