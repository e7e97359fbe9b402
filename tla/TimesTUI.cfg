SPECIFICATION FairSpec
CONSTANTS
  Paths <- MCPaths
  Elements <- PathElements
  GetallGrace = 2
  GetalldbGrace = 2
  SlowPaths = {}
  SlowTicks = 1
  Readings = {}
  NofGraphPoints = 2
  MaxTime = 3
  MaxPolls = 2
INVARIANTS OneQuery ChartInOrder
PROPERTY KeepsAsking
CHECK_DEADLOCK FALSE
