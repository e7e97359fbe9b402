SPECIFICATION FairSpec
CONSTANTS
  Paths <- DialAndChart
  Elements <- PathElements
  GetallGrace = 2
  GetalldbGrace = 3
  SlowPaths = {"engine temperature"}
  SlowTicks = 2
  Readings = {"1"}
INVARIANTS ShownIsSubscribed StoredIsShown
PROPERTIES QuestionAnswered
CHECK_DEADLOCK FALSE
