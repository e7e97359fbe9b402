SPECIFICATION FairSpec
CONSTANTS
    p1 = p1
    p2 = p2
    Paths <- TwoPaths
    DefaultPaths <- OneDefault
    OnTheFly = TRUE
    AllTicks = 2
    MaxFaults = 2
INVARIANTS
    SubscribedBeforeReading
PROPERTIES
    PathsReachServer
    AllPathsComeAndGo
    AllPathsWindowEnds
    CloseReturns
