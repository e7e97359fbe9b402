SPECIFICATION FairSpec
CONSTANT UserRoutes <- AllRoutes
INVARIANT QuestionKept
PROPERTIES AckNamesTheMark AsksBeforeDropping RequestsReachPlugin
CHECK_DEADLOCK FALSE
