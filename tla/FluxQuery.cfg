SPECIFICATION FairFluxSpec
CONSTANTS
    Answers <- MCAnswers
    MaxChunk = 3
CHECK_DEADLOCK FALSE
INVARIANT EndedOnce
PROPERTIES
    ImplementsQueryCalls
    QueryEnds
