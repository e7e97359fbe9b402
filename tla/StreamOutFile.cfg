SPECIFICATION FairSpec
CONSTANTS
    Schemas <- MixedSchemas
    Stamps <- SomeStamps
    FileTarget = TRUE
    LinesPerWrite = 2
    BlockingLimit = 4
    UnblockingLimit = 1
    RegisterTicks = 2
    MaxPushed = 4
INVARIANTS
    FileKeepsEveryLine
    IntervalsKept
PROPERTIES
    FullBatchesAreWritten
    RecordingEnds
