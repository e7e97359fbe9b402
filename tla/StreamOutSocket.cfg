SPECIFICATION FairSpec
CONSTANTS
    Schemas <- EverySample
    Stamps <- OneStamp
    FileTarget = FALSE
    LinesPerWrite = 2
    BlockingLimit = 2
    UnblockingLimit = 1
    RegisterTicks = 2
    MaxPushed = 6
INVARIANTS
    TypeOK
    FifoBounded
    FedThreadIsAlive
PROPERTIES
    DeliversBatches
    CloseReturns
