SPECIFICATION Spec
CONSTANTS
    Schemas <- EverySample
    Stamps <- OneStamp
    FileTarget = FALSE
    LinesPerWrite = 1
    BlockingLimit = 2
    UnblockingLimit = 1
    RegisterTicks = 1
    MaxPushed = 2
INVARIANTS
    RunsUntilStopped
