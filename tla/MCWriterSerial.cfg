SPECIFICATION FairSpec
CONSTANTS
    MaxSize = 2
    OverUse = 3
    Priorities <- MCPriorities
    Ages <- MCAges
    MaxPuts = 4
    MaxTime = 1
    Closers = {"writer", "closeSerial"}
    MsgLen <- MCMsgLen
    DesiredSize = 4
    UDP = FALSE
INVARIANT InPriorityOrder
INVARIANT PruneMatchesLoop
INVARIANT CloseWakesWriter
INVARIANT HandedOutInOrder
PROPERTY ImplementsMailbox
PROPERTY WriterReturns
PROPERTY AwakeQueueDrains
CHECK_DEADLOCK FALSE
