SPECIFICATION FairSpec
CONSTANTS
    MaxSize = 1
    OverUse = 1
    Priorities <- MCPriorities
    Ages <- MCAges
    MaxPuts = 3
    MaxTime = 1
    Closers = {"refresh"}
    MsgLen <- MCMsgLen
    DesiredSize = 3
    UDP = TRUE
INVARIANT NoLostWakeup
INVARIANT PacketSize
CHECK_DEADLOCK FALSE
