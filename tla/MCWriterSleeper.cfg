SPECIFICATION Spec
CONSTANTS
    MaxSize = 1
    OverUse = 1
    Priorities <- MCPriorities
    Ages <- MCAges
    MaxPuts = 3
    MaxTime = 1
    Closers = {"refresh"}
    MsgLen <- MCMsgLen
    DesiredSize = 3
    UDP = TRUE
PROPERTY SleepersGetHeartbeats
CHECK_DEADLOCK FALSE
