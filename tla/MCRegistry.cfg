SPECIFICATION MCSpec
CONSTANTS
    Clients = {u1}
    Remotes = {t1}
    Devs = {d1}
    MaxMade = 2
    nil = nil
    absent = absent
INVARIANT RegisteredIsServed
INVARIANT LazyQueueOnlyFromSettings
PROPERTY ClosedWriterReturns
PROPERTY ClosedLeavesRegistry
CHECK_DEADLOCK FALSE
