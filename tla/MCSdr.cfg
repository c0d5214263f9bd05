SPECIFICATION FairSpec
CONSTANTS
    Dongles = {1, 2}
    Tag <- MCTag
    Settings <- MCSettings
    MaxCount = 3
    MaxChanges = 1
    nil = nil
INVARIANT OneReaderPerDongle
PROPERTY TagsHonoured
PROPERTY ShutdownEnds
PROPERTY FailedIsShutDown
PROPERTY KillReturns
CHECK_DEADLOCK FALSE
