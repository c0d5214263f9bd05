SPECIFICATION Spec
CONSTANTS
    Dongles = {1, 2}
    Tag <- MCTag
    Settings <- MCSettings
    MaxCount = 3
    MaxChanges = 1
    nil = nil
INVARIANT KilledForGood
CHECK_DEADLOCK FALSE
