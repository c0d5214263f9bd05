SPECIFICATION Spec
CONSTANTS
    Producers = {p1}
    Cap = 1
    MaxStarts = 1
    MaxRows = 2
    MaxFailures = 0
INVARIANT ShutdownLosesNothing
CHECK_DEADLOCK FALSE
