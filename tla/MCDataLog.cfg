SPECIFICATION FairSpec
CONSTANTS
    Producers = {p1}
    Cap = 1
    MaxStarts = 2
    MaxRows = 3
    MaxFailures = 1
INVARIANT WrittenInOrder
INVARIANT NoWriterWithoutLog
PROPERTY CloseReturns
PROPERTY ProducersProceed
CHECK_DEADLOCK FALSE
