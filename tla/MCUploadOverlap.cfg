SPECIFICATION Spec
CONSTANTS
    Receiver = {r1, r2}
    Sender = sender
    FreezeTimer = freezeTimer
    Leavers = {r1}
    Workers = 2
    MaxLosses = 1
    MaxQueue = 1
    MaxConsumers = 2
    MaxUploads = 2
CHECK_DEADLOCK FALSE
INVARIANTS TypeOK EndOfFileMeansWholeFile PageCountsEveryChunk NoChunkTwice
