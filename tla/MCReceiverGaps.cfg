SPECIFICATION Spec
CONSTANTS
    Me = me
    Other = other
    Retries = 1
    ToDisk = FALSE
    MaxFaults = 1
    MaxQueue = 2
    MaxConsumers = 2
    MaxUploads = 2
CHECK_DEADLOCK FALSE
INVARIANT NoFileWithGaps
