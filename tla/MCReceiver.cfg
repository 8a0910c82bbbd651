SPECIFICATION FairSpec
CONSTANTS
    Me = me
    Other = other
    Retries = 2
    ToDisk = TRUE
    MaxFaults = 1
    MaxQueue = 2
    MaxConsumers = 2
    MaxUploads = 2
CHECK_DEADLOCK FALSE
INVARIANTS TypeOK OkMeansWhole FileInOrder NothingGivenUpEarly
PROPERTY ReceiverFinishes
