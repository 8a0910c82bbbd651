SPECIFICATION FairSpec
CONSTANTS
    Receiver = {r1, r2}
    Sender = sender
    FreezeTimer = freezeTimer
    Leavers = {}
    Workers = 1
    MaxLosses = 0
    MaxQueue = 2
    MaxConsumers = 2
    MaxUploads = 4
CHECK_DEADLOCK FALSE
INVARIANTS NoChunkRefused SenderToldOfRoom
PROPERTIES UploadFinishes
