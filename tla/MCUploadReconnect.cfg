SPECIFICATION Spec
CONSTANTS
    Receiver = {r1}
    Sender = sender
    FreezeTimer = freezeTimer
    Leavers = {}
    Workers = 1
    MaxLosses = 1
    MaxQueue = 1
    MaxConsumers = 2
    MaxUploads = 2
CHECK_DEADLOCK FALSE
INVARIANTS BrokenUploadIsWhole
