SPECIFICATION Spec
CONSTANTS
    Thread = {t1, t2}
    Receiver = {r1, r2}
    Sender = sender
    Nobody = nobody
    MaxQueue = 1
    MaxConsumers = 2
    MaxUploads = 1
CHECK_DEADLOCK FALSE
SYMMETRY Symmetry
INVARIANTS TypeOK CompletionNotMissed NoAbandonedSession ReceiversAreConsumers OkMeansDelivered
