SPECIFICATION LiveSpec
CONSTANTS
    Thread = {t1, t2}
    Receiver = {r1}
    Sender = sender
    Nobody = nobody
    MaxQueue = 1
    MaxConsumers = 2
    MaxUploads = 1
CHECK_DEADLOCK FALSE
PROPERTIES RemovedSessionReports EndedUploadCompletes
