SPECIFICATION Spec
CONSTANTS
    Receiver = {r1, r2, r3}
    Observers = {sender}
    MaxQueue = 2
    MaxConsumers = 2
    MaxUploads = 3
    MaxAdding = 2
SYMMETRY ReceiverSymmetry
CHECK_DEADLOCK FALSE
INVARIANTS TypeOK WholeUntilRemoved NoStuckChunk ReleasedWhenConfirmed IInv
PROPERTIES JoinerGetsWholeFile ImplementsWindow
