SPECIFICATION Spec
CONSTANTS
    QueueSize = 3
    Rounds = 2
    Frames = {1, 2}
    MaxQueued = 2
INVARIANTS BufferOwnedOnce NoOldFrameSent
PROPERTY RxIsQueue
