CONSTANTS
    IdMod = 3
    BatchMax = 2
    Lens = {1, 4, 5}
    HintMin = 4
    GlomMax = 2
    FifoDepth = 3
    MaxFrames = 4
    MaxRequests = 7
    MaxRestarts = 1
SPECIFICATION Spec
INVARIANTS ReplyIsOwn NoOwnLatch
PROPERTIES InOrderOnce
CHECK_DEADLOCK FALSE
