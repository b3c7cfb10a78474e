SPECIFICATION SchedFairSpec
CONSTANTS
    RingSize = 2
    MaxFrames = 5
    Threads <- ThreeThreads
    Receiver = 2
    EarlyYields = {3}
PROPERTIES
    StoredFramesProcessed
