SPECIFICATION KernelSpec
CONSTANTS
    MaxHandles = 3
    HeapSize = 7
    Overhead = 1
    DefragThreshold = 3
    Sizes = {1, 2}
    Contents = {c1, c2}
    RingSize = 2
    MaxFrames = 5
    Threads <- ThreeThreads
    Receiver = 2
    EarlyYields = {3}
    NPages = 2
    Versions = {"v1", "v2"}
    MaxCrashes = 2
INVARIANTS
    HeapSound
    CountersAgree
    RingSound
    WorkIsRemembered
    Bootable
    FirmwareSound
    FormatOnlyWhenAsked
PROPERTIES
    HeapIsReclaimed
    NoThreadStarves
    NodeComesBack
