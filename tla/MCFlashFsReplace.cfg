SPECIFICATION Spec
CONSTANTS
    NBlocks = 4
    NFiles = 2
    DataPages = 2
    PhysPages = 3
    MetaPages = 1
    Names = {"gc_data", "user"}
    GcData = "gc_data"
    Values = {"a"}
    MaxPages = 3
    MaxCrashes = 1
    ReplaceWindow = TRUE
INVARIANTS
    NoMissingBlocks
CHECK_DEADLOCK FALSE
