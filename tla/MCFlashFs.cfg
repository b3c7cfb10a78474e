SPECIFICATION Spec
CONSTANTS
    NBlocks = 4
    NFiles = 2
    DataPages = 2
    PhysPages = 3
    MetaPages = 1
    Names = {"gc_data", "user"}
    GcData = "gc_data"
    Values = {"a", "b"}
    MaxPages = 3
    MaxCrashes = 2
    ReplaceWindow = FALSE
INVARIANTS
    FilesSurvive
    VolumeSound
PROPERTIES
    OldestFirst
CHECK_DEADLOCK FALSE
