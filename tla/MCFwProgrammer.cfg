SPECIFICATION FwFairSpec
CONSTANTS
    NPages = 2
    Versions = {"v1", "v2"}
    MaxCrashes = 1
PROPERTIES
    EraseRestartsLoader
