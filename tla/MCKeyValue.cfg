SPECIFICATION Spec
CONSTANTS
    Width <- MCWidth
    AppParams = {"a"}
    DataLength = 2
    PageLength = 2
    CellValues = {"x"}
    QueueLength = 1
    MaxCalls = 1
    MaxOutages = 1
INVARIANTS
    AlwaysFullBlocks
