SPECIFICATION Spec
CONSTANTS
    Length <- MCLength
    KnownTo <- MCKnownTo
    TypeIn <- MCTypeIn
    Defaults <- MCDefaults
    TotalBlocks = 5
    Values = {5}
    MaxSets = 1
    MaxFailures = 0
INVARIANTS
    ErasesOldBlocks
