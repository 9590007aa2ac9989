SPECIFICATION Spec
CONSTANTS
    Keys = {1, 2}
    EmptyKey = 0
    NumLevels = 3
    MaxSequence = 9
    KeyBytes <- Bytes
    KeyProbes <- Probes
    RestartInterval = 2
    Readers = {r1}
    Writes <- SomeWrites
    ScanRanges <- Ranges
    FillCache = {TRUE}
    CacheBlocks = 1
    MaxWrites = 3
    MaxTables = 2
INVARIANTS TypeOK ScansExact IndexedGetsExact
