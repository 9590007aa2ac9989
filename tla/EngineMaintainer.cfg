SPECIFICATION Spec
CONSTANTS
    Keys = {1}
    EmptyKey = 0
    NumLevels = 3
    Threads <- TwoThreads
    Holders = {h1}
    Ops <- MaintainerOps
    Groups <- HalfLogged
    Ranges <- Everything
    MemtableSize = 9
    StopTrigger = 9
    MaxSubcompactions = 1
    MaxWrites = 3
    MaxFileNumber = 30
    Failures = {}
    MaxFailures = 0
INVARIANTS ReadsLatest SnapshotsStable GetsLinearizable
