SPECIFICATION Spec
CONSTANTS
    Keys = {1, 2}
    EmptyKey = 0
    NumLevels = 3
    Threads = {t1}
    Holders = {}
    Ops <- SequentialOps
    Groups <- Puts
    Ranges <- OnlyKey1
    MemtableSize = 2
    StopTrigger = 9
    MaxSubcompactions = 1
    MaxWrites = 4
    MaxFileNumber = 30
    Failures = {}
    MaxFailures = 0
INVARIANTS ReadsLatest
