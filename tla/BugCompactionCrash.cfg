SPECIFICATION Spec
CONSTANTS
    Keys = {1, 2}
    EmptyKey = 0
    NumLevels = 3
    Threads = {t1}
    Holders = {}
    Ops <- SequentialOps
    Groups <- OneKey
    Ranges <- Everything
    MemtableSize = 1
    StopTrigger = 9
    MaxSubcompactions = 1
    MaxWrites = 3
    MaxFileNumber = 30
    Failures = {"crash"}
    MaxFailures = 1
INVARIANTS ReadsLatest
