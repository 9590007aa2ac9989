SPECIFICATION Spec
CONSTANTS
    Keys = {1, 2}
    EmptyKey = 0
    NumLevels = 3
    Threads <- TwoThreads
    Holders = {}
    Ops <- WriterOps
    Groups <- JoinedGroups
    Ranges <- Everything
    MemtableSize = 1
    StopTrigger = 9
    MaxSubcompactions = 1
    MaxWrites = 3
    MaxFileNumber = 30
    Failures = {"wal", "table", "publish"}
    MaxFailures = 1
INVARIANTS ReadsLatest GetsLinearizable
