SPECIFICATION FairSpec
CONSTANTS
    Keys = {1, 2}
    EmptyKey = 0
    NumLevels = 3
    Threads <- TwoThreads
    Holders = {}
    Ops <- RacingOps
    Groups <- OneKey
    Ranges <- Everything
    MemtableSize = 1
    StopTrigger = 1
    MaxSubcompactions = 1
    MaxWrites = 2
    MaxFileNumber = 30
    Failures = {"crash", "wal", "table", "publish", "commit", "sync"}
    MaxFailures = 1
INVARIANTS TypeOK SequencesFresh
PROPERTIES CallsReturn PublishedTablesNeverChange
