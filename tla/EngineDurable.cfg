SPECIFICATION Spec
CONSTANTS
    Keys = {1, 2}
    EmptyKey = 0
    NumLevels = 3
    Threads = {t1}
    Holders = {}
    Ops <- DurableOps
    Groups <- DurableGroups
    Ranges <- Everything
    MemtableSize = 9
    StopTrigger = 9
    MaxSubcompactions = 1
    MaxWrites = 3
    MaxFileNumber = 30
    Failures = {"crash", "wal", "table", "publish"}
    MaxFailures = 2
INVARIANTS ReadsLatest FreshNumbers LoggedSequencesFresh
PROPERTIES ImplementsKVStore
