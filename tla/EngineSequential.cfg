SPECIFICATION Spec
CONSTANTS
    Keys = {1, 2}
    EmptyKey = 0
    NumLevels = 3
    Threads = {t1}
    Holders = {h1}
    Ops <- SequentialOps
    Groups <- OverlappingGroups
    Ranges <- Everything
    MemtableSize = 2
    StopTrigger = 2
    MaxSubcompactions = 2
    MaxWrites = 3
    MaxFileNumber = 30
    Failures = {}
    MaxFailures = 0
INVARIANTS ReadsLatest SnapshotsStable ScansAgreeWithGets LevelsDisjoint ManifestFilesExist
PROPERTY ImplementsKVStore
