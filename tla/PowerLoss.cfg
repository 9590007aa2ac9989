SPECIFICATION Spec
CONSTANTS
    Journaled = TRUE
    MaxWrites = 3
    MaxNumber = 5
    MaxFailures = 3
INVARIANTS TypeOK OpenSucceeds LossesAreSuffixes SyncedWritesSurvive
