SPECIFICATION Spec
CONSTANTS
    Sizes = {1, 2}
    HeaderCells = 2
    MaxRecords = 4
    MaxFailures = 3
INVARIANTS TypeOK ReplayIsPrefix TornTailIgnored
CHECK_DEADLOCK FALSE
