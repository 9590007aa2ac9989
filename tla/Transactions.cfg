SPECIFICATION Spec
CONSTANTS
    Keys = {1, 2}
    EmptyKey = 0
    NumLevels = 3
    Txns = {x1, x2}
    KeyRanges = {{1, 2}}
    MaxOps = 2
    MaxWrites = 1
    MaxCompactions = 1
SYMMETRY Symmetry
INVARIANTS RepeatableReads TypeOK Serializable FirstCommitterWins GetsAgreeWithScans
CHECK_DEADLOCK FALSE
