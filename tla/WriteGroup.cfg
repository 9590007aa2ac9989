SPECIFICATION Spec
CONSTANTS
    Writers <- MCWriters
    MaxCalls <- OneCallsTwice
INVARIANTS TypeOK QueueHasLeader HeldOnce OkMeansApplied
PROPERTIES WritesReturn
