SPECIFICATION Spec
CONSTANTS
    PartitionCount = 3
    MaxConcurrency = 2
    Dispatcher <- OneReplica
    FaultKinds <- AllFaults
    MaxFaults = 2
    MaxRetries = 1
INVARIANTS
    CompletedIsReal
    CancelledJobIsDrained
    ConcurrencyKept
PROPERTIES
    CompletedRangeNotRerun
