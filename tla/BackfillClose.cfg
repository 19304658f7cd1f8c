SPECIFICATION Spec
CONSTANTS
    PartitionCount = 2
    MaxConcurrency = 1
    Dispatcher <- OneReplica
    FaultKinds = {}
    MaxFaults = 0
    MaxRetries = 0
INVARIANTS
    CompletedJobIsClosed
