SPECIFICATION Spec
CONSTANTS
    Execution = {"x1"}
    Partition = {"p1", "p2"}
    HighWater <- TwoRecords
    Page = 2
    ContinueAfter = 2
    MaxRequests = 1
    MaxFaults = 1
INVARIANT UndeliverableIsGone
CHECK_DEADLOCK FALSE
