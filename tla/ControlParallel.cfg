SPECIFICATION Spec
CONSTANTS
    Node <- ParNodes
    Batches <- ParBatches
    Upstream <- ParUpstream
    Kind <- ParKind
    Conditions <- ParConditions
    MaximumAttempts <- ParAttempts
    MaxPages = 1
    Resumable = {}
    Commits = {}
    NonfatalRefresh = TRUE
    MaxRevision = 2
    MaxFaults = 1
INVARIANTS
    ViewSound
    AcknowledgedWakeup
PROPERTIES
    ViewNeverRegresses
    ImplementsIntent
