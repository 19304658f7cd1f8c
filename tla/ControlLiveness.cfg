SPECIFICATION FairSpec
CONSTANTS
    Node <- LiveNodes
    Batches <- LiveBatches
    Upstream <- LiveUpstream
    Kind <- LiveKind
    Conditions <- LiveConditions
    MaximumAttempts <- LiveAttempts
    MaxPages = 1
    Resumable = {}
    Commits = {"cursors"}
    NonfatalRefresh = TRUE
    MaxRevision = 2
    MaxFaults = 1
PROPERTIES
    RunSettles
    IntentDelivered
