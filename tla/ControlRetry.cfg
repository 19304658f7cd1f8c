SPECIFICATION Spec
CONSTANTS
    Node <- OneNodes
    Batches <- OneBatches
    Upstream <- OneUpstream
    Kind <- OneKind
    Conditions <- OneConditions
    MaximumAttempts <- OneAttempts
    MaxPages = 1
    Resumable = {}
    Commits = {}
    NonfatalRefresh = TRUE
    MaxRevision = 3
    MaxFaults = 0
INVARIANTS
    TypeOK
    AttemptsAccounted
