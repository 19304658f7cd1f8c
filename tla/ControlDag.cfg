SPECIFICATION Spec
CONSTANTS
    Node <- DagNodes
    Batches <- DagBatches
    Upstream <- DagUpstream
    Kind <- DagKind
    Conditions <- DagConditions
    MaximumAttempts <- DagAttempts
    MaxPages = 2
    Resumable = {"src"}
    Commits = {"cursors", "dedupe"}
    NonfatalRefresh = FALSE
    MaxRevision = 2
    MaxFaults = 1
INVARIANTS
    RunsEndWhole
PROPERTIES
    CancelStopsDownstream
