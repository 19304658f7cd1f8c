SPECIFICATION AllSpec
CONSTANTS
    Run = {r1, r2}
    Node = {n1, n2}
    Key = {k1, k2}
    Version = {v1, v2}
    MaxAttempts = 2
SYMMETRY Symmetric
INVARIANTS
    DroppedWasDelivered
    DeliveredOnce
    PagesExact
    SinksDeliver
    NodesReported
    TransformsAgree
PROPERTIES
    EnginesSkipNothing
CHECK_DEADLOCK FALSE
