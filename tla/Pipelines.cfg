SPECIFICATION PipelinesSpec
INVARIANTS
    PlanExact
    VersionsConsistent
    DefinitionsExact
    WalksComplete
PROPERTIES
    VersionsCarryOver
    ContractsCompared
CHECK_DEADLOCK FALSE
