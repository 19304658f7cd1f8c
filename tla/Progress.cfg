SPECIFICATION FairSpec
PROPERTIES
    DispatchersFinish
    ReadersFinish
    EnginesFinish
    FlinkControlled
CHECK_DEADLOCK FALSE
