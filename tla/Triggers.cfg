SPECIFICATION TriggerSpec
INVARIANTS
    EventsHandled
    WebhooksExact
    NotificationsBounded
    LaunchesAccounted
CHECK_DEADLOCK FALSE
