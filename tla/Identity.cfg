SPECIFICATION IdentitySpec
INVARIANTS
    SessionsEnd
    KeysFollowIssuer
    ConnectionsKept
    LimitPerCounter
PROPERTIES
    AccountsProtected
CHECK_DEADLOCK FALSE
