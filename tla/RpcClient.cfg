\* Three calls and a raw call per connection, two connection attempts, one
\* surplus record per connection; xid_ wraps within a connection.
SPECIFICATION FairSpec
CONSTANTS
    XidSpace = 3
    RawXids = {0, 2}
    Verdicts = {"OK", "PROTO_ERR"}
    Fragments = TRUE
    MaxCalls = 3
    MaxRaws = 1
    MaxSurplus = 1
    MaxConnects = 2
INVARIANTS
    TypeOK
    AcceptedReplyIsMine
    InStep
    BehindBySurplus
PROPERTIES
    ImplementsSyncRpc
    CallReturns
CHECK_DEADLOCK FALSE
