SPECIFICATION Spec
CONSTANTS
    Client = {c1, c2}
    Unknown = Unknown
    NULL = NULL
    PortText <- MCPortText
    Busy <- MCBusy
    Code = {200, 404}
    CounterSize = 4
    MaxRequests = 2
INVARIANTS
    ConnectionsExact
    RowsExact
    TransfersExact
PROPERTIES
    WindowCloses
CHECK_DEADLOCK FALSE
