CONSTANTS
    c1 = c1
    c2 = c2
    Conn = {c1, c2}
    Fd = {1, 2}
    None = None
    Byte <- MCByte
    MaxStream = 14
    SB_DATA_SIZE = 1
    DirMax = 1
    Cap = 1
    HeaderLen = 1
    FileLen = 2
    DirLen = 2
    Request = {"file", "fileHead", "unreadable", "dir", "dirHead", "special", "notModified", "missing", "tooLarge", "malformed"}
    MaxRequests = 1
    Patient = FALSE
SPECIFICATION FairSpec
CHECK_DEADLOCK FALSE
INVARIANTS
    OwnerAlive
    StreamIntegrity
    DeferredOwned
    FailOnlyIfLost
    ServerSurvives
PROPERTIES
    NeverAbandoned
    RequestsRead
    ReaderServed
    RoutinesReleased
