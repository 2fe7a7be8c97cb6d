CONSTANTS
    c1 = c1
    c2 = c2
    Conn = {c1, c2}
    Fd = {1, 2}
    None = None
    Byte <- MCByte
    MaxStream = 14
    SB_DATA_SIZE = 1
    DirMax = 1
    Cap = 2
    HeaderLen = 2
    FileLen = 3
    DirLen = 2
    Request = {"file", "notModified"}
    MaxRequests = 2
    Patient = TRUE
SPECIFICATION Spec
CHECK_DEADLOCK FALSE
INVARIANT FailOnlyIfLost
