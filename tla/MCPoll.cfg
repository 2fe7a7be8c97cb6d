SPECIFICATION Spec
CONSTANTS
    Fd = {1, 2}
    Blocks = 2
    OutReported = FALSE
    MaxConnections = 2
PROPERTIES
    DeferredResumes
CHECK_DEADLOCK FALSE
