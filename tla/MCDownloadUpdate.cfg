CONSTANTS
    N = 1
    FileLen = 3
    Kinds = {"file"}
    Sources = {"http"}
    Commands = {"UPDATE"}
    MaxCommands = 1
    MaxFaults = 0
    SB_DATA_SIZE = 2
    HeaderMax = 2
SPECIFICATION Spec
CHECK_DEADLOCK FALSE
INVARIANT SkippedNotNewer
