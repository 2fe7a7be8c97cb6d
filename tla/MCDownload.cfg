CONSTANTS
    N = 2
    FileLen = 3
    Kinds = {"file", "page"}
    Sources = {"http", "file"}
    Commands = {"START", "UPDATE", "MIRROR"}
    MaxCommands = 2
    MaxFaults = 2
    SB_DATA_SIZE = 2
    HeaderMax = 2
SPECIFICATION FairSpec
CHECK_DEADLOCK FALSE
INVARIANTS
    OwnBytes
    HeaderOwnUnlessUpdated
    FinishedUnlessSpoiled
PROPERTIES
    NoClobber
    CommandEnds
