CONSTANTS
    HeaderLen = 2
    BodyLen = 5
    Byte <- MCByte
    Header <- MCHeader
    Body <- MCBody
    SB_DATA_SIZE = 2
    DirMax = 2
    Kinds = {"ROUTINE", "DIR", "FILE"}
SPECIFICATION Spec
CHECK_DEADLOCK FALSE
INVARIANTS
    TypeOK
    NothingSkipped
    DeliversPrefix
    DeferHasData
    FinishComplete
