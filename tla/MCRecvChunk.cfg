CONSTANTS
    Bodies <- MCBodies
    Readers = {"file", "page"}
    Radix = 2
    PEEK = 8
    SB_DATA_SIZE = 3
    MaxPre = 25
SPECIFICATION Spec
CHECK_DEADLOCK FALSE
INVARIANTS
    DecodesPrefix
    CompleteWhole
    InStep
    NoFalseAlarm
PROPERTIES
    BodySpec
    ReaderEnds
