CONSTANTS
    Byte = {a, b}
    SB_DATA_SIZE = 2
    MaxWrite = 3
    MaxBytes = 5
SPECIFICATION Spec
INVARIANTS
    TypeOK
    NothingLost
CONSTANTS
    a = a
    b = b
