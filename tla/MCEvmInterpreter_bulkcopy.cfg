\* CODECOPY of CodecopyBulk bytes or more.
CONSTANTS
    ByteBits = 8
    LimbBytes = 1
    ShiftValueBits = 6
    MEMORY_SPACE = 5
    PAD = 3
    STACK_SPACE = 4
    STORAGE_SPACE = 2
    GAS_LIMIT = 8
    GasBytes = 2
    DEPLOY_LENGTH = 3
    OutOfRange = {0, 1}
    Clock = {7}
    Digests <- MCDigests
    MESSAGEDATASIZE = 3
    SelectorBytes = 1
    CodecopyBulk = 13
    Messages <- MCMessages
    MaxInstrs = 5
    Instructions <- BulkInstrs
    Programs <- MCPrograms
SPECIFICATION Spec
PROPERTY CopiesWithinMemory
CHECK_DEADLOCK FALSE
