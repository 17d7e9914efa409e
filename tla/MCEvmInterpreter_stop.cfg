\* STOP followed by more code: does the interpreter halt?
CONSTANTS
    ByteBits = 8
    LimbBytes = 1
    ShiftValueBits = 6
    MEMORY_SPACE = 5
    PAD = 3
    STACK_SPACE = 3
    STORAGE_SPACE = 2
    GAS_LIMIT = 8
    GasBytes = 2
    DEPLOY_LENGTH = 3
    OutOfRange = {0, 1}
    Clock = {7}
    Digests <- MCDigests
    MESSAGEDATASIZE = 3
    SelectorBytes = 1
    CodecopyBulk = 13
    Messages <- MCMessages
    MaxInstrs = 3
    Instructions <- StopInstrs
    Programs <- MCPrograms
SPECIFICATION Spec
PROPERTY StopHalts
CHECK_DEADLOCK FALSE
