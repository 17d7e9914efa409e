\* The memory, storage, hashing and RETURN opcodes, and the message opcodes.
CONSTANTS
    ByteBits = 8
    LimbBytes = 1
    ShiftValueBits = 6
    MEMORY_SPACE = 5
    PAD = 3
    STACK_SPACE = 3
    STORAGE_SPACE = 2
    GAS_LIMIT = 8
    GasBytes = 2
    DEPLOY_LENGTH = 3
    OutOfRange = {0, 1}
    Clock = {7}
    Digests <- MCDigests
    MESSAGEDATASIZE = 3
    SelectorBytes = 1
    CodecopyBulk = 13
    Messages <- MCMessages
    MaxInstrs = 4
    Instructions <- MemoryInstrs
    Programs <- WithMessagePrograms
SPECIFICATION Spec
INVARIANT TypeOK
PROPERTY StorageFrame
CHECK_DEADLOCK FALSE
