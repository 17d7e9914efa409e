CONSTANTS
    ByteBits = 2
    LimbBytes = 1
    ShiftValueBits = 4
SPECIFICATION Spec
INVARIANT ExpIsPower
