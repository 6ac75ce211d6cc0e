SPECIFICATION Spec
CONSTANTS
    BufferSize = 8
    CharValues = 4
    ShortValues = 16
    IntValues = 256
    LongValues = 65536
    PointerDigits = 4
    Calls <- AllCalls
    Chunk = 4
    Huge = 65535
    Room = 36
INVARIANTS Truncated NumbersRead OwnsResult
PROPERTIES Returns
CHECK_DEADLOCK FALSE
