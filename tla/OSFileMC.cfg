SPECIFICATION Spec
CONSTANTS
    u = u
    w = w
    User <- MCUser
    Buffer <- MCBuffer
    Word = 8
    Chunk = 2
    Capacity = 5
INVARIANTS TypeOK NoUndefinedByte
PROPERTIES Implements WriteReturns
