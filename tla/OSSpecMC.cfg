SPECIFICATION NamedSpec
CONSTANTS
    a = a
    b = b
    Backslash = Backslash
    PathString <- MCPathString
    NameString <- MCNameString
    MaxPath = 4
    NameMax = 2
    Sizes <- MCSizes
INVARIANTS BuffersFilled KindsAreRight
PROPERTIES OnlyNamedFiles
CHECK_DEADLOCK FALSE
