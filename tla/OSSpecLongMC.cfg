SPECIFICATION NamedSpec
CONSTANTS
    a = a
    b = b
    Backslash = Backslash
    PathString <- MCPathString
    NameString <- MCNameString
    MaxPath = 4
    NameMax = 2
    Sizes <- MCSizes
INVARIANTS LongSpecsRefused
CHECK_DEADLOCK FALSE
