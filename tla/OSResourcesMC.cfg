SPECIFICATION MCSpec
CONSTANTS
    Hand <- MCHand
    Block <- MCBlock
    Sizes = {1, 2}
    Handle <- MCHandle
    MaxOpen = 3
    Word16 = 8
    LinkFile <- MCLinkFile
    Argv <- MCArgv
    MaxPath = 16
INVARIANTS ArgumentsKept RefsDistinct
PROPERTIES ResourcesOwned LinksResolve
CHECK_DEADLOCK FALSE
