SPECIFICATION PathSpec
CONSTANTS
    Strings <- MCStrings
    Parts <- MCParts
    DrivePrefixes <- MCPrefixes
    CygwinRoots <- MCRoots
    Stale <- MCStale
    Memory <- MCMemory
    MAX_PATH = 8
    MaxJoined = 10
    MaxName = 6
    NameSize = 4
INVARIANTS PathTypeOK CanonicalPaths
CHECK_DEADLOCK FALSE
