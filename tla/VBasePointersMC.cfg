SPECIFICATION VBaseSpec
CONSTANTS
    MaxClass = 4
INVARIANTS StoresRight PathsRight
CHECK_DEADLOCK FALSE
