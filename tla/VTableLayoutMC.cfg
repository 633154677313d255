SPECIFICATION Spec
CONSTANTS
    f = f
    g = g
    MaxClass = 3
    Method <- MCMethod
    ObjLists <- MCObjLists
    Header = 2
    PtrSize = 1
INVARIANTS BaseTablesDisjoint SlotsAgree OneVPtrPerChain
CHECK_DEADLOCK FALSE
