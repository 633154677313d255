SPECIFICATION Spec
CONSTANTS
    StackSize = 4
    StackLimit = 3
    Options <- MCOptions
    Entity <- MCEntity
INVARIANT TablesAgree
PROPERTIES NamesTellApart TypesArePrefixFree
