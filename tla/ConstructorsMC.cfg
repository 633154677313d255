SPECIFICATION Spec
CONSTANTS
    Subs <- MCSubs
    Members <- MCMembers
    MaxParts = 3
INVARIANTS InsideOut EveryPathReturns CompleteObjectMakesVBases CleanupInOrder CompilerRestored
CHECK_DEADLOCK FALSE
