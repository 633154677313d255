SPECIFICATION Spec
CONSTANTS
    f = f
    g = g
    h = h
    p = p
    d = d
    s = s
    t = t
    al = al
    lab = lab
    C = C
    x = x
    y = y
    nf = nf
    ng = ng
    nh = nh
    np = np
    nd = nd
    ns = ns
    nlab = nlab
    nC = nC
    Function <- MCFunction
    Data <- MCData
    Alias <- MCAlias
    Other <- MCOther
    Class <- MCClass
    AliasTarget <- MCAliasTarget
    TemplArgs <- MCTemplArgs
    Mangled <- MCMangled
    Pascal <- MCPascal
    Scoped <- MCScoped
    LocalVar <- MCLocalVar
    OwnerOf <- MCOwnerOf
    VarName <- MCVarName
    Identifier <- MCIdentifier
    DependentType <- MCDependentType
    MangledType <- MCMangledType
    Age <- MCAge
    ThunkOffset <- MCThunkOffset
    StringNum <- MCStringNum
    LocalNum <- MCLocalNum
    Virtual <- MCVirtual
    MaxGiven = 2
INVARIANTS TypeOK NamesRight
PROPERTIES BufferOnlyGrows LinkNameStable EveryCallReturns
