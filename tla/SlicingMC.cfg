SPECIFICATION SlicingSpec
CONSTANTS
    main = main
    table = table
    handler = handler
    Section <- MCSection
    SectionOrder <- MCSectionOrder
    Addr <- MCAddr
    Size <- MCSize
    Source = {a}
    Filler = Filler
    MaxSlices = 2
    Name <- MCName
    LongName <- MCLongName
    Text <- MCText
    Data <- MCData
    Bss <- MCBss
    Base = 10
    Limit = 20
    MaxAddend = 3
    SymbolFiles <- MCSymbolFiles
    DebugSymbols <- MCDebugSymbols
    Images <- MCImages
    SliceLists <- MCSliceLists
    AddRelocations <- MCAddRelocations
INVARIANTS Chained SlicesPartition FillersFillGaps LinkedIsOriginal ObjectFilesWhole
