SPECIFICATION FairSpec
CONSTANTS
    ImmBits = 6
    Junk <- MCJunk
    Images <- DmaImages
    DmaLens <- MCDmaLens
    CpuAddr <- MCCpuAddr
    StoreWords <- MCStoreWords
INVARIANTS
    LabProgramCorrect
    DumpHoldsPrefix
PROPERTIES
    ImplementsArch
    ObeysEngine
    CopyEnds
    Halts
