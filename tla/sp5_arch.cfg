SPECIFICATION FairSpec
CONSTANTS
    ImmBits = 6
    BtbSize = 4
    Junk <- MCJunk
    Images <- ArchImages
    DmaLens <- MCDmaLens
    CpuAddr <- MCCpuAddr
    StoreWords <- MCStoreWords
INVARIANTS
    LoadedWordIsFresh
PROPERTIES
    ObeysEngine
    CopyEnds
    Halts
    ImplementsPipeArch
