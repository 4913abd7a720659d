SPECIFICATION FairSpec
CONSTANTS
    ImmBits = 6
    Junk <- MCJunk
    Images <- ZeroImages
    DmaLens <- MCDmaLens
    CpuAddr <- MCCpuAddr
    StoreWords <- MCStoreWords
PROPERTIES
    BusyEnds
