SPECIFICATION Spec
CONSTANTS
    ImmBits = 6
    BtbSize = 64
    Junk <- MCJunk
    Images <- TwoLoadsImages
    DmaLens <- MCDmaLens
    CpuAddr <- MCCpuAddr
    StoreWords <- MCStoreWords
PROPERTIES
    ImplementsIss
