SPECIFICATION Spec
CONSTANTS
    ImmBits = 4
    Junk <- MCJunk
    Images <- CommonImages
    DmaLens <- MCDmaLens
    CpuAddr <- MCCpuAddr
    StoreWords <- MCStoreWords
INVARIANTS
    TypeOK
PROPERTIES
    ImplementsIss
