SPECIFICATION Spec
CONSTANTS
    ImmBits = 4
    BtbSize = 16
    Junk <- MCJunk
    Images <- StraightImages
    DmaLens <- MCDmaLens
    CpuAddr <- MCCpuAddr
    StoreWords <- MCStoreWords
INVARIANTS
    TypeOK
    SavedWordIsFetched
    LoadBypassIsCurrent
PROPERTIES
    StallsAreSingle
    ImplementsIss
