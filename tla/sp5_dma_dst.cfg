SPECIFICATION Spec
CONSTANTS
    ImmBits = 6
    BtbSize = 64
    Junk <- MCJunk
    Images <- LabImages
    DmaLens <- MCDmaLens
    CpuAddr <- MCCpuAddr
    StoreWords <- MCStoreWords
INVARIANTS
    LabProgramCorrect
