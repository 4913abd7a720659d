\* Any program: stores anywhere, even into the words in flight.
SPECIFICATION FairSpec
CONSTANTS
    Height = 3
    Word = {0, 1}
    Junk = 0
    Lens <- MCLens
    CpuAddr <- MCWildAddr
    CpuWord = {0, 1}
    Images <- OneHot
    Disciplined = FALSE
INVARIANTS
    TypeOK
    NoDmaFault
    FreshDataOut
PROPERTIES
    ImplementsStreamCopy
    CopyEnds
