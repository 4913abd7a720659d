\* Programs that keep clear of the words in flight.
SPECIFICATION Spec
CONSTANTS
    Height = 4
    Word = {0, 1}
    Junk = 0
    Lens <- MCLens
    CpuAddr <- MCAddr
    CpuWord = {0, 1}
    Images <- OneHot
    Disciplined = TRUE
INVARIANTS
    StagedWords
PROPERTY
    ImplementsBlockCopy
