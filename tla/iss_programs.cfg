SPECIFICATION FairSpec
CONSTANTS
    ImmBits = 6
    Images <- ProgramImages
INVARIANTS
    TypeOK
    SumCorrect
    MultCorrect
    TableCorrect
    CornersCorrect
PROPERTIES
    Ends
