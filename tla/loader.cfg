\* All files of five lines, and all files of the assembler.
SPECIFICATION FairSpec
CONSTANTS
    Width = 2
    Height = 3
    Texts <- MCTexts
INVARIANTS
    TypeOK
    ImageIsText
    MemoryIsImage
    LoadersAgree
    DumpReloads
    AssembledIsLoaded
PROPERTY
    Loads
