CONSTANTS
    ImmSize = 32768
    WordSize = 65536
    TextBase = 2048
    DataBase = 4096
    R_LENGTH = 32
    DATA_SEG_LENGTH = 9
    Sources <- SomeSources
    Lines <- SomeLines
    Junk <- SomeJunk
    MaxIC = 80

SPECIFICATION FairSpec

INVARIANTS
    TypeOK
    LabelsAreResolved

PROPERTIES
    PalindromeIsReported

CHECK_DEADLOCK FALSE
