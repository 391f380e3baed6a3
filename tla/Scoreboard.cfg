CONSTANTS
    ImmSize = 65536
    DataBase = 4096
    R_LENGTH = 32
    F_LENGTH = 32
    TEXT_SEG_LENGTH = 28
    Sources <- SomeSources
    Junk <- SomeJunk

SPECIFICATION FairSpec

INVARIANTS
    TypeOK
    BoardsShowTheLines
    TheTestSuffices

PROPERTIES
    EveryWordIsIssued

CHECK_DEADLOCK FALSE
