CONSTANTS
    ImmSize = 32768
    WordSize = 65536
    DataBase = 4096
    R_LENGTH = 13
    DATA_SEG_LENGTH = 9
    Sources <- SomeSources
    Lines <- SomeLines
    StackRd <- SomeRd
    StackWord <- SomeWord
    MaxCycles = 240

SPECIFICATION FairSpec

INVARIANTS
    TypeOK
    LabelsAreResolved
    LabsPrintTheirResults

PROPERTIES
    ForwardingIsSound
    LabsEnd

CHECK_DEADLOCK FALSE
