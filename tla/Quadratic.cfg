CONSTANTS
    AddressSize = 128
    TEXT_SEG_BASE = 1
    DATA_SEG_BASE = 32
    STACK_SEG_BASE = 64
    TEXT_SEG_LENGTH = 12
    DATA_SEG_LENGTH = 8
    STACK_SEG_LENGTH = 3
    Sessions <- SomeSessions
    Numbers <- Samples
    Junk <- SomeJunk

SPECIFICATION FairSpec

INVARIANTS
    BothTypeOK
    StackIsClean

PROPERTIES
    ImplementsCalculator
    QuadraticIsEvaluated

CHECK_DEADLOCK FALSE
