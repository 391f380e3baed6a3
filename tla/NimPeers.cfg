CONSTANTS
    GAME <- ProgramBoard
    Typed <- AnyNumber

SPECIFICATION FairSpec

INVARIANTS
    TypeOK
    OneMoveInFlight
    ReceivedMoveIsValid
    BoardsAgree
    DiesOnlyOfInterrupt

PROPERTIES
    ImplementsNim
    PeersAreReleased
    GameEnds

CHECK_DEADLOCK FALSE
