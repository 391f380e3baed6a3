CONSTANTS
    ByteSize = 16
    White = {10}
    Clients = {c1, c2}
    Questions <- SomeQuestions
    Junk = {"a", " ", "?"}
    BUFSIZE = 20
    Overrun = {2}
    MaxDuplicates = 1
    RecvMax = 40
    Segments = {3, 14}
    Backlog = 0
    c1 = c1
    c2 = c2

SPECIFICATION Spec

INVARIANTS
    TypeOK
    UdpAnswersAreRight
    UdpServerFallsFor
    TcpAnswersAreRight

PROPERTIES
    TcpClientsEnd

CHECK_DEADLOCK FALSE
