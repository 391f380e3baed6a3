CONSTANTS
    ann = ann
    bob = bob
    Clients <- OneClient
    gid = 16
    reqID <- OneRequestID
    Hosts <- TwoHosts
    Address <- Known
    BUFSIZE = 21
    Tries = 2
    Noise <- SomeNoise
    MaxFaults <- OneFault

SPECIFICATION FairSpec

INVARIANTS
    TypeOK
    PrintedAddressesAreRight
    ServerStaysUp
    TriesAreSpentOnFaults

PROPERTY ClientEnds

CHECK_DEADLOCK FALSE
