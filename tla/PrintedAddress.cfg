CONSTANTS
    ann = ann
    bob = bob
    Clients <- OneClient
    gid = 16
    reqID <- OneRequestID
    Hosts <- TwoHosts
    Address <- Known
    BUFSIZE = 21
    Tries = 2
    Noise <- SomeNoise
    MaxFaults <- NoFaults

SPECIFICATION Spec

INVARIANT EveryPrintedAddressIsRight

CHECK_DEADLOCK FALSE
