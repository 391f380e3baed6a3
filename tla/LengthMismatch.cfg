CONSTANTS
    ann = ann
    bob = bob
    Clients <- LongClient
    gid = 16
    reqID <- LongRequestID
    Hosts <- LongHostList
    Address <- Known
    BUFSIZE = 21
    Tries = 2
    Noise <- SomeNoise
    MaxFaults <- NoFaults

SPECIFICATION Spec

INVARIANT LengthMismatchIsAnswered

CHECK_DEADLOCK FALSE
