CONSTANTS
    ann = ann
    bob = bob
    cid = cid
    dan = dan
    red = red
    blue = blue
    NoClient = NoClient
    Clients <- FourClients
    Machine <- FourMachines
    play_port <- FourPorts
    group_id = 20
    AcceptQueue = 2
    MaxFaults <- OneFault
    MaxAllFaults = 3

SPECIFICATION FairSpec

INVARIANTS
    TypeOK
    MatchedOnce
    NoRegistrationForgotten
    AddressesAreRight
    NobodyStranded

 

CHECK_DEADLOCK FALSE
