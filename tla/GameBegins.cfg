CONSTANTS
    ann = ann
    bob = bob
    cid = cid
    dan = dan
    red = red
    blue = blue
    NoClient = NoClient
    Clients <- ThreeClients
    Machine <- ThreeMachines
    play_port <- ThreePorts
    group_id = 20
    AcceptQueue = 2
    MaxFaults <- NoFaults
    MaxAllFaults = 0

SPECIFICATION FairSpec

PROPERTY GameBegins

CHECK_DEADLOCK FALSE
