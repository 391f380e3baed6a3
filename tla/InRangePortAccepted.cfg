CONSTANTS
    ann = ann
    bob = bob
    cid = cid
    dan = dan
    red = red
    blue = blue
    NoClient = NoClient
    Clients <- TwoClients
    Machine <- TwoMachines
    play_port <- TwoPorts
    group_id = 20
    AcceptQueue = 2
    MaxFaults <- NoFaults
    MaxAllFaults = 0

SPECIFICATION Spec

INVARIANT InRangePortAccepted

CHECK_DEADLOCK FALSE
