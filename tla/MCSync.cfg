SPECIFICATION Spec
CONSTANTS
    Undo = 9
    Limit = 3
    Peers = {1, 2}
    OurHead <- MCOurs
    PeerHeads <- MCForked
    LaterHeads <- MCLater
    MinIds = 2
    PerPeer = 2
    MaxHandled = 2
    MaxPrefetch = 2
    CountModulus = 16
    MaxEvents = 1
INVARIANTS TypeOK  RequestedOnce HandedInOrder
CHECK_DEADLOCK FALSE
