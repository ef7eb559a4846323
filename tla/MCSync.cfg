SPECIFICATION Spec
CONSTANTS
    Peers = {p, q}
    Blocks <- StraightBlocks
    InitialHead <- Start
    InitialPeerHeads <- TwoBlocks
    Limit = 2
    MinPrefetch = 4
    MaxPerPeer = 1
    MaxHandling = 1
    MaxPrefetch = 2
    RecentCapacity = 3
    BlockInterval = 1
    MaxBlockInterval = 1
    GracePeriod = 0
    MaxLosses = 1
    Advertises = TRUE
    MayLack <- OneLost
INVARIANTS RequestsTracked   
CHECK_DEADLOCK FALSE
