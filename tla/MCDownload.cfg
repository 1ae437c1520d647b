CONSTANTS
    g = g
    a1 = a1
    a2 = a2
    b1 = b1
    p1 = p1
    p2 = p2
    p3 = p3
    NoBlock = NoBlock
    NoPeer = NoPeer
    Genesis = g
    Blocks <- ForkBlocks
    Parent <- ForkParent
    Ancestors <- ForkAncestors
    ChainWork <- ForkWork
    Peers = {p1, p2}
    Chain <- ForkChain
    Serves <- ForkServes
    Preferred = {p2}
    Steady = {p2}
    Mute = {}
    Bad = {b1}
    DownloadWindow = 1
    MaxInTransit = 1
SPECIFICATION Spec
CHECK_DEADLOCK FALSE
INVARIANTS PeerCountersExact LastCommonFull InFlightExact StallersOweBlocks
