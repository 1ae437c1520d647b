CONSTANTS
    g = g
    a1 = a1
    a2 = a2
    b1 = b1
    p1 = p1
    p2 = p2
    p3 = p3
    NoBlock = NoBlock
    NoPeer = NoPeer
    Genesis = g
    Blocks <- ShortBlocks
    Parent <- ShortParent
    Ancestors <- ShortAncestors
    ChainWork <- ShortWork
    Peers = {p1, p2, p3}
    Chain <- ShortChain
    Serves <- ShortServes
    Preferred = {p1, p2, p3}
    Steady = {p2}
    Mute = {p1, p3}
    Bad = {}
    DownloadWindow = 1
    MaxInTransit = 1
SPECIFICATION FairSpec
CHECK_DEADLOCK FALSE
PROPERTIES ChainArrives
