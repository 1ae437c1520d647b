CONSTANTS
    g = g
    a1 = a1
    a2 = a2
    b1 = b1
    NoBlock = NoBlock
    Genesis = g
    Blocks <- ForkBlocks
    Parent <- ForkParent
    Ancestors <- ForkAncestors
    ChainWork <- ForkWork
    Invalid = {}
    MaxFile = 0
    MaxCrashes = 1
    MaxInvalidate = 0
SPECIFICATION Spec
CHECK_DEADLOCK FALSE
INVARIANTS ParentsLoaded
