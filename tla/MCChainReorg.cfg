CONSTANTS
    g = g
    a1 = a1
    a2 = a2
    a3 = a3
    b1 = b1
    b2 = b2
    b3 = b3
    t1 = t1
    t2 = t2
    NoBlock = NoBlock
    Genesis = g
    Blocks <- ForkBlocks
    Parent <- ForkParent
    Ancestors <- ForkAncestors
    ChainWork <- ForkWork
    BadContext = {a3}
    Invalid = {b2}
    Damaged = {}
    Threads = {t1, t2}
    MaxInvalidate = 0
    MaxReconsider = 0
    MaxAborts = 0
SPECIFICATION FairSpec
INVARIANTS BestChainAtRest LinkedIffStored CandidatesLinked
PROPERTIES ActivationEnds
